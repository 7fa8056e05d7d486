------------------------------ MODULE DeviceSurvey ------------------------------
(***************************************************************************)
(* What the handle says of a device: the content comedi_open copies and    *)
(* probes from the driver (lib/filler.c), the getters that answer from it  *)
(* (lib/get.c, lib/range.c) behind their checks (lib/error.c), and the two *)
(* programs that ask for all of it, comedi_board_info and demo/info.c.     *)
(* A range type stands for its table; what is allocated on the way is in   *)
(* ComediHandle, the command the programs ask for in ComediCmd.            *)
(***************************************************************************)
EXTENDS Integers, Sequences

CONSTANTS Described,  \* what a driver may say of a subdevice
          Kernels,    \* [flagged, insnlist]: it has SDF_CMD, and COMEDI_INSNLIST
          NDescribed  \* it->n_subdevices

RANGE_LENGTH(rt) == rt % 16

SurveyParameters ==
  /\ NDescribed \in Nat
  /\ \A k \in Kernels : k.flagged \in BOOLEAN /\ k.insnlist \in BOOLEAN
  /\ \A d \in Described :
       /\ d.n_chan \in Nat /\ d.maxdata \in Nat /\ d.range_type \in Nat
       /\ d.maxdata_list \in [1 .. d.n_chan -> Nat] /\ d.range_type_list \in [1 .. d.n_chan -> Nat]
       /\ d.cmd \in BOOLEAN /\ d.bits \in BOOLEAN
       /\ d.insn_bits_support \in {"unknown", "supported", "unsupported"}
       /\ d.insn_bits_support = "supported" => d.bits
       /\ d.insn_bits_support = "unsupported" => ~d.bits

VARIABLES kernel,      \* the kernel, and what its driver says
          driver,
          subdevices,  \* of the handle, filled in one after the other
          where,       \* the place in the program
          subdev, channel, rangeno,
          lines        \* printed so far: of each subdevice its maxima and ranges

surveyed == <<kernel, driver>>
loops == <<subdev, channel, rangeno>>
surveyVars == <<surveyed, subdevices, where, loops, lines>>

NULL == << >>
Subdevs == 0 .. NDescribed - 1
Nothing == [maxima |-> << >>, ranges |-> << >>]

SurveyInit ==
  /\ kernel \in Kernels /\ driver \in [Subdevs -> Described]
  /\ subdevices = << >> /\ where = "fill"
  /\ subdev = 0 /\ channel = 0 /\ rangeno = 0
  /\ lines = [s \in Subdevs |-> Nothing]

-----------------------------------------------------------------------------
(***************************************************************************)
(* lib/filler.c: the content of the handle.  subdevices[s + 1] is that of  *)
(* subdevice s.                                                            *)
(***************************************************************************)

\* do_test_for_cmd: by the flag, or by a test that answers EIO where there are
\* no commands; any other failure counts as none.
test_for_cmd(d) == IF kernel.flagged THEN {d.cmd} ELSE {d.cmd, FALSE}

\* do_test_for_insn_bits: INSN_BITS without a mask, which may fail for now.
test_for_insn_bits(d) == IF d.maxdata # 1 THEN {FALSE} ELSE {d.bits, FALSE}

has_insn_bits(d) ==
  IF d.insn_bits_support # "unknown" THEN {d.insn_bits_support = "supported"}
  ELSE IF kernel.insnlist THEN test_for_insn_bits(d) ELSE {FALSE}

\* "lists" are those that are not NULL, each when its flag is set.
Filled(d, byCmd, byBits) ==
  [type |-> d.type, n_chan |-> d.n_chan, subd_flags |-> d.subd_flags,
   maxdata |-> d.maxdata, range_type |-> d.range_type, lists |-> d.subd_flags,
   maxdata_list |-> d.maxdata_list, range_type_list |-> d.range_type_list,
   has_cmd |-> byCmd, has_insn_bits |-> byBits]

\* calloc's zeros, of which an unused subdevice keeps all but its type.
Unused(d) ==
  [type |-> d.type, n_chan |-> 0, subd_flags |-> {}, maxdata |-> 0, range_type |-> 0,
   lists |-> {}, maxdata_list |-> << >>, range_type_list |-> << >>, has_cmd |-> FALSE, has_insn_bits |-> FALSE]

Fill ==
  /\ where = "fill" /\ Len(subdevices) < NDescribed
  /\ LET d == driver[Len(subdevices)]
     IN  IF d.type = "unused" THEN subdevices' = Append(subdevices, Unused(d))
         ELSE \E byCmd \in test_for_cmd(d), byBits \in has_insn_bits(d) :
                subdevices' = Append(subdevices, Filled(d, byCmd, byBits))
  /\ UNCHANGED <<surveyed, where, loops, lines>>

\* comedi_open ends, and the survey begins.
Opened ==
  /\ where = "fill" /\ Len(subdevices) = NDescribed
  /\ where' = "subdevice" /\ UNCHANGED <<surveyed, subdevices, loops, lines>>

-----------------------------------------------------------------------------
(***************************************************************************)
(* lib/error.c, lib/get.c, lib/range.c: what the getters answer.  A range  *)
(* is the table it is in and its number there.                             *)
(***************************************************************************)
valid_subd(s) == s \in Subdevs
It(s) == subdevices[s + 1]
valid_chan(s, c) == valid_subd(s) /\ c >= 0 /\ c < It(s).n_chan

get_n_subdevices == NDescribed
get_subdevice_type(s) == IF valid_subd(s) THEN It(s).type ELSE "-1"
get_n_channels(s) == IF valid_subd(s) THEN It(s).n_chan ELSE -1

get_maxdata(s, c) ==
  IF ~valid_chan(s, c) THEN 0
  ELSE IF "SDF_MAXDATA" \in It(s).lists THEN It(s).maxdata_list[c + 1] ELSE It(s).maxdata

maxdata_is_chan_specific(s) == valid_subd(s) /\ "SDF_MAXDATA" \in It(s).lists

get_rangetype(s, c) ==
  IF ~valid_chan(s, c) THEN -1
  ELSE IF "SDF_RANGETYPE" \in It(s).lists THEN It(s).range_type_list[c + 1] ELSE It(s).range_type

\* A slip: the length is that of the range type of the subdevice.
get_n_ranges_common(s, c) == IF valid_chan(s, c) THEN RANGE_LENGTH(It(s).range_type) ELSE -1

get_n_ranges(s, c) == IF valid_chan(s, c) THEN RANGE_LENGTH(get_rangetype(s, c)) ELSE -1

get_range(s, c, r) ==
  IF ~valid_chan(s, c) \/ r >= RANGE_LENGTH(get_rangetype(s, c)) THEN NULL
  ELSE IF "SDF_RANGETYPE" \in It(s).lists THEN <<It(s).range_type_list[c + 1], r>>
  ELSE <<It(s).range_type, r>>

range_is_chan_specific(s) == valid_subd(s) /\ "SDF_RANGETYPE" \in It(s).subd_flags

-----------------------------------------------------------------------------
(***************************************************************************)
(* comedi_board_info/comedi_board_info.c and demo/info.c, main.            *)
(***************************************************************************)
Begin(place) == where' = place /\ channel' = 0 /\ rangeno' = 0
Printed(s, what, item) == lines' = [lines EXCEPT ![s][what] = Append(@, item)]

\* The type; an unused subdevice has nothing more to tell.
Subdevice ==
  /\ where = "subdevice" /\ subdev < get_n_subdevices
  /\ IF get_subdevice_type(subdev) = "unused" THEN subdev' = subdev + 1 /\ UNCHANGED <<where, channel, rangeno>>
     ELSE Begin("maxdata") /\ UNCHANGED subdev
  /\ UNCHANGED <<surveyed, subdevices, lines>>

Maxdata ==
  /\ where = "maxdata"
  /\ IF ~maxdata_is_chan_specific(subdev)
     THEN Begin("ranges") /\ Printed(subdev, "maxima", get_maxdata(subdev, 0))
     ELSE IF channel < get_n_channels(subdev)
     THEN /\ Printed(subdev, "maxima", get_maxdata(subdev, channel))
          /\ channel' = channel + 1 /\ UNCHANGED <<where, rangeno>>
     ELSE Begin("ranges") /\ UNCHANGED lines
  /\ UNCHANGED <<surveyed, subdevices, subdev>>

\* The next range of a channel, read through the pointer.
Range ==
  /\ where = "ranges" /\ rangeno < get_n_ranges(subdev, channel)
  /\ LET rng == get_range(subdev, channel, rangeno)
     IN  IF rng = NULL THEN where' = "crashed" /\ UNCHANGED <<rangeno, lines>>
         ELSE Printed(subdev, "ranges", <<channel, rng>>) /\ rangeno' = rangeno + 1 /\ UNCHANGED where
  /\ UNCHANGED <<surveyed, subdevices, subdev, channel>>

\* The next channel, where each has its own; then what commands it takes, and
\* the next subdevice.
RangesDone ==
  /\ where = "ranges" /\ rangeno >= get_n_ranges(subdev, channel)
  /\ rangeno' = 0
  /\ IF range_is_chan_specific(subdev) /\ channel + 1 < get_n_channels(subdev)
     THEN channel' = channel + 1 /\ UNCHANGED <<where, subdev>>
     ELSE where' = "subdevice" /\ channel' = 0 /\ subdev' = subdev + 1
  /\ UNCHANGED <<surveyed, subdevices, lines>>

Finish ==
  /\ where = "subdevice" /\ subdev = get_n_subdevices /\ where' = "done"
  /\ UNCHANGED <<surveyed, subdevices, loops, lines>>

SurveyNext == Fill \/ Opened \/ Subdevice \/ Maxdata \/ Range \/ RangesDone \/ Finish

-----------------------------------------------------------------------------
\* Every variable holds a value of its kind.
SurveyTypeOK ==
  /\ kernel \in Kernels /\ driver \in [Subdevs -> Described] /\ Len(subdevices) <= NDescribed
  /\ where \in {"fill", "subdevice", "maxdata", "ranges", "done", "crashed"}
  /\ subdev \in 0 .. NDescribed /\ channel \in Nat /\ rangeno \in 0 .. 15

\* What the driver has of maxima, and of ranges: for each channel where the
\* flag says so, and once where it does not.
Own(d, flag) == IF flag \in d.subd_flags THEN 0 .. d.n_chan - 1 ELSE IF d.n_chan = 0 THEN {} ELSE {0}
Maximum(d, c) == IF "SDF_MAXDATA" \in d.subd_flags THEN d.maxdata_list[c + 1] ELSE d.maxdata
Type(d, c) == IF "SDF_RANGETYPE" \in d.subd_flags THEN d.range_type_list[c + 1] ELSE d.range_type
Tables(d) ==
  UNION {{<<c, <<Type(d, c), r>>>> : r \in 0 .. RANGE_LENGTH(Type(d, c)) - 1} : c \in Own(d, "SDF_RANGETYPE")}
Entries(q) == {q[p] : p \in DOMAIN q}

\* The survey tells all that the driver says, each range once and in the table
\* of its channel, and never reads through a pointer that is not there.
SurveyTells ==
  /\ where # "crashed"
  /\ where = "done" => \A s \in Subdevs :
       LET d == driver[s]  told == lines[s]  own == Own(d, "SDF_MAXDATA")
       IN  IF d.type = "unused" THEN told = Nothing
           ELSE /\ Entries(told.ranges) = Tables(d)
                /\ \A p, q \in DOMAIN told.ranges : told.ranges[p] = told.ranges[q] => p = q
                /\ own # {} => told.maxima = [p \in 1 .. Len(told.maxima) |-> Maximum(d, p - 1)]
                /\ own # {} => DOMAIN told.maxima = {c + 1 : c \in own}

\* The library relies on a command or on INSN_BITS only where the driver has
\* it, whatever a probe failed of.
ProbesSafe ==
  \A s \in 0 .. Len(subdevices) - 1 :
    /\ It(s).has_cmd => driver[s].cmd
    /\ It(s).has_insn_bits => driver[s].bits
=============================================================================
