----------------------------- MODULE ComediHandle -----------------------------
(***************************************************************************)
(* The life of a comedi_t: comedi_open (lib/comedi.c), the description of  *)
(* the subdevices it reads from the driver (lib/filler.c), the command     *)
(* mask the first comedi_get_cmd_src_mask hangs under a subdevice          *)
(* (lib/cmd.c), and comedi_close.  Every allocation and every ioctl may    *)
(* fail, so a step here is one of those calls with its success and its     *)
(* failure; what the driver answers to COMEDI_SUBDINFO is any member of    *)
(* Shapes.  The heap is the set of objects allocated and not yet freed; a  *)
(* pointer field is non-NULL exactly while its object is in the heap.      *)
(***************************************************************************)
EXTENDS Integers

CONSTANTS NSubd,   \* it->n_subdevices
          Shapes   \* what COMEDI_SUBDINFO may say of one subdevice

ListKinds == {"SDF_FLAGS", "SDF_MAXDATA", "SDF_RANGETYPE"}

ASSUME NSubdAssumption == NSubd \in Nat
ASSUME ShapesAssumption ==
  \A sh \in Shapes :
     /\ sh.unused \in BOOLEAN
     /\ sh.flags \subseteq ListKinds
     /\ sh.n_chan \in Nat

VARIABLES pc,       \* where comedi_open is; "closed" and "ready" between calls
          cur,      \* i, the subdevice being filled
          chan,     \* j, the channel whose range is being read
          info,     \* s[], the answer to COMEDI_SUBDINFO
          heap,     \* live objects of the current handle
          orphans   \* live objects no pointer reaches any more

vars == <<pc, cur, chan, info, heap, orphans>>

Subd == 0 .. NSubd - 1

\* One object: what it is, the subdevice and the channel it belongs to.
Obj(kind, i, j) == <<kind, i, j>>
Own(kind) == Obj(kind, 0, 0)

It == Own("it")                   \* malloc(sizeof(comedi_t))
Fd == Own("fd")                   \* the open file
S  == Own("s")                    \* the comedi_subdinfo array
Subdevices == Own("subdevices")   \* it->subdevices
Kr == Own("kr")                   \* the comedi_krange array of one range
List(kind, i) == Obj(kind, i, 0)  \* flags_list, maxdata_list, range_type_list
RangeinfoList(i) == Obj("rangeinfo_list", i, 0)
Rangeinfo(i, j) == Obj("rangeinfo", i, j)
CmdMask(i) == Obj("cmd_mask", i, 0)

Kinds == {"it", "fd", "s", "subdevices", "kr", "rangeinfo_list", "rangeinfo",
          "cmd_mask"} \union ListKinds

PCs == {"closed", "open", "devinfo", "calloc_s", "subdinfo", "calloc_r",
        "next"} \union ListKinds \union
       {"chaninfo", "rangeinfo_list", "kr", "range", "ioctl_range", "ready"}

PerChannel(i) == "SDF_RANGETYPE" \in info[i].flags

\* How many comedi_range tables a used subdevice has.
NRanges(i) == IF PerChannel(i) THEN info[i].n_chan ELSE 1

-----------------------------------------------------------------------------
(***************************************************************************)
(* The cleanup paths, as the sets of objects they free.                    *)
(***************************************************************************)

\* The cleanup label of _comedi_get_subdevices; it frees the elements of
\* rangeinfo_list, or rangeinfo when there is no list.
FreedByGetSubdevices ==
  {o \in heap :
     \/ o \in {S, Subdevices}
     \/ o[1] \in ListKinds
     \/ /\ o[1] = "rangeinfo"
        /\ IF RangeinfoList(o[2]) \in heap
             THEN o[3] < info[o[2]].n_chan
             ELSE o[3] = 0}

\* The cleanup label of _comedi_open: the file, when it was opened, and it.
FreedByOpen == {It, Fd}

\* A slip: comedi_close written before cmd_mask existed.
FreedByCloseForgetsMask ==
  {o \in heap :
     \/ o \in {It, Fd, Subdevices}
     \/ /\ o[1] \in ListKinds \union {"rangeinfo_list", "rangeinfo"}
        /\ ~info[o[2]].unused}

\* comedi_close goes by the flags, and skips an unused subdevice.
FreedByClose ==
  {o \in heap :
     \/ o \in {It, Fd, Subdevices}
     \/ /\ o[1] \in ListKinds \union {"rangeinfo_list", "rangeinfo", "cmd_mask"}
        /\ ~info[o[2]].unused
        /\ o[1] \in ListKinds => o[1] \in info[o[2]].flags
        /\ o[1] = "rangeinfo_list" => PerChannel(o[2])
        /\ o[1] = "rangeinfo" => o[3] < NRanges(o[2])}

-----------------------------------------------------------------------------
Init ==
  /\ pc = "closed" /\ cur = 0 /\ chan = 0
  /\ info \in [Subd -> Shapes]
  /\ heap = {} /\ orphans = {}

Goto(l) == pc' = l /\ UNCHANGED <<cur, chan, info, orphans>>
Gets(o, l) == heap' = heap \union {o} /\ Goto(l)

\* The end of the handle: freed objects go, what remains is unreachable.
Ends(freed) ==
  /\ heap' = {}
  /\ orphans' = orphans \union (heap \ freed)
  /\ pc' = "closed" /\ cur' = 0 /\ chan' = 0
  /\ UNCHANGED info

\* A failure inside _comedi_get_subdevices after `gone` was freed on the spot.
Fails(gone) == Ends(FreedByGetSubdevices \union FreedByOpen \union gone)

\* comedi_open: malloc; a failure has nothing to clean up.
Malloc == pc = "closed" /\ Gets(It, "open")

OpenFile == pc = "open" /\ (Gets(Fd, "devinfo") \/ Ends(FreedByOpen))

Devinfo ==
  /\ pc = "devinfo"
  /\ \/ Goto("calloc_s") /\ UNCHANGED heap
     \/ Ends(FreedByOpen)

CallocS == pc = "calloc_s" /\ (Gets(S, "subdinfo") \/ Fails({}))

Subdinfo ==
  /\ pc = "subdinfo"
  /\ \/ /\ info' \in [Subd -> Shapes]
        /\ pc' = "calloc_r"
        /\ UNCHANGED <<cur, chan, heap, orphans>>
     \/ Fails({})

CallocR == pc = "calloc_r" /\ (Gets(Subdevices, "next") \/ Fails({}))

\* The head of the loop over subdevices.
Used ==
  /\ pc = "next" /\ cur < NSubd /\ ~info[cur].unused
  /\ Goto("SDF_FLAGS") /\ UNCHANGED heap

\* A slip: the for loop's i++ comes on top of an i++ before the continue.
SkipTwice ==
  /\ pc = "next" /\ cur < NSubd /\ info[cur].unused
  /\ cur' = cur + 2 /\ UNCHANGED <<pc, chan, info, heap, orphans>>

Skip ==
  /\ pc = "next" /\ cur < NSubd /\ info[cur].unused
  /\ cur' = cur + 1 /\ UNCHANGED <<pc, chan, info, heap, orphans>>

Finish ==
  /\ pc = "next" /\ cur >= NSubd
  /\ heap' = heap \ {S} /\ Goto("ready")

AfterList ==
  [SDF_FLAGS |-> "SDF_MAXDATA", SDF_MAXDATA |-> "SDF_RANGETYPE", SDF_RANGETYPE |-> "chaninfo"]

\* One of the three per-channel lists, wanted only when its flag is set.
CallocList ==
  /\ pc \in ListKinds
  /\ IF pc \in info[cur].flags
       THEN Gets(List(pc, cur), AfterList[pc]) \/ Fails({})
       ELSE Goto(AfterList[pc]) /\ UNCHANGED heap

Chaninfo ==
  /\ pc = "chaninfo"
  /\ \/ Goto(IF PerChannel(cur) THEN "rangeinfo_list" ELSE "kr") /\ UNCHANGED heap
     \/ Fails({})

CallocRangeinfoList ==
  pc = "rangeinfo_list" /\ (Gets(RangeinfoList(cur), "kr") \/ Fails({}))

\* _comedi_get_rangeinfo: two tables and an ioctl; each failure frees the
\* tables it has, then the caller goes to its cleanup.
CallocKr ==
  /\ pc = "kr" /\ chan < NRanges(cur)
  /\ Gets(Kr, "range") \/ Fails({})

CallocRange == pc = "range" /\ (Gets(Rangeinfo(cur, chan), "ioctl_range") \/ Fails({Kr}))

IoctlRange ==
  /\ pc = "ioctl_range"
  /\ \/ /\ heap' = heap \ {Kr}
        /\ pc' = "kr" /\ chan' = chan + 1
        /\ UNCHANGED <<cur, info, orphans>>
     \/ Fails({Kr, Rangeinfo(cur, chan)})

\* A slip: j is not set back to 0 for the next subdevice.
RangesDoneKeepsChan ==
  /\ pc = "kr" /\ chan >= NRanges(cur)
  /\ pc' = "next" /\ cur' = cur + 1
  /\ UNCHANGED <<chan, info, heap, orphans>>

\* A slip: a while loop that forgets to step to the next subdevice.
RangesDoneSameSubdevice ==
  /\ pc = "kr" /\ chan >= NRanges(cur)
  /\ pc' = "next" /\ chan' = 0
  /\ UNCHANGED <<cur, info, heap, orphans>>

RangesDone ==
  /\ pc = "kr" /\ chan >= NRanges(cur)
  /\ pc' = "next" /\ cur' = cur + 1 /\ chan' = 0
  /\ UNCHANGED <<info, heap, orphans>>

\* The allocation comedi_get_cmd_src_mask makes once per subdevice; the
\* guard on the subdevice is comedi_valid_subd, which does not look at its
\* type.
GetCmdSrcMask(i) ==
  /\ pc = "ready" /\ CmdMask(i) \notin heap
  /\ Gets(CmdMask(i), "ready")

Close == pc = "ready" /\ Ends(FreedByClose)

OpenStep ==
  \/ OpenFile \/ Devinfo \/ CallocS \/ Subdinfo \/ CallocR
  \/ Used \/ Skip \/ Finish
  \/ CallocList \/ Chaninfo \/ CallocRangeinfoList
  \/ CallocKr \/ CallocRange \/ IoctlRange \/ RangesDone

Next ==
  \/ Malloc
  \/ OpenStep
  \/ \E i \in Subd : GetCmdSrcMask(i)
  \/ Close

Spec == Init /\ [][Next]_vars

\* comedi_open runs straight through once it is called.
FairSpec == Spec /\ WF_vars(OpenStep)
-----------------------------------------------------------------------------
(***************************************************************************)
(* Properties.                                                             *)
(***************************************************************************)

\* Every variable holds a value of its kind.
TypeOK ==
  /\ pc \in PCs
  /\ cur \in 0 .. NSubd /\ chan \in Nat
  /\ info \in [Subd -> Shapes]
  /\ heap \subseteq Kinds \X Nat \X Nat
  /\ orphans \subseteq Kinds \X Nat \X Nat

Ranging == {"kr", "range", "ioctl_range"}
Before == {"closed", "open", "devinfo", "calloc_s", "subdinfo", "calloc_r"}
Body == ListKinds \union {"chaninfo", "rangeinfo_list"} \union Ranging

\* The loop body has gone beyond the list k of the subdevice it is at.
Passed(k) ==
  \/ pc \in {"chaninfo", "rangeinfo_list"} \union Ranging
  \/ pc = "SDF_RANGETYPE" /\ k # "SDF_RANGETYPE"
  \/ pc = "SDF_MAXDATA" /\ k = "SDF_FLAGS"

ListDue(k, i) ==
  ~info[i].unused /\ k \in info[i].flags /\ (i < cur \/ (i = cur /\ Passed(k)))

RangeinfoListDue(i) ==
  ~info[i].unused /\ PerChannel(i) /\ (i < cur \/ (i = cur /\ pc \in Ranging))

RangeinfoDue(i, j) ==
  /\ ~info[i].unused /\ j < NRanges(i)
  /\ \/ i < cur
     \/ i = cur /\ pc \in Ranging /\ (j < chan \/ (j = chan /\ pc = "ioctl_range"))

\* The arrays the filler keeps for its own use are live exactly while it runs.
ScratchDue(o) ==
  \/ o = It /\ pc # "closed"
  \/ o = Fd /\ pc \notin {"closed", "open"}
  \/ o = S /\ pc \in {"subdinfo", "calloc_r", "next"} \union Body
  \/ o = Subdevices /\ pc \notin Before
  \/ o = Kr /\ pc \in {"range", "ioctl_range"}

\* Nothing is live that the code at this point has no use for.
NoneKept ==
  \A o \in heap :
     \/ ScratchDue(o)
     \/ /\ o[2] \in Subd
        /\ \/ o[3] = 0 /\ o[1] \in ListKinds /\ ListDue(o[1], o[2])
           \/ o[3] = 0 /\ o[1] = "rangeinfo_list" /\ RangeinfoListDue(o[2])
           \/ o[1] = "rangeinfo" /\ RangeinfoDue(o[2], o[3])
           \/ o[3] = 0 /\ o[1] = "cmd_mask" /\ pc = "ready"

\* Everything the code at this point may dereference is live.
ScratchThere == \A o \in {It, Fd, S, Subdevices, Kr} : ScratchDue(o) => o \in heap

ListsThere == \A i \in Subd : \A k \in ListKinds : ListDue(k, i) => List(k, i) \in heap

RangeinfoListsThere ==
  \A i \in Subd : RangeinfoListDue(i) => RangeinfoList(i) \in heap

RangesThere ==
  \A i \in Subd : \A j \in 0 .. NRanges(i) - 1 :
     RangeinfoDue(i, j) => Rangeinfo(i, j) \in heap

NoneMissing == ScratchThere /\ ListsThere /\ RangeinfoListsThere /\ RangesThere

\* From comedi_open to comedi_close the live objects are exactly those the
\* code has reached: nothing missing that comedi_close, comedi_get_range or
\* comedi_get_maxdata would dereference, nothing kept that no cleanup finds.
HeapIsDue == NoneKept /\ NoneMissing

\* The only objects ever lost are the rangeinfo_list array of a subdevice
\* when comedi_open fails (filler.c:183-187 frees its elements only), and
\* the command mask of an unused subdevice, which comedi_close skips
\* (comedi.c:104).  No failing step loses anything else.
LossesAreKnown ==
  [][\A o \in orphans' \ orphans :
       \/ o[1] = "rangeinfo_list" /\ pc # "ready"
       \/ o[1] = "cmd_mask" /\ pc = "ready" /\ info[o[2]].unused]_vars

\* What the comment at comedi.c:81-84 promises: when comedi_open fails,
\* _comedi_get_subdevices has cleaned up all it had allocated.
FailedOpenFreesAll == [][pc # "ready" => orphans' = orphans]_vars

\* A call of comedi_open ends, with a handle or with NULL, whatever the
\* driver describes: both loops of the filler terminate.
OpenReturns == (pc \notin {"closed", "ready"}) ~> (pc \in {"closed", "ready"})
=============================================================================
