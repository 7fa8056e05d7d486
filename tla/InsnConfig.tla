------------------------------ MODULE InsnConfig ------------------------------
(***************************************************************************)
(* lib/insn_config_wrappers.c, the configuration of digital channels in    *)
(* lib/dio.c, and comedi_do_insn under them.  Each wrapper lays its        *)
(* arguments out as the words of one configuration instruction, and reads  *)
(* its results from the words the driver has written back.  Other          *)
(* processes configure the same device between any two ioctls.             *)
(*                                                                         *)
(* A setting has a key, <<kind, channel, index>>, and a value, which is    *)
(* the name of the instruction that made it and its last words.            *)
(***************************************************************************)
EXTENDS Integers, Sequences, FiniteSets

CONSTANTS Channels, Values,  \* channels, and arguments a program may pass
          Routes,            \* the device's routes, a sequence of pairs <<source, destination>>
          MaxSlots,          \* longest route list of a caller
          MaxCalls           \* calls of one program

Parameters ==
  /\ 0 \in Channels /\ Values \subseteq Nat \ {0} /\ Routes \in Seq(Nat \X Nat)
  /\ MaxSlots \in Nat /\ MaxCalls \in Nat

VARIABLES ioctls,       \* the newest of COMEDI_INSN, INSNLIST and TRIG there is
          set,          \* driver: the settings that are not the default
          at, o,        \* where the call is, and which call: op, ch, args, slots
          out, ret,     \* what it stored through its pointers, and answered
          applied,      \* how many instructions of this call took effect
          prev,         \* the call before, while nobody else has done anything
          others, calls \* instructions of others during this call; calls made

device == <<ioctls, set>>
call == <<at, o, out, ret, applied, prev>>
configVars == <<device, call, others, calls>>

-----------------------------------------------------------------------------
(***************************************************************************)
(* The instruction of each call: its name, the constant words, and after   *)
(* how many of the arguments these stand.                                  *)
(***************************************************************************)
W(id, after, fixed) == [id |-> id, after |-> after, fixed |-> fixed]

\* The function f, and g where f is not defined.
Over(f, g) == [x \in DOMAIN f \union DOMAIN g |-> IF x \in DOMAIN f THEN f[x] ELSE g[x]]

ResetArm ==
  [reset |-> W("RESET", 0, << >>), arm |-> W("ARM", 0, << >>), disarm |-> W("DISARM", 0, << >>)]

Gets ==
  [get_clock_source |-> W("GET_CLOCK_SRC", 0, <<0, 0>>),
   get_gate_source |-> W("GET_GATE_SRC", 1, <<0>>),
   get_routing |-> W("GET_ROUTING", 0, <<0>>),
   get_hardware_buffer_size |-> W("GET_HARDWARE_BUFFER_SIZE", 1, <<0>>)]

Sets ==
  [set_counter_mode |-> W("SET_COUNTER_MODE", 0, << >>),
   set_clock_source |-> W("SET_CLOCK_SRC", 0, << >>),
   set_filter |-> W("FILTER", 0, << >>),
   set_gate_source |-> W("SET_GATE_SRC", 0, << >>),
   set_other_source |-> W("SET_OTHER_SRC", 0, << >>),
   set_routing |-> W("SET_ROUTING", 0, << >>)]

DigitalTriggers ==
  [digital_trigger_disable |-> W("DIGITAL_TRIG", 1, <<"DISABLE", 0, 0, 0>>),
   digital_trigger_enable_edges |-> W("DIGITAL_TRIG", 1, <<"ENABLE_EDGES">>),
   digital_trigger_enable_levels |-> W("DIGITAL_TRIG", 1, <<"ENABLE_LEVELS">>)]

RouteCalls ==
  [test_route |-> W("TEST_ROUTE", 0, << >>), connect_route |-> W("CONNECT_ROUTE", 0, << >>),
   disconnect_route |-> W("DISCONNECT_ROUTE", 0, << >>), get_routes |-> W("GET_ROUTES", 0, <<0>>)]

Constraints == [get_cmd_timing_constraints |-> W("GET_CMD_TIMING_CONSTRAINTS", 0, << >>)]

\* lib/dio.c; the direction is the instruction.
Directions ==
  [dio_input |-> W("DIO_INPUT", 0, << >>), dio_output |-> W("DIO_OUTPUT", 0, << >>),
   dio_get_config |-> W("DIO_QUERY", 0, <<0>>)]

\* comedi_internal_trigger and comedi_data_write, which are not INSN_CONFIG,
\* and what demo/pwm.c passes to comedi_do_insn itself.
Plainly ==
  [internal_trigger |-> W("INTTRIG", 0, << >>), data_write |-> W("WRITE", 0, << >>),
   set_pwm_period |-> W("PWM_SET_PERIOD", 0, << >>), get_pwm_period |-> W("PWM_GET_PERIOD", 0, <<0>>),
   get_pwm_status |-> W("GET_PWM_STATUS", 0, <<0>>)]

Calls ==
  Over(Over(Over(ResetArm, Gets), Over(Sets, DigitalTriggers)),
       Over(Over(RouteCalls, Constraints), Over(Directions, Plainly)))

\* A slip: the argument that tells two settings of a kind apart goes last.
DataIndexLast(c) ==
  LET w == Calls[c.op]
  IN  IF c.op = "set_gate_source" THEN <<w.id, c.args[2], c.args[1]>>
      ELSE <<w.id>> \o SubSeq(c.args, 1, w.after) \o w.fixed \o SubSeq(c.args, w.after + 1, Len(c.args))

\* The data of the instruction; comedi_get_routes makes room for n routes
\* where there is a list.
Data(c) ==
  LET w == Calls[c.op]
  IN  <<w.id>> \o SubSeq(c.args, 1, w.after) \o w.fixed \o SubSeq(c.args, w.after + 1, Len(c.args))
        \o [k \in 1 .. (IF c.list THEN 2 * c.n ELSE 0) |-> 0]

\* The first and the last word of the data that a call stores through its pointers.
Stores ==
  [get_clock_source |-> <<2, 3>>, get_gate_source |-> <<3, 3>>, get_routing |-> <<2, 2>>,
   dio_get_config |-> <<2, 2>>, get_cmd_timing_constraints |-> <<2, 3>>]

\* Which word it answers instead of 0.
Answers == [get_hardware_buffer_size |-> 3, test_route |-> 1, get_routes |-> 2]

-----------------------------------------------------------------------------
(***************************************************************************)
(* The driver.                                                             *)
(***************************************************************************)

\* What an instruction sets or gets, and the word where the value begins; the
\* words before it are the index.
K(kind, value) == [kind |-> kind, value |-> value]
Layout ==
  [ARM |-> K("armed", 2), DISARM |-> K("armed", 2), SET_COUNTER_MODE |-> K("mode", 2),
   SET_CLOCK_SRC |-> K("clock", 2), GET_CLOCK_SRC |-> K("clock", 2), FILTER |-> K("filter", 2),
   SET_GATE_SRC |-> K("gate", 3), GET_GATE_SRC |-> K("gate", 3), SET_OTHER_SRC |-> K("other", 3),
   SET_ROUTING |-> K("routing", 2), GET_ROUTING |-> K("routing", 2),
   GET_HARDWARE_BUFFER_SIZE |-> K("buffer", 3), DIGITAL_TRIG |-> K("trigger", 3),
   TEST_ROUTE |-> K("route", 4), CONNECT_ROUTE |-> K("route", 4), DISCONNECT_ROUTE |-> K("route", 4),
   DIO_INPUT |-> K("direction", 2), DIO_OUTPUT |-> K("direction", 2), DIO_QUERY |-> K("direction", 2),
   INTTRIG |-> K("triggered", 2), WRITE |-> K("register", 2),
   PWM_SET_PERIOD |-> K("period", 2), PWM_GET_PERIOD |-> K("period", 2), GET_PWM_STATUS |-> K("armed", 2)]

Gettable == {"PWM_GET_PERIOD", "GET_PWM_STATUS", "GET_CLOCK_SRC", "GET_GATE_SRC", "GET_ROUTING", "GET_HARDWARE_BUFFER_SIZE", "TEST_ROUTE", "DIO_QUERY",
             "GET_ROUTES", "GET_CMD_TIMING_CONSTRAINTS"}

Key(ch, data) ==
  LET l == Layout[data[1]] IN <<l.kind, ch, SubSeq(data, 2, l.value - 1)>>
Value(data) == <<data[1]>> \o SubSeq(data, Layout[data[1]].value, Len(data))

\* A setting nobody has made.
Default(k) ==
  IF k[1] = "clock" THEN <<"NONE", 0, 0>>
  ELSE IF k[1] = "buffer" THEN <<"NONE", 100 + k[3][1]>>
  ELSE IF k[1] \in {"armed", "route"} THEN <<"NONE">>
  ELSE <<"NONE", 0>>

Setting(s, k) == IF k \in DOMAIN s THEN s[k] ELSE Default(k)

\* Instruction data for channel ch takes effect on the settings s; reset
\* forgets all there are for the channel.
Effect(s, ch, data) ==
  IF data[1] = "RESET" THEN [k \in {j \in DOMAIN s : j[2] # ch} |-> s[k]]
  ELSE IF data[1] \in Gettable THEN s
  ELSE [k \in DOMAIN s \union {Key(ch, data)} |-> IF k = Key(ch, data) THEN Value(data) ELSE s[k]]

\* GET_ROUTES: as many routes as there is room for, or only their number where
\* there is none.
RoutesInto(data) ==
  LET room == (Len(data) - 2) \div 2
      copied == IF room < Len(Routes) THEN room ELSE Len(Routes)
  IN  [w \in 1 .. Len(data) |->
         IF w = 2 THEN (IF room = 0 THEN Len(Routes) ELSE copied)
         ELSE IF w \in 3 .. 2 + 2 * copied THEN Routes[(w - 1) \div 2][2 - (w % 2)] ELSE data[w]]

\* The words the driver writes back.  A direction is read back as the
\* instruction that set it, the shortest periods of a command depend on its
\* sources and on its number of channels.
Reply(s, ch, data) ==
  IF data[1] = "GET_CMD_TIMING_CONSTRAINTS"
    THEN [data EXCEPT ![2] = 10 * @ + data[4], ![3] = 10 * @ + data[4]]
  ELSE IF data[1] = "GET_ROUTES" THEN RoutesInto(data)
  ELSE IF data[1] = "TEST_ROUTE"
    THEN [data EXCEPT ![1] = IF Setting(s, Key(ch, data))[1] = "CONNECT_ROUTE" THEN 1 ELSE 0]
  ELSE IF data[1] = "DIO_QUERY" THEN [data EXCEPT ![2] = Setting(s, Key(ch, data))[1]]
  ELSE SubSeq(data, 1, Layout[data[1]].value - 1) \o Tail(Setting(s, Key(ch, data)))

\* Without instructions only what has a form of COMEDI_TRIG works.
Works(c) == ioctls # "trig" \/ c.op \in {"dio_input", "dio_output", "data_write"}

-----------------------------------------------------------------------------
(***************************************************************************)
(* Calls.                                                                  *)
(***************************************************************************)
Op(op, ch, args) == [op |-> op, ch |-> ch, args |-> args, list |-> FALSE, n |-> 0]
GetRoutes(list, n) == [op |-> "get_routes", ch |-> 0, args |-> << >>, list |-> list, n |-> n]
NoCall == Op("none", 0, << >>)
Nobody == [o |-> NoCall, ret |-> 0]

ConfigInit(s) ==
  /\ ioctls \in {"insn", "insnlist", "trig"} /\ set = s
  /\ at = "idle" /\ o = NoCall /\ out = << >> /\ ret = 0 /\ applied = 0 /\ prev = Nobody
  /\ others = 0 /\ calls = 0

Call(c) ==
  /\ at = "idle"
  /\ at' = "in" /\ o' = c /\ out' = << >> /\ ret' = 0 /\ applied' = 0 /\ others' = 0
  /\ calls' = calls + 1 /\ UNCHANGED <<device, prev>>

\* comedi_do_insn, by COMEDI_INSN or as a list of one, succeeds or fails.
Inside == at \in {"in", "again"}
Instruct == Works(o) /\ set' = Effect(set, o.ch, Data(o)) /\ applied' = applied + 1
Refused == UNCHANGED <<set, applied>>

\* The routes a caller's list receives: min(n, answer) of them, whether
\* there is a list or not.
RoutesStored(data) ==
  [k \in 1 .. (IF o.n < data[2] THEN o.n ELSE data[2]) |->
     IF 2 + 2 * k <= Len(data) THEN <<data[1 + 2 * k], data[2 + 2 * k]>> ELSE << >>]

Stored(data) ==
  IF o.op = "get_routes" THEN RoutesStored(data)
  ELSE IF o.op \in DOMAIN Stores THEN SubSeq(data, Stores[o.op][1], Stores[o.op][2])
  ELSE << >>

\* A wrapper has its answer.
Answered ==
  /\ at = "in" /\ o.op # "set_other_source" /\ Instruct
  /\ LET data == Reply(set, o.ch, Data(o))
     IN  /\ out' = Stored(data)
         /\ ret' = (IF o.op \in DOMAIN Answers THEN data[Answers[o.op]] ELSE 0)
  /\ at' = "done" /\ UNCHANGED <<ioctls, o, prev, others, calls>>

\* comedi_set_other_source issues its instruction, and issues it again.
OtherSource ==
  /\ Inside /\ o.op = "set_other_source" /\ Instruct
  /\ at' = (IF at = "in" THEN "again" ELSE "done")
  /\ UNCHANGED <<ioctls, o, out, ret, prev, others, calls>>

Failed ==
  /\ Inside /\ Refused /\ at' = "done" /\ ret' = -1
  /\ UNCHANGED <<ioctls, o, out, prev, others, calls>>

Return ==
  /\ at = "done"
  /\ prev' = (IF others = 0 THEN [o |-> o, ret |-> ret] ELSE Nobody)
  /\ at' = "idle" /\ o' = NoCall /\ out' = << >> /\ ret' = 0 /\ applied' = 0
  /\ UNCHANGED <<device, others, calls>>

\* The calls of an arbitrary program.
Args(k) == [1 .. k -> Values]
Ops ==
  UNION {{Op(op, ch, a) : op \in {"reset", "disarm", "get_clock_source", "get_routing", "dio_input", "dio_output", "dio_get_config"},
                          ch \in Channels, a \in {<< >>}},
         {Op(op, ch, a) : op \in {"arm", "set_counter_mode", "set_filter", "set_routing", "get_gate_source"},
                          ch \in Channels, a \in Args(1)},
         {Op(op, ch, a) : op \in {"set_clock_source", "set_gate_source", "set_other_source"}, ch \in Channels, a \in Args(2)},
         {Op(op, 0, a) : op \in {"get_hardware_buffer_size", "digital_trigger_disable", "internal_trigger"}, a \in Args(1)},
         {Op(op, 0, a) : op \in {"digital_trigger_enable_edges", "digital_trigger_enable_levels"}, a \in Args(4)},
         {Op(op, 0, a) : op \in {"test_route", "connect_route", "disconnect_route"}, a \in Args(2)},
         {Op("get_cmd_timing_constraints", 0, a \o <<Len(l)>> \o l) : a \in Args(2), l \in {<< >>, <<0>>, <<0, 1>>}},
         {GetRoutes(l, n) : l \in BOOLEAN, n \in 0 .. MaxSlots}}

\* Another process resets the channel or makes a call of the same kind.
OtherSets ==
  /\ Inside /\ others = 0 /\ others' = 1 /\ prev' = Nobody
  /\ \E c \in Ops : c.ch = o.ch /\ c.op \in {"reset", o.op} /\ set' = Effect(set, c.ch, Data(c))
  /\ UNCHANGED <<ioctls, at, o, out, ret, applied, calls>>

Library == Answered \/ OtherSource \/ Failed \/ Return
ConfigNext ==
  \/ calls < MaxCalls /\ \E c \in Ops : Call(c)
  \/ Library \/ OtherSets

ConfigSpec == ConfigInit(<< >>) /\ [][ConfigNext]_configVars

-----------------------------------------------------------------------------
(***************************************************************************)
(* Properties.                                                             *)
(***************************************************************************)

\* Every variable holds a value of its kind; what is set is a value of its key.
ConfigTypeOK ==
  /\ ioctls \in {"insn", "insnlist", "trig"} /\ at \in {"idle", "in", "again", "done"}
  /\ applied \in 0 .. 2 /\ others \in 0 .. 1 /\ ret >= -1
  /\ \A k \in DOMAIN set : set[k] # << >> /\ k[2] \in Channels

\* What a call answers tells whether it took effect.  Only
\* comedi_set_other_source may have changed the source and still fail.
AnswerTellsEffect ==
  at = "done" =>
    IF ret = -1 THEN applied = 0 \/ (applied = 1 /\ o.op = "set_other_source")
    ELSE applied = IF o.op = "set_other_source" THEN 2 ELSE 1

\* A get that follows a successful set gives back what was set, in the
\* order of the arguments, if nobody came between.
Pairs ==
  [get_clock_source |-> "set_clock_source", get_gate_source |-> "set_gate_source",
   get_routing |-> "set_routing"]
GetsBack ==
  at = "done" /\ ret = 0 /\ others = 0 /\ prev.ret = 0 /\ o.op \in DOMAIN Pairs
    /\ prev.o.op = Pairs[o.op] /\ prev.o.ch = o.ch /\ o.args = SubSeq(prev.o.args, 1, Len(o.args))
  => out = SubSeq(prev.o.args, Len(o.args) + 1, Len(prev.o.args))

\* A list of routes receives the first of the device's routes, as many as it
\* has room for, and the answer is their number; with no room for any the
\* answer is how many there are.
RoutesListed ==
  at = "done" /\ o.op = "get_routes" /\ o.list /\ ret >= 0 =>
    /\ out = SubSeq(Routes, 1, Len(out))
    /\ IF o.n = 0 THEN ret = Len(Routes) ELSE Len(out) = ret /\ (ret = o.n \/ ret = Len(Routes))

\* extensions_funcref.txt:409-411 of comedi_get_routes: "routelist may be
\* specified as NULL, in which case only the number of routes will be
\* returned": then nothing is stored.
NullListUntouched == at = "done" /\ o.op = "get_routes" /\ ~o.list => out = << >>
=============================================================================
