--------------------------------- MODULE Scxi ---------------------------------
(***************************************************************************)
(* scxi/scxi.c: registers of the modules of an SCXI chassis, reached by a  *)
(* serial link and two digital lines that all modules share.  A call is a  *)
(* sequence of transfers, any of which may fail and most of whose answers  *)
(* are not looked at.  A word shifted while SS is low selects a slot; one  *)
(* shifted while it is high goes to the module in that slot, as a register *)
(* address while D/A is high and as data while it is low.  A program uses  *)
(* the chassis alone, with a handle for each module.                       *)
(***************************************************************************)
EXTENDS Integers, Sequences

CONSTANTS Modules,   \* slot -> class of the module in it, 1 or 2
          Registers, \* of a module of class 2; a module of class 1 has one
          MaxBytes, MaxCalls, MaxFailures  \* bounds

Parameters ==
  /\ DOMAIN Modules \subseteq Nat \ {0} /\ (\A s \in DOMAIN Modules : Modules[s] \in {1, 2}) /\ Registers \subseteq Nat
  /\ MaxBytes \in Nat /\ MaxCalls \in Nat /\ MaxFailures \in Nat

Slots == DOMAIN Modules
NoSlot == 0
REG_PARK == -1

VARIABLES line,    \* level of the lines SS and DA
          slot,    \* the slot that is selected
          addr,    \* the register each module takes data for
          handle,  \* slot -> what its module was taken for, "closed" without one
          todo,    \* transfers of the call in progress
          call,    \* its slot, register and bytes; "none" between calls
          id,      \* scxi_identify: the answer read
          data,    \* data bytes that reached a module in this call
          uses,    \* register accesses so far
          failures, stuck  \* transfers that failed; one was to raise DA

chassis == <<line, slot, addr>>
vars == <<chassis, handle, todo, call, id, data, uses, failures, stuck>>

\* A transfer; when it fails, so many of those that follow are not made.
Transfer(do, v, skip) == [do |-> do, v |-> v, skip |-> skip]
Line(l, v) == Transfer(l, v, 0)
Shift(v) == Transfer("shift", v, 0)

\* A slip: SS stays low.
SlotSelectLow(s) == <<Line("SS", 0), Transfer("clock", 0, 0), Shift(s)>>

\* scxi_slot_select and scxi_serial_config look at no answer.
SlotSelect(s) == <<Line("SS", 0), Transfer("clock", 0, 0), Shift(s), Line("SS", 1)>>

\* What the code does for a module it took for something else than class 1.
Addressed(class) == class # 1

\* scxi_module_select.
module_select(s, class, reg) ==
  LET address == IF Addressed(class) THEN <<Shift(reg)>> ELSE << >>
  IN  SlotSelect(s) \o <<Transfer("clock", 0, Len(address) + 1)>> \o address \o <<Line("DA", 0)>>

\* scxi_module_deselect, which stops when D/A cannot be raised.
module_deselect(class) ==
  LET rest == (IF Addressed(class) THEN <<Shift(REG_PARK)>> ELSE << >>) \o SlotSelect(NoSlot)
  IN  <<Transfer("DA", 1, Len(rest))>> \o rest

NoCall == [fn |-> "none", slot |-> NoSlot, reg |-> 0, bytes |-> 0]

Init ==
  /\ line \in [SS : {0, 1}, DA : {0, 1}] /\ slot = NoSlot /\ addr = [s \in Slots |-> 0]
  /\ handle = [s \in Slots |-> "closed"] /\ todo = << >> /\ call = NoCall /\ id = "none"
  /\ data = << >> /\ uses = 0 /\ failures = 0 /\ stuck = FALSE

-----------------------------------------------------------------------------
(***************************************************************************)
(* One transfer, and what the chassis does.                                *)
(***************************************************************************)

\* A word shifted to the module in the selected slot; bytes of a read or
\* write are counted, words of its preparation are negative or registers.
ToModule(v) ==
  IF line.DA = 1
    THEN /\ addr' = IF Modules[slot] = 2 THEN [addr EXCEPT ![slot] = v] ELSE addr
         /\ UNCHANGED data
    ELSE data' = Append(data, <<slot, IF Modules[slot] = 2 THEN addr[slot] ELSE call.reg>>) /\ UNCHANGED addr

DoShift(v) ==
  IF line.SS = 0 THEN slot' = (IF v \in Slots THEN v ELSE NoSlot) /\ UNCHANGED <<line, addr, data>>
  ELSE /\ UNCHANGED <<line, slot>>
       /\ IF slot = NoSlot THEN UNCHANGED <<addr, data>> ELSE ToModule(v)

\* The id: of a module of class 2 at register 0 while D/A is high, of one of
\* class 1 while it is low; reading shifts zeroes out.
DoRead ==
  /\ id' = (IF slot = NoSlot THEN "empty"
            ELSE IF line.DA = 1 THEN (IF Modules[slot] = 2 THEN "class 2" ELSE "empty")
            ELSE IF Modules[slot] = 1 THEN "class 1" ELSE "unknown")
  /\ DoShift(0)

Do ==
  /\ todo # << >>
  /\ LET t == Head(todo)
     IN  \/ t.do \in {"SS", "DA"} /\ line' = [line EXCEPT ![t.do] = t.v] /\ UNCHANGED <<slot, addr, data, id>>
         \/ t.do = "clock" /\ UNCHANGED <<chassis, data, id>>
         \/ t.do = "read" /\ DoRead
         \/ t.do = "shift" /\ DoShift(t.v) /\ UNCHANGED id
  /\ todo' = Tail(todo)
  /\ UNCHANGED <<handle, call, uses, failures, stuck>>

\* The driver refuses the transfer.  What was to be read is then whatever the
\* byte held.
Fail ==
  /\ todo # << >> /\ failures < MaxFailures
  /\ failures' = failures + 1
  /\ stuck' = (stuck \/ (Head(todo).do = "DA" /\ Head(todo).v = 1))
  /\ todo' = SubSeq(todo, 2 + Head(todo).skip, Len(todo))
  /\ IF Head(todo).do = "read" THEN id' \in {"unknown", "empty"} ELSE UNCHANGED id
  /\ UNCHANGED <<chassis, handle, call, data, uses>>

-----------------------------------------------------------------------------
(***************************************************************************)
(* The calls.                                                              *)
(***************************************************************************)
Read == Transfer("read", 0, 0)

\* comedi_scxi_open: raise the lines, and ask the module what it is.
Open ==
  /\ call = NoCall
  /\ \E s \in Slots :
       /\ handle[s] = "closed"
       /\ call' = [NoCall EXCEPT !.fn = "open", !.slot = s]
       /\ todo' = <<Line("DA", 1), Line("SS", 1)>> \o SlotSelect(s) \o <<Transfer("clock", 0, 0), Read>>
  /\ data' = << >> /\ id' = "none"
  /\ UNCHANGED <<chassis, handle, uses, failures, stuck>>

\* scxi_identify: nobody answered with D/A high.
AskAgain ==
  /\ call.fn = "open" /\ todo = << >> /\ id = "empty"
  /\ call' = [call EXCEPT !.fn = "again"]
  /\ todo' = <<Line("DA", 0), Read, Line("DA", 1)>>
  /\ UNCHANGED <<chassis, handle, id, data, uses, failures, stuck>>

\* mod->board is 0 until the module is known, and that entry has class 2.
Identified ==
  /\ call.fn \in {"open", "again"} /\ todo = << >> /\ (call.fn = "open" => id # "empty")
  /\ call' = [call EXCEPT !.fn = "opened"]
  /\ todo' = module_deselect(2)
  /\ UNCHANGED <<chassis, handle, id, data, uses, failures, stuck>>

Opened ==
  /\ call.fn = "opened" /\ todo = << >>
  /\ handle' = [handle EXCEPT ![call.slot] = id] /\ call' = NoCall
  /\ UNCHANGED <<chassis, todo, id, data, uses, failures, stuck>>

\* The table's class of what a module was taken for.
ClassOf(s) == IF handle[s] = "class 1" THEN 1 ELSE 2

\* comedi_scxi_register_readwrite; it answers 0 whatever failed.
RegisterReadwrite ==
  /\ call = NoCall /\ uses < MaxCalls /\ uses' = uses + 1
  /\ \E s \in Slots, r \in Registers, n \in 0 .. MaxBytes :
       LET class == ClassOf(s)
           high == IF class = 1 /\ r = 0 THEN <<Line("SS", 1)>> ELSE << >>
       IN  /\ handle[s] # "closed"
           /\ call' = [fn |-> "transfer", slot |-> s, reg |-> r, bytes |-> n]
           /\ todo' = module_select(s, class, r) \o [i \in 1 .. n |-> Shift(i)] \o high
                        \o module_deselect(class)
  /\ data' = << >>
  /\ UNCHANGED <<chassis, handle, id, failures, stuck>>

Transferred ==
  /\ call.fn = "transfer" /\ todo = << >>
  /\ call' = NoCall
  /\ UNCHANGED <<chassis, handle, todo, id, data, uses, failures, stuck>>

\* comedi_scxi_close touches nothing but the handle.
Close ==
  /\ call = NoCall
  /\ \E s \in Slots : handle[s] # "closed" /\ handle' = [handle EXCEPT ![s] = "closed"]
  /\ UNCHANGED <<chassis, todo, call, id, data, uses, failures, stuck>>

Next ==
  \/ Do \/ Fail \/ Open \/ AskAgain \/ Identified \/ Opened
  \/ RegisterReadwrite \/ Transferred \/ Close

Spec == Init /\ [][Next]_vars

-----------------------------------------------------------------------------
(***************************************************************************)
(* Properties.                                                             *)
(***************************************************************************)

\* Every variable holds a value of its kind.
TypeOK ==
  /\ line \in [SS : {0, 1}, DA : {0, 1}] /\ slot \in Slots \union {NoSlot}
  /\ addr \in [Slots -> Int]
  /\ handle \in [Slots -> {"closed", "class 1", "class 2", "unknown", "empty"}]
  /\ call.fn \in {"none", "open", "again", "opened", "transfer"}
  /\ uses \in 0 .. MaxCalls /\ failures \in 0 .. MaxFailures /\ stuck \in BOOLEAN

\* Where nothing failed, a call brings its bytes to the register of the
\* module it names and nothing anywhere else, whichever modules were used
\* before, and each handle knows its module.
RightRegister ==
  failures = 0 =>
    /\ call.fn = "transfer" /\ todo = << >> =>
         data = [i \in 1 .. call.bytes |-> <<call.slot, call.reg>>]
    /\ \A s \in Slots : handle[s] \in {"closed", IF Modules[s] = 1 THEN "class 1" ELSE "class 2"}

\* One transfer that fails does no harm elsewhere, in the call it belongs to or
\* a later one, unless it was to raise D/A: data bytes reach the register
\* asked for, or the parked module asked for, or are lost.
LostNotStray ==
  failures <= 1 /\ ~stuck /\ call.fn = "transfer" =>
    \A i \in DOMAIN data : data[i][1] = call.slot /\ data[i][2] \in {call.reg, REG_PARK}

\* A handle is closed only when the lines are idle and nobody is selected, so
\* that the next program finds the chassis free: as long as nothing failed.
Released ==
  failures = 0 /\ call = NoCall /\ (\E s \in Slots : handle[s] # "closed") =>
    /\ line = [SS |-> 1, DA |-> 1] /\ slot = NoSlot
    /\ \A s \in Slots : handle[s] # "closed" /\ Modules[s] = 2 => addr[s] = REG_PARK
=============================================================================
