------------------------------- MODULE MCCalls -------------------------------
(***************************************************************************)
(* The calls that configure a device and drive its digital lines:          *)
(* InsnConfig with the programs of CounterDemos, DioBitfield and           *)
(* StreamSubdevice; and what is built on them, Scxi and BitLink.  A        *)
(* behavior runs one.  They share nothing but the device.                  *)
(***************************************************************************)
EXTENDS Integers, Sequences

CONSTANTS Channels, Values, Routes, MaxSlots, MaxCalls, Periods, UpTimes, ClockPeriod, UIntMod,
          Width, NChan, Bases, Subdevices, Threads, NSubd, Streams,
          Modules, Registers, MaxBytes, MaxFailures, Message, Row, MaxPauses, BufSize

VARIABLES by,
          ioctls, set, at, o, out, ret, applied, prev, others, calls, prog, period, up, step, status,
          subd, latch, pin, pc, base, mask, bits, i, bit, asked, before, shown, disturbed,
          current, devinfo, side, want,
          line, slot, addr, handle, todo, call, id, data, uses, failures, stuck,
          next, insn, lines, failed, fifo, buf, c, printed, breaks, pauses

configOnly == <<ioctls, set, at, o, out, applied, prev, others, calls, prog, period, up, step, status>>
dioOnly == <<subd, latch, pin, base, mask, bits, i, bit, asked, before, shown, disturbed>>
streamOnly == <<current, devinfo, side, want>>
scxiOnly == <<line, slot, addr, handle, todo, call, id, data, uses, failures, stuck>>
linkOnly == <<next, insn, lines, failed, fifo, buf, c, printed, breaks, pauses>>
builtOnly == <<scxiOnly, linkOnly>>
callsVars == <<by, ret, pc, configOnly, dioOnly, streamOnly, builtOnly>>

C == INSTANCE CounterDemos
I == INSTANCE InsnConfig WITH Channels <- {0, 1}
D == INSTANCE DioBitfield
S == INSTANCE StreamSubdevice
X == INSTANCE Scxi
L == INSTANCE BitLink

ASSUME CallsAssumption ==
  /\ C!Parameters /\ C!DemoParameters /\ I!Parameters /\ D!Parameters /\ S!Parameters
  /\ X!Parameters /\ L!Parameters

NoDemo == prog = "none" /\ period = 0 /\ up = 0 /\ step = 0 /\ status = "ok"
ConfigIdle ==
  /\ ioctls = "insn" /\ set = << >> /\ at = "idle" /\ o = C!NoCall /\ out = << >> /\ applied = 0
  /\ prev = C!Nobody /\ others = 0 /\ calls = 0 /\ NoDemo
DioIdle ==
  /\ subd = (CHOOSE s \in Subdevices : TRUE) /\ latch = {} /\ pin = {} /\ base = 0 /\ mask = {} /\ bits = {}
  /\ i = 0 /\ bit = FALSE /\ asked = {} /\ before = {} /\ shown = [k \in 0 .. NChan - 1 |-> BOOLEAN] /\ disturbed = TRUE
StreamIdle ==
  /\ current = [d \in {"read", "write"} |-> -1] /\ devinfo = current
  /\ side = [t \in Threads |-> "read"] /\ want = [t \in Threads |-> 0]
ScxiIdle ==
  /\ line = [SS |-> 1, DA |-> 1] /\ slot = X!NoSlot /\ addr = [m \in DOMAIN Modules |-> 0]
  /\ handle = [m \in DOMAIN Modules |-> "closed"] /\ todo = << >> /\ call = X!NoCall /\ id = "none"
  /\ data = << >> /\ uses = 0 /\ failures = 0 /\ stuck = FALSE
CallsIdle == ConfigIdle /\ DioIdle /\ StreamIdle /\ pc = "idle" /\ ret = 0

CallsInit ==
  \/ /\ ScxiIdle /\ L!Init
     /\ \/ by = "config" /\ I!ConfigInit(<< >>) /\ NoDemo /\ DioIdle /\ StreamIdle /\ pc = "idle"
        \/ by = "demo" /\ C!DemoInit /\ DioIdle /\ StreamIdle /\ pc = "idle"
        \/ by = "dio" /\ D!Init /\ ConfigIdle /\ StreamIdle
        \/ by = "stream" /\ S!Init /\ ConfigIdle /\ DioIdle
  \/ by = "scxi" /\ X!Init /\ L!Init /\ CallsIdle
  \/ by = "link" /\ L!Init /\ ScxiIdle /\ CallsIdle

Configures == by = "config" /\ UNCHANGED <<by, pc, prog, period, up, step, status, dioOnly, streamOnly, builtOnly>>
Demonstrates == by = "demo" /\ UNCHANGED <<by, pc, dioOnly, streamOnly, builtOnly>>
Bitfields == by = "dio" /\ UNCHANGED <<by, configOnly, streamOnly, builtOnly>>
Chooses == by = "stream" /\ UNCHANGED <<by, configOnly, dioOnly, builtOnly>>
AccessesModules == by = "scxi" /\ UNCHANGED <<by, ret, pc, configOnly, dioOnly, streamOnly, linkOnly>>
Transmits == by = "link" /\ UNCHANGED <<by, ret, pc, configOnly, dioOnly, streamOnly, scxiOnly>>

CallsNext ==
  \/ Configures /\ I!ConfigNext
  \/ Demonstrates /\ C!DemoNext
  \/ Bitfields /\ D!Next
  \/ Chooses /\ S!Next
  \/ AccessesModules /\ X!Next
  \/ Transmits /\ L!Next

CallsSpec == CallsInit /\ [][CallsNext]_callsVars

-----------------------------------------------------------------------------
\* Three routes from two sources.
MCRoutes == <<<<1, 2>>, <<2, 1>>, <<2, 2>>>>

\* Digital inputs, outputs and a mixture, with and without INSN_BITS and
\* COMEDI_INSN.
Kind(byBits, byInsn, type, outputs) ==
  [has_insn_bits |-> byBits, has_insnlist |-> byInsn, type |-> type, outputs |-> outputs]
MCSubdevices ==
  {Kind(TRUE, TRUE, "DIO", {0, 1}), Kind(FALSE, TRUE, "DI", {}),
   Kind(FALSE, TRUE, "DO", 0 .. 2), Kind(FALSE, FALSE, "DIO", {0, 1})}

\* Of five subdevices three stream in, two out, one of them both ways, and
\* one not at all.
MCStreams == [read |-> {0, 1, 2}, write |-> {2, 3}]

\* A module of class 1 and two of class 2; a byte to send.
MCModules == <<1, 2, 2>>
MCMessage == <<1, 0, 0, 1, 0, 1, 1, 0>>

\* The properties of the modules, where they run; each part is stated in full
\* in its module.  Every variable holds a value of its kind.
CallsTypeOK ==
  /\ by \in {"config", "demo", "dio", "stream", "scxi", "link"}
  /\ by = "config" => I!ConfigTypeOK
  /\ by = "demo" => C!ConfigTypeOK /\ C!DemoTypeOK
  /\ by = "dio" => D!TypeOK
  /\ by = "stream" => S!TypeOK
  /\ by = "scxi" => X!TypeOK
  /\ by = "link" => L!TypeOK

\* InsnConfig: what a call answers tells what it did; what was set is got back;
\* the routes listed are the driver's.
AnswersTrue ==
  /\ by \in {"config", "demo"} => C!AnswerTellsEffect
  /\ by = "config" => I!GetsBack /\ I!RoutesListed

\* CounterDemos: a counter that is armed was configured as the program means
\* it, in all its settings, with nothing another program left; a pulse has the
\* period asked for.
CountersAsMeant ==
  by = "demo" => C!ConfiguredAsMeant /\ C!ArmedConfigured /\ C!NothingLeftOver /\ C!PulseAsAsked

\* DioBitfield: just the masked outputs are written, what comes back was seen,
\* both forms agree, and the first failure is the last thing that is done.
BitfieldExact ==
  by = "dio" => D!WritesExactly /\ D!ReadsSeen /\ D!AgreesWithInsnBits /\ D!FailureStops

\* StreamSubdevice: the handle's copy is the kernel's current subdevice.
CopyIsCurrent == by = "stream" => S!CopyIsCurrent

\* Scxi: a register is transferred with the module it belongs to, or, after a
\* failure, with none; and the chassis is free after a call.
RightRegister == by = "scxi" => X!RightRegister /\ X!LostNotStray /\ X!Released

\* BitLink: the receiver's bits are the sender's, in rows without a gap.
BitsArrive == by = "link" => L!BitsArrive /\ L!RowsFull

\* dio_funcref.txt:21-24 and extensions_funcref.txt:409-411, which do not hold.
ReadBack == by = "dio" => D!ReadBack
NullListUntouched == by = "config" => I!NullListUntouched
=============================================================================
