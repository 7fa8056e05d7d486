----------------------------- MODULE DioBitfield -----------------------------
(***************************************************************************)
(* comedi_dio_bitfield2 (lib/dio.c) on one digital subdevice.  When the    *)
(* driver knows INSN_BITS the call is one instruction; otherwise it walks  *)
(* over the channels with comedi_dio_write and comedi_dio_read, one ioctl  *)
(* each, any of which may fail, while other programs write the subdevice   *)
(* and its input lines change.  An unsigned int is the set of its one      *)
(* bits.                                                                   *)
(***************************************************************************)
EXTENDS Integers

CONSTANTS Width,       \* bits of an unsigned int, 32
          NChan,       \* s->n_chan
          Bases,       \* base channels a program may pass
          Subdevices   \* kinds of subdevice: what they can do, and directions

Bits == 0 .. Width - 1
Chan == 0 .. NChan - 1

Parameters ==
  /\ Width \in Nat \ {0} /\ NChan \in Nat /\ Bases \subseteq Nat
  /\ \A s \in Subdevices :
       /\ s.has_insn_bits \in BOOLEAN     \* the driver knows INSN_BITS
       /\ s.has_insnlist \in BOOLEAN      \* else every access is a COMEDI_TRIG
       /\ s.type \in {"DI", "DO", "DIO"}
       /\ s.outputs \subseteq Chan        \* channels that drive their line

VARIABLES subd,          \* the subdevice
          latch, pin,    \* channels whose output latch, whose line, is high
          pc,            \* "idle", or "loop" inside the fallback
          base, mask,    \* arguments base_channel and mask
          bits,          \* *bits
          i, bit,        \* local variables of the fallback
          ret,
          asked, before, \* *bits and the latches when the call began (history)
          shown,         \* levels each channel showed during the call (history)
          disturbed      \* somebody else interfered with the call (history)

args == <<subd, base, mask, asked, before>>
vars == <<args, latch, pin, pc, bits, i, bit, ret, shown, disturbed>>

IsHigh(c, l, p) == IF c \in subd.outputs THEN c \in l ELSE c \in p
High(c) == IsHigh(c, latch, pin)

\* A slip: the loop is not limited to the bits there are.
EndUnlimited == IF NChan > base THEN NChan - base ELSE 1

\* Channels above base that the call reaches: at least one, to catch errors,
\* and never one whose bit is beyond the width of *bits.
End == IF NChan > base
         THEN IF NChan - base > Width THEN Width ELSE NChan - base
         ELSE 1

With(s, e, on) == IF on THEN s \union {e} ELSE s \ {e}

\* Remember what every channel shows from now on.
Shows == shown' = [c \in Chan |-> shown[c] \union {IsHigh(c, latch', pin')}]

Init ==
  /\ subd \in Subdevices
  /\ latch \in SUBSET Chan /\ pin \in SUBSET Chan
  /\ pc = "idle" /\ base \in Bases /\ mask = {} /\ bits = {}
  /\ i = 0 /\ bit = FALSE /\ ret = 0
  /\ asked = {} /\ before = latch
  /\ shown = [c \in Chan |-> BOOLEAN]
  /\ disturbed = TRUE            \* nothing is promised before the first call

\* The arguments of a call and what the history starts from.
Begins ==
  /\ base' \in Bases /\ mask' \in SUBSET Bits /\ asked' \in SUBSET Bits
  /\ before' = latch /\ disturbed' = FALSE
  /\ UNCHANGED <<subd, pin>>

\* What INSN_BITS does (external): the driver writes the masked channels it
\* has and answers with all of them; a subdevice without outputs only answers.
Written ==
  IF subd.type = "DI" THEN latch
  ELSE {c \in Chan : IF c - base' \in mask' THEN c - base' \in asked' ELSE c \in latch}

\* The call when has_insn_bits; a failure leaves *bits alone.
BitsInsn ==
  /\ pc = "idle" /\ subd.has_insn_bits /\ Begins
  /\ \/ /\ latch' = Written
        /\ bits' = {b \in Bits : base' + b \in Chan /\ IsHigh(base' + b, latch', pin)}
        /\ ret' = 0
     \/ UNCHANGED latch /\ bits' = asked' /\ ret' = -1
  /\ shown' = [c \in Chan |-> {IsHigh(c, latch', pin)}]
  /\ UNCHANGED <<pc, i, bit>>

\* Otherwise the loop begins; the local variable bit is not initialized.
BeginLoop ==
  /\ pc = "idle" /\ ~subd.has_insn_bits /\ Begins
  /\ pc' = "loop" /\ bits' = asked' /\ i' = 0 /\ bit' \in BOOLEAN
  /\ shown' = [c \in Chan |-> {High(c)}]
  /\ UNCHANGED <<latch, ret>>

Valid == base + i \in Chan

Fails == pc' = "idle" /\ ret' = -1

\* comedi_dio_write of one masked channel; it refuses a DI subdevice and a
\* channel out of range.
WriteBit ==
  /\ pc = "loop" /\ i < End /\ i \in mask
  /\ bit' = (i \in bits) /\ UNCHANGED pin
  /\ \/ /\ Valid /\ subd.type # "DI"
        /\ latch' = With(latch, base + i, bit') /\ Shows
        /\ i' = i + 1 /\ UNCHANGED <<pc, ret>>
     \/ Fails /\ UNCHANGED <<latch, shown, i>>
  /\ UNCHANGED <<args, bits, disturbed>>

\* A slip: a low channel leaves its bit as it was.
ReadBitOnlySets ==
  /\ pc = "loop" /\ i < End /\ i \notin mask
  /\ \/ /\ Valid /\ bit' = High(base + i)
        /\ i' = i + 1 /\ UNCHANGED <<pc, ret>>
     \/ /\ bit' = IF Valid /\ subd.has_insnlist THEN FALSE ELSE bit
        /\ Fails /\ UNCHANGED i
  /\ bits' = IF bit' THEN bits \union {i} ELSE bits
  /\ UNCHANGED <<args, latch, pin, shown, disturbed>>

\* comedi_dio_read of one other channel.  *bits is updated before the answer
\* is looked at: a failing COMEDI_INSN has stored 0 in bit, an invalid
\* channel or a failing COMEDI_TRIG has stored nothing.
ReadBit ==
  /\ pc = "loop" /\ i < End /\ i \notin mask
  /\ \/ /\ Valid /\ bit' = High(base + i)
        /\ i' = i + 1 /\ UNCHANGED <<pc, ret>>
     \/ /\ bit' = IF Valid /\ subd.has_insnlist THEN FALSE ELSE bit
        /\ Fails /\ UNCHANGED i
  /\ bits' = With(bits, i, bit')
  /\ UNCHANGED <<args, latch, pin, shown, disturbed>>

EndLoop ==
  /\ pc = "loop" /\ i >= End
  /\ pc' = "idle" /\ ret' = 0
  /\ UNCHANGED <<args, latch, pin, bits, i, bit, shown, disturbed>>

\* Somebody else writes a channel, or a line changes, during the call; at
\* most once per call, which bounds the model.
OtherWrites ==
  /\ pc = "loop" /\ ~disturbed /\ subd.type # "DI"
  /\ \E c \in Chan : latch' = With(latch, c, c \notin latch)
  /\ UNCHANGED <<args, pin, pc, bits, i, bit, ret>>
  /\ disturbed' = TRUE /\ Shows

LineChanges ==
  /\ pc = "loop" /\ ~disturbed
  /\ \E c \in Chan \ subd.outputs : pin' = With(pin, c, c \notin pin)
  /\ UNCHANGED <<args, latch, pc, bits, i, bit, ret>>
  /\ disturbed' = TRUE /\ Shows

Next ==
  \/ BitsInsn \/ BeginLoop
  \/ WriteBit \/ ReadBit \/ EndLoop
  \/ OtherWrites \/ LineChanges

Spec == Init /\ [][Next]_vars

-----------------------------------------------------------------------------
(***************************************************************************)
(* Properties.                                                             *)
(***************************************************************************)

\* Every variable holds a value of its kind.
TypeOK ==
  /\ subd \in Subdevices
  /\ latch \subseteq Chan /\ pin \subseteq Chan /\ before \subseteq Chan
  /\ pc \in {"idle", "loop"} /\ ret \in {0, -1}
  /\ base \in Bases
  /\ mask \subseteq Bits /\ bits \subseteq Bits /\ asked \subseteq Bits
  /\ i \in 0 .. Width /\ bit \in BOOLEAN
  /\ shown \in [Chan -> SUBSET BOOLEAN] /\ disturbed \in BOOLEAN

Succeeded == pc = "idle" /\ ret = 0
Failed == pc = "idle" /\ ret = -1

\* The bits that stand for a channel of the subdevice.
Present == {b \in Bits : base + b \in Chan}

\* A call that succeeds undisturbed has written every masked channel with the
\* bit asked for and no other channel, by either way.
WritesExactly ==
  Succeeded /\ ~disturbed /\ subd.type # "DI" =>
    \A c \in Chan :
      (c \in latch) = IF c - base \in mask THEN c - base \in asked ELSE c \in before

\* Whoever interferes, a bit that was to be read comes back as a level its
\* channel showed at some moment of the call.
ReadsSeen ==
  Succeeded => \A b \in Present \ mask : (b \in bits) \in shown[base + b]

\* Undisturbed, and as long as what is written are outputs, walking over the
\* channels gives the answer INSN_BITS would give, for the channels there are.
AgreesWithInsnBits ==
  Succeeded /\ ~disturbed /\ subd.type # "DI"
    /\ (\A b \in mask \intersect Present : base + b \in subd.outputs)
    => \A b \in Present : (b \in bits) = High(base + b)

\* A call that fails has not touched a channel beyond the one that failed,
\* nor a bit of the answer beyond it.
FailureStops ==
  Failed /\ ~disturbed /\ ~subd.has_insn_bits =>
    /\ \A c \in Chan : c >= base + i \/ c < base => (c \in latch) = (c \in before)
    /\ \A b \in Bits : b > i => (b \in bits) = (b \in asked)

\* dio_funcref.txt:21-24: after writing, each channel is read, and the result
\* placed in the appropriate bit.
ReadBack ==
  Succeeded /\ ~disturbed => \A b \in Present : (b \in bits) = High(base + b)
=============================================================================
