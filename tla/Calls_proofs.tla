----------------------------- MODULE Calls_proofs -----------------------------
(***************************************************************************)
(* The calls of MCCalls, for every value of the constants: what            *)
(* comedi_dio_bitfield2 writes and answers, that the handle's copy names   *)
(* the subdevices the kernel has, what the configuring calls answer, that  *)
(* the counter programs make the settings they mean, that a register of an *)
(* SCXI module is reached where it is, and that a message arrives.         *)
(***************************************************************************)
EXTENDS MCCalls, FiniteSetTheorems, SequenceTheorems, TLAPS

-----------------------------------------------------------------------------
(***************************************************************************)
(* comedi_dio_bitfield2.  Inside the loop the channels below base + i are  *)
(* done with, and nothing was done for the others.                         *)
(***************************************************************************)

\* The loop is where the driver has no INSN_BITS, and only over channels
\* that were valid.
LoopPlace ==
  pc = "loop" => /\ ~subd.has_insn_bits
                 /\ i \in 0 .. D!End
                 /\ i > 0 => base + i - 1 \in D!Chan

\* The latches of the masked channels passed are written; no others.
LoopWrites ==
  pc = "loop" /\ ~disturbed =>
    \A ch \in D!Chan :
      ch \in latch <=> IF ch - base \in mask /\ ch - base < i THEN ch - base \in asked ELSE ch \in before

\* The bits ahead, and those to be written, are as they were asked for.
LoopKeeps ==
  pc = "loop" => \A b \in D!Bits : b \in mask \/ b >= i => (b \in bits <=> b \in asked)

\* What a channel shows is among what it showed.
LoopShows ==
  pc = "loop" => \A ch \in D!Chan : D!High(ch) \in shown[ch]

\* The bits passed were seen.
LoopSees ==
  pc = "loop" => \A b \in D!Bits \ mask : b < i => (b \in bits) \in shown[base + b]

\* And, undisturbed, they are still what the channel shows.
LoopAgrees ==
  pc = "loop" /\ ~disturbed => \A b \in D!Bits \ mask : b < i => (b \in bits <=> D!High(base + b))

\* The invariant of the call.
BitfieldInv ==
  /\ D!TypeOK
  /\ LoopPlace /\ LoopWrites /\ LoopKeeps /\ LoopShows /\ LoopSees /\ LoopAgrees
  /\ D!WritesExactly /\ D!ReadsSeen /\ D!AgreesWithInsnBits /\ D!FailureStops

\* What the constants are.
LEMMA DioConstants ==
  /\ Width \in Nat /\ Width > 0 /\ NChan \in Nat /\ Bases \subseteq Nat
  /\ \A s \in Subdevices : s.has_insn_bits \in BOOLEAN /\ s.has_insnlist \in BOOLEAN /\ s.outputs \subseteq D!Chan
  BY CallsAssumption DEF D!Parameters

\* A program begins between calls, with nothing promised.
LEMMA BitfieldBegins ==
  ASSUME D!Init
  PROVE  BitfieldInv
<1>1. D!TypeOK
  <2>1. shown \in [D!Chan -> SUBSET BOOLEAN]
    BY DEF D!Init
  <2>2. bit \in BOOLEAN /\ disturbed \in BOOLEAN
    BY Zenon DEF D!Init
  <2> QED
    BY <2>1, <2>2, DioConstants DEF D!Init, D!TypeOK
<1>2. D!ReadsSeen
  BY DEF D!Init, D!ReadsSeen, D!Present, D!Succeeded
<1> QED
  BY <1>1, <1>2 DEF D!Init, BitfieldInv, LoopPlace, LoopWrites, LoopKeeps, LoopShows, LoopSees, LoopAgrees,
     D!WritesExactly, D!AgreesWithInsnBits, D!FailureStops, D!Failed

\* The call by one instruction does all of it at once.
LEMMA BitsInsnKeeps ==
  ASSUME BitfieldInv, D!BitsInsn
  PROVE  BitfieldInv'
<1>1. D!TypeOK'
  <2>1. shown' \in [D!Chan -> SUBSET BOOLEAN]
    <3>1. ASSUME NEW ch \in D!Chan PROVE D!IsHigh(ch, latch', pin) \in BOOLEAN
      <4>1. CASE ch \in subd.outputs
        BY <4>1 DEF D!IsHigh
      <4>2. CASE ch \notin subd.outputs
        BY <4>2 DEF D!IsHigh
      <4> QED
        BY <4>1, <4>2
    <3> QED
      BY <3>1 DEF D!BitsInsn
  <2>2. disturbed' \in BOOLEAN
    BY Zenon DEF D!BitsInsn, D!Begins
  <2>3. latch' \subseteq D!Chan /\ bits' \subseteq D!Bits
    BY DEF BitfieldInv, D!TypeOK, D!BitsInsn, D!Begins, D!Written
  <2> QED
    BY <2>1, <2>2, <2>3 DEF BitfieldInv, D!TypeOK, D!BitsInsn, D!Begins
<1>2. pc' = "idle" /\ subd' = subd /\ subd.has_insn_bits /\ ~disturbed' /\ pin' = pin /\ before' = latch
  BY DEF D!BitsInsn, D!Begins
<1>3. CASE ret' = 0
  <2>1. latch' = D!Written /\ bits' = {b \in D!Bits : base' + b \in D!Chan /\ D!IsHigh(base' + b, latch', pin)}
        /\ shown' = [ch \in D!Chan |-> {D!IsHigh(ch, latch', pin')}]
    BY <1>2, <1>3 DEF D!BitsInsn
  <2>2. D!WritesExactly'
    BY <1>2, <2>1 DEF D!WritesExactly, D!Written
  <2>3. \A b \in D!Present' : (b \in bits') = D!High(base + b)'
    BY <1>2, <2>1 DEF D!Present, D!High, D!IsHigh
  <2>4. D!ReadsSeen'
    BY <1>2, <2>1, <2>3 DEF D!ReadsSeen, D!Present, D!High, D!IsHigh
  <2>5. D!AgreesWithInsnBits'
    BY <2>3 DEF D!AgreesWithInsnBits
  <2> QED
    BY <1>1, <1>2, <1>3, <2>2, <2>4, <2>5 DEF BitfieldInv, LoopPlace, LoopWrites, LoopKeeps, LoopShows, LoopSees,
       LoopAgrees, D!FailureStops, D!Failed
<1>4. CASE ret' = -1
  BY <1>1, <1>2, <1>4 DEF BitfieldInv, LoopPlace, LoopWrites, LoopKeeps, LoopShows, LoopSees, LoopAgrees,
     D!FailureStops, D!WritesExactly, D!ReadsSeen, D!AgreesWithInsnBits, D!Succeeded
<1> QED
  BY <1>3, <1>4 DEF D!BitsInsn

\* Otherwise the loop is entered with nothing done.
LEMMA BeginLoopKeeps ==
  ASSUME BitfieldInv, D!BeginLoop
  PROVE  BitfieldInv'
<1>1. D!TypeOK'
  <2>1. shown' \in [D!Chan -> SUBSET BOOLEAN]
    <3>1. ASSUME NEW ch \in D!Chan PROVE D!High(ch) \in BOOLEAN
      <4>1. CASE ch \in subd.outputs
        BY <4>1 DEF D!High, D!IsHigh
      <4>2. CASE ch \notin subd.outputs
        BY <4>2 DEF D!High, D!IsHigh
      <4> QED
        BY <4>1, <4>2
    <3> QED
      BY <3>1 DEF D!BeginLoop
  <2>2. disturbed' \in BOOLEAN /\ bit' \in BOOLEAN
    BY Zenon DEF D!BeginLoop, D!Begins
  <2> QED
    BY <2>1, <2>2, DioConstants DEF BitfieldInv, D!TypeOK, D!BeginLoop, D!Begins
<1>2. base' \in Nat /\ D!End' \in 1 .. Width
  <2>1. base' \in Nat
    BY DioConstants DEF D!BeginLoop, D!Begins
  <2>2. \A b \in Nat : (IF NChan > b THEN IF NChan - b > Width THEN Width ELSE NChan - b ELSE 1) \in 1 .. Width
    BY DioConstants
  <2>3. D!End' \in 1 .. Width
    BY <2>1, <2>2 DEF D!End
  <2> QED
    BY <2>1, <2>3
<1>3. LoopPlace'
  BY <1>2 DEF D!BeginLoop, D!Begins, LoopPlace
<1>4. LoopWrites'
  <2>1. i' = 0 /\ latch' = before' /\ mask' \subseteq D!Bits
    BY DEF D!BeginLoop, D!Begins
  <2>2. ASSUME NEW ch \in D!Chan, ch - base' \in mask' PROVE ~(ch - base' < i')
    <3>1. ch - base' \in D!Bits
      BY <2>1, <2>2
    <3>2. \A u \in D!Bits : ~(u < 0)
      BY DioConstants DEF D!Bits
    <3> QED
      BY <2>1, <3>1, <3>2
  <2> QED
    BY <2>1, <2>2 DEF LoopWrites
<1>5. LoopKeeps'
  BY DEF D!BeginLoop, D!Begins, LoopKeeps
<1>6. LoopShows'
  BY DEF D!BeginLoop, D!Begins, LoopShows, D!High, D!IsHigh
<1>7. LoopSees' /\ LoopAgrees'
  BY DEF D!BeginLoop, D!Begins, LoopSees, LoopAgrees, D!Bits
<1> QED
  BY <1>1, <1>3, <1>4, <1>5, <1>6, <1>7 DEF D!BeginLoop, BitfieldInv, D!WritesExactly, D!ReadsSeen,
     D!AgreesWithInsnBits, D!FailureStops, D!Succeeded, D!Failed

\* Inside the loop, with a channel to go.
LEMMA InLoop ==
  ASSUME BitfieldInv, pc = "loop"
  PROVE  /\ base \in Nat /\ i \in Nat /\ D!End \in 1 .. Width /\ i <= D!End
         /\ mask \subseteq D!Bits /\ subd \in Subdevices
         /\ i < D!End => i \in D!Bits /\ i + 1 \in 0 .. D!End /\ i + 1 \in 0 .. Width
         /\ \A b \in D!Bits : b < i => base + b \in D!Chan
<1>1. base \in Nat /\ mask \subseteq D!Bits /\ subd \in Subdevices
  BY DioConstants DEF BitfieldInv, D!TypeOK
<1>2. D!End \in 1 .. Width
  BY <1>1, DioConstants DEF D!End
<1>3. i \in 0 .. D!End /\ (i > 0 => base + i - 1 \in D!Chan)
  BY DEF BitfieldInv, LoopPlace
<1>4. i < D!End => i \in D!Bits /\ i + 1 \in 0 .. D!End /\ i + 1 \in 0 .. Width
  BY <1>2, <1>3, DioConstants DEF D!Bits
<1>5. ASSUME NEW b \in D!Bits, b < i PROVE base + b \in D!Chan
  BY <1>1, <1>2, <1>3, <1>5, DioConstants DEF D!Bits, D!Chan
<1> QED
  BY <1>1, <1>2, <1>3, <1>4, <1>5

\* The history of levels grows, and holds what is shown now.
LEMMA ShownGrows ==
  ASSUME shown \in [D!Chan -> SUBSET BOOLEAN], D!Shows, subd' = subd
  PROVE  /\ shown' \in [D!Chan -> SUBSET BOOLEAN]
         /\ \A ch \in D!Chan : shown[ch] \subseteq shown'[ch] /\ D!High(ch)' \in shown'[ch]
<1>1. shown' = [ch \in D!Chan |-> shown[ch] \union {D!IsHigh(ch, latch', pin')}]
  BY DEF D!Shows
<1>2. ASSUME NEW ch \in D!Chan PROVE D!IsHigh(ch, latch', pin') \in BOOLEAN
  <2>1. CASE ch \in subd.outputs
    BY <2>1 DEF D!IsHigh
  <2>2. CASE ch \notin subd.outputs
    BY <2>2 DEF D!IsHigh
  <2> QED
    BY <2>1, <2>2
<1>3. ASSUME NEW ch \in D!Chan PROVE D!High(ch)' = D!IsHigh(ch, latch', pin')
  BY DEF D!High, D!IsHigh
<1> QED
  BY <1>1, <1>2, <1>3

\* A failure in the loop is the last thing that is done.
LEMMA StopsKeeps ==
  ASSUME BitfieldInv, pc = "loop", D!TypeOK', D!Fails, UNCHANGED <<subd, mask, asked, before, base, latch, i, disturbed>>,
         \A b \in D!Bits : b > i => (b \in bits' <=> b \in bits)
  PROVE  BitfieldInv'
<1>1. pc' = "idle" /\ ret' = -1
  BY DEF D!Fails
<1>2. /\ base \in Nat /\ i \in Nat /\ mask \subseteq D!Bits
  BY InLoop
<1>3. D!FailureStops'
  <2>1. SUFFICES ASSUME ~disturbed
                 PROVE  /\ \A ch \in D!Chan : ch >= base + i \/ ch < base => (ch \in latch <=> ch \in before)
                        /\ \A b \in D!Bits : b > i => (b \in bits' <=> b \in asked)
    BY DEF D!FailureStops
  <2>2. ASSUME NEW ch \in D!Chan, ch >= base + i \/ ch < base PROVE ch \in latch <=> ch \in before
    <3>1. ch \in latch <=> IF ch - base \in mask /\ ch - base < i THEN ch - base \in asked ELSE ch \in before
      BY <2>1 DEF BitfieldInv, LoopWrites
    <3>2. \A u \in D!Bits : u >= 0
      BY DioConstants DEF D!Bits
    <3>3. ch \in Nat
      BY DioConstants DEF D!Chan
    <3>4. ~(ch - base \in mask /\ ch - base < i)
      BY <1>2, <2>2, <3>2, <3>3
    <3> QED
      BY <3>1, <3>4
  <2>3. ASSUME NEW b \in D!Bits, b > i PROVE b \in bits' <=> b \in asked
    <3>1. b >= i
      BY <1>2, <2>3, DioConstants DEF D!Bits
    <3> QED
      BY <2>3, <3>1 DEF BitfieldInv, LoopKeeps
  <2> QED
    BY <2>2, <2>3
<1> QED
  BY <1>1, <1>3 DEF BitfieldInv, LoopPlace, LoopWrites, LoopKeeps, LoopShows, LoopSees, LoopAgrees,
     D!WritesExactly, D!ReadsSeen, D!AgreesWithInsnBits, D!Succeeded

\* One masked channel is written.
LEMMA WriteBitKeeps ==
  ASSUME BitfieldInv, D!WriteBit
  PROVE  BitfieldInv'
<1>1. /\ pc = "loop" /\ i < D!End /\ i \in mask /\ bit' = (i \in bits) /\ pin' = pin
      /\ UNCHANGED <<D!args, bits, disturbed>>
  BY DEF D!WriteBit
<1>2. UNCHANGED <<subd, base, mask, asked, before, bits, disturbed>> /\ bit' \in BOOLEAN
  <2>1. bit' \in BOOLEAN
    BY <1>1
  <2> QED
    BY <1>1, <2>1 DEF D!args
<1>3. /\ base \in Nat /\ i \in D!Bits /\ i + 1 \in 0 .. D!End /\ i + 1 \in 0 .. Width /\ mask \subseteq D!Bits
      /\ i \in Nat
      /\ \A b \in D!Bits : b < i => base + b \in D!Chan
  BY <1>1, InLoop
<1>4. CASE /\ D!Valid /\ subd.type # "DI"
           /\ latch' = D!With(latch, base + i, bit') /\ D!Shows
           /\ i' = i + 1 /\ UNCHANGED <<pc, ret>>
  <2>1. /\ shown' \in [D!Chan -> SUBSET BOOLEAN]
        /\ \A ch \in D!Chan : shown[ch] \subseteq shown'[ch] /\ D!High(ch)' \in shown'[ch]
    BY <1>2, <1>4, ShownGrows DEF BitfieldInv, D!TypeOK
  <2>2. base + i \in D!Chan
    BY <1>4 DEF D!Valid
  <2>3. /\ latch' \subseteq D!Chan
        /\ \A ch \in D!Chan : ch # base + i => (ch \in latch' <=> ch \in latch)
        /\ base + i \in latch' <=> i \in asked
    <3>1. i \in bits <=> i \in asked
      BY <1>1, <1>3 DEF BitfieldInv, LoopKeeps
    <3> QED
      BY <1>1, <1>4, <2>2, <3>1 DEF D!With, BitfieldInv, D!TypeOK
  <2>4. D!TypeOK'
    BY <1>1, <1>2, <1>3, <1>4, <2>1, <2>3 DEF BitfieldInv, D!TypeOK
  <2>5. LoopPlace'
    <3>1. D!End' = D!End
      BY <1>2 DEF D!End
    <3>2. base + i' - 1 = base + i
      BY <1>3, <1>4
    <3> QED
      BY <1>1, <1>2, <1>3, <1>4, <2>2, <3>1, <3>2 DEF BitfieldInv, LoopPlace
  <2>6. LoopWrites'
    <3>1. SUFFICES ASSUME ~disturbed, NEW ch \in D!Chan
                   PROVE  ch \in latch' <=> IF ch - base \in mask /\ ch - base < i + 1
                                            THEN ch - base \in asked ELSE ch \in before
      BY <1>2, <1>4 DEF LoopWrites
    <3>2. ch \in Nat
      BY <3>1, DioConstants DEF D!Chan
    <3>3. CASE ch = base + i
      <4>1. ch - base = i /\ ch - base < i + 1
        BY <1>3, <3>2, <3>3
      <4> QED
        BY <1>1, <2>3, <3>3, <4>1
    <3>4. CASE ch # base + i
      <4>1. ch - base < i + 1 <=> ch - base < i
        BY <1>3, <3>2, <3>4
      <4>2. ch \in latch <=> IF ch - base \in mask /\ ch - base < i THEN ch - base \in asked ELSE ch \in before
        BY <1>1, <3>1 DEF BitfieldInv, LoopWrites
      <4> QED
        BY <2>3, <3>1, <3>4, <4>1, <4>2
    <3> QED
      BY <3>3, <3>4
  <2>7. LoopKeeps'
    <3>1. \A b \in D!Bits : b >= i + 1 => b >= i
      BY <1>3, DioConstants DEF D!Bits
    <3> QED
      BY <1>1, <1>2, <1>4, <3>1 DEF BitfieldInv, LoopKeeps
  <2>8. \A b \in D!Bits \ mask : b < i + 1 => b < i /\ base + b \in D!Chan /\ base + b # base + i
    <3>1. ASSUME NEW b \in D!Bits, b \notin mask, b < i + 1 PROVE b < i /\ base + b # base + i
      <4>1. b # i
        BY <1>1, <3>1
      <4> QED
        BY <1>3, <3>1, <4>1, DioConstants DEF D!Bits
    <3> QED
      BY <1>3, <3>1
  <2>9. LoopShows'
    BY <2>1 DEF LoopShows
  <2>10. LoopSees'
    BY <1>1, <1>2, <1>4, <2>1, <2>8 DEF BitfieldInv, LoopSees
  <2>11. LoopAgrees'
    <3>1. SUFFICES ASSUME ~disturbed, NEW b \in D!Bits \ mask, b < i + 1
                   PROVE  b \in bits <=> D!High(base + b)'
      BY <1>2, <1>4 DEF LoopAgrees
    <3>2. b \in bits <=> D!High(base + b)
      BY <1>1, <2>8, <3>1 DEF BitfieldInv, LoopAgrees
    <3>3. D!High(base + b)' <=> D!High(base + b)
      BY <1>1, <1>2, <2>3, <2>8, <3>1 DEF D!High, D!IsHigh
    <3> QED
      BY <3>2, <3>3
  <2> QED
    BY <1>1, <1>4, <2>4, <2>5, <2>6, <2>7, <2>9, <2>10, <2>11 DEF BitfieldInv,
       D!WritesExactly, D!ReadsSeen, D!AgreesWithInsnBits, D!FailureStops, D!Succeeded, D!Failed
<1>5. CASE D!Fails /\ UNCHANGED <<latch, shown, i>>
  <2>1. D!TypeOK'
    BY <1>1, <1>2, <1>5 DEF BitfieldInv, D!TypeOK, D!Fails
  <2> QED
    BY <1>1, <1>2, <1>5, <2>1, StopsKeeps
<1> QED
  BY <1>4, <1>5 DEF D!WriteBit

\* One other channel is read.
LEMMA ReadBitKeeps ==
  ASSUME BitfieldInv, D!ReadBit
  PROVE  BitfieldInv'
<1>1. /\ pc = "loop" /\ i < D!End /\ i \notin mask
      /\ UNCHANGED <<subd, base, mask, asked, before, latch, pin, shown, disturbed>>
      /\ bits' = D!With(bits, i, bit')
  BY DEF D!ReadBit, D!args
<1>2. /\ base \in Nat /\ i \in D!Bits /\ i + 1 \in 0 .. D!End /\ i + 1 \in 0 .. Width /\ mask \subseteq D!Bits
      /\ i \in Nat
      /\ \A b \in D!Bits : b < i => base + b \in D!Chan
  BY <1>1, InLoop
<1>3. /\ bits' \subseteq D!Bits
      /\ \A b \in D!Bits : b # i => (b \in bits' <=> b \in bits)
      /\ i \in bits' <=> bit'
  BY <1>1, <1>2 DEF D!With, BitfieldInv, D!TypeOK
<1>4. CASE D!Valid /\ bit' = D!High(base + i) /\ i' = i + 1 /\ UNCHANGED <<pc, ret>>
  <2>1. base + i \in D!Chan
    BY <1>4 DEF D!Valid
  <2>2. bit' \in BOOLEAN
    <3>1. CASE base + i \in subd.outputs
      BY <1>4, <3>1 DEF D!High, D!IsHigh
    <3>2. CASE base + i \notin subd.outputs
      BY <1>4, <3>2 DEF D!High, D!IsHigh
    <3> QED
      BY <3>1, <3>2
  <2>3. D!TypeOK'
    BY <1>1, <1>2, <1>3, <1>4, <2>2 DEF BitfieldInv, D!TypeOK
  <2>4. LoopPlace'
    <3>1. D!End' = D!End
      BY <1>1 DEF D!End
    <3>2. base + i' - 1 = base + i
      BY <1>2, <1>4
    <3> QED
      BY <1>1, <1>2, <1>4, <2>1, <3>1, <3>2 DEF BitfieldInv, LoopPlace
  <2>5. LoopWrites'
    <3>1. SUFFICES ASSUME ~disturbed, NEW ch \in D!Chan
                   PROVE  ch \in latch <=> IF ch - base \in mask /\ ch - base < i + 1
                                           THEN ch - base \in asked ELSE ch \in before
      BY <1>1, <1>4 DEF LoopWrites
    <3>2. ch \in Nat
      BY <3>1, DioConstants DEF D!Chan
    <3>3. ch - base \in mask => (ch - base < i + 1 <=> ch - base < i)
      <4>1. ch - base \in mask => ch - base # i
        BY <1>1
      <4> QED
        BY <1>2, <3>2, <4>1
    <3> QED
      BY <1>1, <3>1, <3>3 DEF BitfieldInv, LoopWrites
  <2>6. LoopKeeps'
    <3>1. \A b \in D!Bits : (b >= i + 1 => b >= i /\ b # i) /\ (b \in mask => b # i)
      BY <1>1, <1>2, DioConstants DEF D!Bits
    <3> QED
      BY <1>1, <1>3, <1>4, <3>1 DEF BitfieldInv, LoopKeeps
  <2>7. LoopShows'
    BY <1>1, <1>4 DEF BitfieldInv, LoopShows, D!High, D!IsHigh
  <2>8. \A b \in D!Bits : b < i + 1 /\ b # i => b < i
    BY <1>2, DioConstants DEF D!Bits
  <2>9. LoopSees'
    <3>1. SUFFICES ASSUME NEW b \in D!Bits \ mask, b < i + 1
                   PROVE  (b \in bits') \in shown[base + b]
      BY <1>1, <1>4 DEF LoopSees
    <3>2. CASE b = i
      <4>1. (i \in bits') = D!High(base + i)
        BY <1>3, <1>4, <2>2
      <4>2. D!High(base + i) \in shown[base + i]
        BY <1>1, <2>1 DEF BitfieldInv, LoopShows
      <4> QED
        BY <3>2, <4>1, <4>2
    <3>3. CASE b # i
      <4>1. (b \in bits') = (b \in bits)
        BY <1>3, <3>1, <3>3
      <4>2. (b \in bits) \in shown[base + b]
        BY <1>1, <2>8, <3>1, <3>3 DEF BitfieldInv, LoopSees
      <4> QED
        BY <4>1, <4>2
    <3> QED
      BY <3>2, <3>3
  <2>10. LoopAgrees'
    <3>1. SUFFICES ASSUME ~disturbed, NEW b \in D!Bits \ mask, b < i + 1
                   PROVE  b \in bits' <=> D!High(base + b)
      BY <1>1, <1>4 DEF LoopAgrees, D!High, D!IsHigh
    <3>2. CASE b = i
      BY <1>3, <1>4, <2>2, <3>2
    <3>3. CASE b # i
      BY <1>1, <1>3, <2>8, <3>1, <3>3 DEF BitfieldInv, LoopAgrees
    <3> QED
      BY <3>2, <3>3
  <2> QED
    BY <1>1, <1>4, <2>3, <2>4, <2>5, <2>6, <2>7, <2>9, <2>10 DEF BitfieldInv,
       D!WritesExactly, D!ReadsSeen, D!AgreesWithInsnBits, D!FailureStops, D!Succeeded, D!Failed
<1>5. CASE /\ bit' = IF D!Valid /\ subd.has_insnlist THEN FALSE ELSE bit
           /\ D!Fails /\ UNCHANGED i
  <2>1. bit' \in BOOLEAN
    BY <1>5 DEF BitfieldInv, D!TypeOK
  <2>2. D!TypeOK'
    BY <1>1, <1>3, <1>5, <2>1 DEF BitfieldInv, D!TypeOK, D!Fails
  <2>3. \A b \in D!Bits : b > i => b # i
    BY <1>2, DioConstants DEF D!Bits
  <2> QED
    BY <1>1, <1>3, <1>5, <2>2, <2>3, StopsKeeps
<1> QED
  BY <1>4, <1>5 DEF D!ReadBit

\* All the channels are done.
LEMMA EndLoopKeeps ==
  ASSUME BitfieldInv, D!EndLoop
  PROVE  BitfieldInv'
<1>1. /\ pc = "loop" /\ i >= D!End /\ pc' = "idle" /\ ret' = 0
      /\ UNCHANGED <<subd, base, mask, asked, before, latch, pin, bits, i, bit, shown, disturbed>>
  BY DEF D!EndLoop, D!args
<1>2. /\ base \in Nat /\ i \in Nat /\ D!End \in 1 .. Width /\ i = D!End /\ mask \subseteq D!Bits
  BY <1>1, InLoop
<1>3. \A b \in D!Bits : base + b \in D!Chan => b < i
  BY <1>2, DioConstants DEF D!Bits, D!Chan, D!End
<1>4. D!TypeOK'
  BY <1>1 DEF BitfieldInv, D!TypeOK
<1>5. D!WritesExactly'
  <2>1. SUFFICES ASSUME ~disturbed, NEW ch \in D!Chan
                 PROVE  (ch \in latch) = IF ch - base \in mask THEN ch - base \in asked ELSE ch \in before
    BY <1>1 DEF D!WritesExactly
  <2>2. base + (ch - base) = ch
    BY <1>2, <2>1, DioConstants DEF D!Chan
  <2>3. ch - base \in mask => ch - base < i
    BY <1>2, <1>3, <2>1, <2>2
  <2> QED
    BY <1>1, <2>1, <2>3 DEF BitfieldInv, LoopWrites
<1>6. D!ReadsSeen'
  BY <1>1, <1>3 DEF BitfieldInv, LoopSees, D!ReadsSeen, D!Present
<1>7. D!AgreesWithInsnBits'
  <2>1. SUFFICES ASSUME ~disturbed, \A b \in mask \intersect D!Present : base + b \in subd.outputs,
                        NEW b \in D!Present
                 PROVE  b \in bits <=> D!High(base + b)
    BY <1>1 DEF D!AgreesWithInsnBits, D!Present, D!High, D!IsHigh
  <2>2. b \in D!Bits /\ base + b \in D!Chan /\ b < i
    BY <1>3, <2>1 DEF D!Present
  <2>3. CASE b \in mask
    <3>1. b \in bits <=> b \in asked
      BY <1>1, <2>2, <2>3 DEF BitfieldInv, LoopKeeps
    <3>2. (base + b) - base = b
      BY <1>2, <2>2, DioConstants DEF D!Bits
    <3>3. base + b \in latch <=> b \in asked
      BY <1>1, <2>1, <2>2, <2>3, <3>2 DEF BitfieldInv, LoopWrites
    <3>4. base + b \in subd.outputs
      BY <2>1, <2>3
    <3> QED
      BY <3>1, <3>3, <3>4 DEF D!High, D!IsHigh
  <2>4. CASE b \notin mask
    BY <1>1, <2>1, <2>2, <2>4 DEF BitfieldInv, LoopAgrees
  <2> QED
    BY <2>3, <2>4
<1> QED
  BY <1>1, <1>4, <1>5, <1>6, <1>7 DEF BitfieldInv, LoopPlace, LoopWrites, LoopKeeps, LoopShows, LoopSees, LoopAgrees,
     D!FailureStops, D!Failed

\* Others disturb the call; what was seen stays seen.
LEMMA DisturbingKeeps ==
  ASSUME BitfieldInv, D!OtherWrites \/ D!LineChanges
  PROVE  BitfieldInv'
<1>1. /\ pc = "loop" /\ UNCHANGED <<subd, base, mask, asked, before, pc, bits, i, bit, ret>>
      /\ disturbed' = TRUE /\ D!Shows
  BY DEF D!OtherWrites, D!LineChanges, D!args
<1>2. latch' \subseteq D!Chan /\ pin' \subseteq D!Chan
  BY DEF D!OtherWrites, D!LineChanges, D!With, BitfieldInv, D!TypeOK
<1>3. /\ shown' \in [D!Chan -> SUBSET BOOLEAN]
      /\ \A ch \in D!Chan : shown[ch] \subseteq shown'[ch] /\ D!High(ch)' \in shown'[ch]
  BY <1>1, ShownGrows DEF BitfieldInv, D!TypeOK
<1>4. D!TypeOK'
  <2>1. disturbed' \in BOOLEAN
    BY <1>1, Zenon
  <2> QED
    BY <1>1, <1>2, <1>3, <2>1 DEF BitfieldInv, D!TypeOK
<1>5. LoopPlace' /\ LoopKeeps' /\ LoopShows'
  BY <1>1, <1>3 DEF BitfieldInv, LoopPlace, LoopKeeps, LoopShows, D!End
<1>6. LoopSees'
  BY <1>1, <1>3, InLoop DEF BitfieldInv, LoopSees
<1> QED
  BY <1>1, <1>4, <1>5, <1>6 DEF BitfieldInv, LoopWrites, LoopAgrees,
     D!WritesExactly, D!ReadsSeen, D!AgreesWithInsnBits, D!FailureStops, D!Succeeded, D!Failed

\* Every step keeps the invariant.
LEMMA BitfieldStep ==
  ASSUME BitfieldInv, D!Next
  PROVE  BitfieldInv'
  BY BitsInsnKeeps, BeginLoopKeeps, WriteBitKeeps, ReadBitKeeps, EndLoopKeeps, DisturbingKeeps DEF D!Next

\* All of it is asked of it only where it runs.
LEMMA BitfieldRuns == CallsSpec => [](by = "dio" => BitfieldInv)
<1>1. CallsInit => (by = "dio" => BitfieldInv)
  BY BitfieldBegins DEF CallsInit
<1>2. ASSUME by = "dio" => BitfieldInv, [CallsNext]_callsVars PROVE (by = "dio" => BitfieldInv)'
  <2>1. CASE CallsNext
    <3>1. by' = by /\ (by = "dio" => D!Next)
      BY <2>1 DEF CallsNext, Configures, Demonstrates, Bitfields, Chooses, AccessesModules, Transmits
    <3> QED
      BY <1>2, <3>1, BitfieldStep
  <2>2. CASE UNCHANGED callsVars
    <3>1. UNCHANGED <<by, ret, pc, dioOnly>>
      BY <2>2 DEF callsVars
    <3>2. UNCHANGED <<subd, latch, pin, pc, base, mask, bits, i, bit, ret, asked, before, shown, disturbed>>
      BY <3>1 DEF dioOnly
    <3> QED
      BY <1>2, <3>1, <3>2 DEF BitfieldInv, LoopPlace, LoopWrites, LoopKeeps, LoopShows, LoopSees, LoopAgrees,
         D!TypeOK, D!End, D!High, D!IsHigh, D!WritesExactly, D!ReadsSeen, D!AgreesWithInsnBits, D!FailureStops,
         D!Succeeded, D!Failed, D!Present
  <2> QED
    BY <1>2, <2>1, <2>2
<1> QED
  BY <1>1, <1>2, PTL DEF CallsSpec

\* comedi_dio_bitfield2 writes the masked outputs and no other, answers with
\* levels it saw, agrees in its two forms, and stops at the first failure,
\* for every width, number of channels and base channel.
THEOREM BitfieldExactness == CallsSpec => []BitfieldExact
<1>1. (by = "dio" => BitfieldInv) => BitfieldExact
  BY DEF BitfieldInv, BitfieldExact
<1> QED
  BY <1>1, BitfieldRuns, PTL

-----------------------------------------------------------------------------
(***************************************************************************)
(* The subdevice that streams.                                             *)
(***************************************************************************)

\* Between the ioctl and the store the copy is behind, for the side that is
\* being set; else it is the kernel's.
CopyInv ==
  /\ S!TypeOK
  /\ (\A t \in Threads : pc[t] # "store") => devinfo = current
  /\ \A t \in Threads : pc[t] = "store" =>
       /\ current[side[t]] = want[t]
       /\ \A d \in S!Sides : d # side[t] => devinfo[d] = current[d]

\* The handle is one thread's.
OneThread == \A t, u \in Threads : t = u

\* So it is when the handle is opened,
LEMMA CopyBegins ==
  ASSUME S!Init
  PROVE  CopyInv
<1>1. S!TypeOK
  <2>1. current \in [S!Sides -> {S!None} \union (0 .. NSubd - 1)]
    BY DEF S!Init
  <2>2. side \in [Threads -> S!Sides] /\ want \in [Threads -> Nat] /\ ret \in [Threads -> {0, -1}]
    BY DEF S!Init, S!Sides
  <2> QED
    BY <2>1, <2>2 DEF S!Init, S!TypeOK
<1> QED
  BY <1>1 DEF S!Init, CopyInv

\* and after each step of its thread.
LEMMA CopyStep ==
  ASSUME OneThread, CopyInv, S!Next
  PROVE  CopyInv'
<1>1. PICK t \in Threads :
         \/ \E d \in S!Sides, s \in 0 .. NSubd - 1 : S!SetSubdevice(t, d, s)
         \/ S!Ioctl(t)
         \/ S!Store(t)
  BY DEF S!Next
<1>2. \A u \in Threads : u = t
  BY <1>1 DEF OneThread
<1>3. CASE \E d \in S!Sides, s \in 0 .. NSubd - 1 : S!SetSubdevice(t, d, s)
  BY <1>2, <1>3 DEF S!SetSubdevice, S!Returns, CopyInv, S!TypeOK
<1>4. CASE S!Ioctl(t)
  <2>1. side[t] \in S!Sides /\ pc[t] = "ioctl" /\ devinfo = current
    BY <1>2, <1>4 DEF S!Ioctl, CopyInv, S!TypeOK
  <2>2. CASE S!KernelSets(side[t], want[t]) /\ pc' = [pc EXCEPT ![t] = "store"] /\ UNCHANGED ret
    <3>1. want[t] \in Streams[side[t]] /\ current' = [current EXCEPT ![side[t]] = want[t]]
      BY <2>2 DEF S!KernelSets
    <3>2. want[t] \in 0 .. NSubd - 1
      BY <2>1, <3>1, CallsAssumption DEF S!Parameters
    <3>3. S!TypeOK'
      BY <1>4, <2>1, <2>2, <3>1, <3>2 DEF S!Ioctl, CopyInv, S!TypeOK
    <3>4. UNCHANGED <<devinfo, side, want>> /\ pc'[t] = "store"
      BY <1>4, <2>2 DEF S!Ioctl, CopyInv, S!TypeOK
    <3>5. current'[side[t]] = want[t] /\ \A d \in S!Sides : d # side[t] => current'[d] = devinfo[d]
      BY <2>1, <3>1 DEF CopyInv, S!TypeOK
    <3> QED
      BY <1>2, <3>3, <3>4, <3>5 DEF CopyInv
  <2>3. CASE S!Returns(t, -1) /\ UNCHANGED current
    BY <1>2, <1>4, <2>1, <2>3 DEF S!Ioctl, S!Returns, CopyInv, S!TypeOK
  <2> QED
    BY <1>4, <2>2, <2>3 DEF S!Ioctl
<1>5. CASE S!Store(t)
  <2>1. /\ side[t] \in S!Sides /\ current[side[t]] = want[t]
        /\ \A d \in S!Sides : d # side[t] => devinfo[d] = current[d]
    BY <1>5 DEF S!Store, CopyInv, S!TypeOK
  <2>2. devinfo' = current
    BY <1>5, <2>1 DEF S!Store, CopyInv, S!TypeOK
  <2> QED
    BY <1>2, <1>5, <2>1, <2>2 DEF S!Store, S!Returns, CopyInv, S!TypeOK
<1> QED
  BY <1>1, <1>3, <1>4, <1>5

\* When one thread has the handle, its copy names the subdevices that the
\* kernel has, between calls, whatever ioctls fail.
THEOREM CopyCurrent == OneThread => (CallsSpec => []CopyIsCurrent)
<1> SUFFICES ASSUME OneThread
             PROVE  CallsSpec => []CopyIsCurrent
  OBVIOUS
<1>1. CallsInit => (by = "stream" => CopyInv)
  BY CopyBegins DEF CallsInit
<1>2. ASSUME by = "stream" => CopyInv, [CallsNext]_callsVars PROVE (by = "stream" => CopyInv)'
  <2>1. CASE CallsNext
    <3>1. by' = by /\ (by = "stream" => S!Next)
      BY <2>1 DEF CallsNext, Configures, Demonstrates, Bitfields, Chooses, AccessesModules, Transmits
    <3> QED
      BY <1>2, <3>1, CopyStep
  <2>2. CASE UNCHANGED callsVars
    BY <1>2, <2>2 DEF callsVars, streamOnly, CopyInv, S!TypeOK
  <2> QED
    BY <1>2, <2>1, <2>2
<1>3. (by = "stream" => CopyInv) => CopyIsCurrent
  BY DEF CopyInv, CopyIsCurrent, S!CopyIsCurrent
<1> QED
  BY <1>1, <1>2, <1>3, PTL DEF CallsSpec

-----------------------------------------------------------------------------
(***************************************************************************)
(* The configuration calls over comedi_do_insn.  The words of a call give  *)
(* the setting and its value; the invariant keeps that the set answered    *)
(* last is in place as long as nobody has come between.                    *)
(***************************************************************************)

\* The instructions the driver knows, and the words of an instruction.
Ids ==
  {"RESET", "ARM", "DISARM", "GET_CLOCK_SRC", "GET_GATE_SRC", "GET_ROUTING", "GET_HARDWARE_BUFFER_SIZE",
   "SET_COUNTER_MODE", "SET_CLOCK_SRC", "FILTER", "SET_GATE_SRC", "SET_OTHER_SRC", "SET_ROUTING", "DIGITAL_TRIG",
   "TEST_ROUTE", "CONNECT_ROUTE", "DISCONNECT_ROUTE", "GET_ROUTES", "GET_CMD_TIMING_CONSTRAINTS", "DIO_INPUT",
   "DIO_OUTPUT", "DIO_QUERY", "INTTRIG", "WRITE", "PWM_SET_PERIOD", "PWM_GET_PERIOD", "GET_PWM_STATUS"}
Word == Ids \union {"DISABLE", "ENABLE_EDGES", "ENABLE_LEVELS", "A", "B", "Z"} \union Int

\* Parts of a sequence of words that are empty, or all of it.
LEMMA EmptyParts ==
  ASSUME NEW s \in Seq(Word)
  PROVE  /\ s \o << >> = s
         /\ SubSeq(s, 1, 0) = << >> /\ SubSeq(s, 0 + 1, Len(s)) = s /\ SubSeq(s, Len(s) + 1, Len(s)) = << >>
         /\ SubSeq(s, 1, Len(s)) = s
         /\ [k \in 1 .. 0 |-> 0] = << >>
<1>1. s \o << >> = s
  BY ConcatEmptySeq
<1>2. SubSeq(s, 1, 0) = << >> /\ SubSeq(s, Len(s) + 1, Len(s)) = << >>
  OBVIOUS
<1>3. SubSeq(s, 1, Len(s)) = s
  OBVIOUS
<1>4. [k \in 1 .. 0 |-> 0] = << >>
  OBVIOUS
<1> QED BY <1>1, <1>2, <1>3, <1>4

\* The words of a call that has nothing but arguments.
LEMMA PlainData ==
  ASSUME NEW d, d.args \in Seq(Word), d.list = FALSE, NEW nm \in Ids, C!Calls[d.op] = C!W(nm, 0, << >>)
  PROVE  C!Data(d) = <<nm>> \o d.args
<1> DEFINE args == d.args
<1>1. C!W(nm, 0, << >>).id = nm /\ C!W(nm, 0, << >>).after = 0 /\ C!W(nm, 0, << >>).fixed = << >>
  BY DEF C!W
<1>2. C!Data(d) = <<nm>> \o SubSeq(args, 1, 0) \o << >> \o SubSeq(args, 0 + 1, Len(args)) \o [k \in 1 .. 0 |-> 0]
  BY <1>1 DEF C!Data
<1>3. <<nm>> \in Seq(Word) /\ args \in Seq(Word)
  BY DEF Word
<1> HIDE DEF args
<1>4. C!Data(d) = <<nm>> \o << >> \o << >> \o args \o << >>
  BY <1>2, <1>3, EmptyParts, Zenon
<1>5. <<nm>> \o << >> = <<nm>>
  BY <1>3, EmptyParts, Zenon
<1>6. <<nm>> \o args \in Seq(Word)
  BY <1>3
<1>7. <<nm>> \o args \o << >> = <<nm>> \o args
  BY <1>6, EmptyParts, Zenon
<1> QED BY <1>4, <1>5, <1>7 DEF args

\* The words of a call whose results follow its arguments.
LEMMA GetData ==
  ASSUME NEW d, d.args \in Seq(Word), d.list = FALSE, NEW nm \in Ids, NEW fixed \in Seq(Word),
         C!Calls[d.op] = C!W(nm, Len(d.args), fixed)
  PROVE  C!Data(d) = <<nm>> \o d.args \o fixed
<1> DEFINE args == d.args n == Len(d.args)
<1>1. C!W(nm, n, fixed).id = nm /\ C!W(nm, n, fixed).after = n /\ C!W(nm, n, fixed).fixed = fixed
  BY DEF C!W
<1>2. C!Data(d) = <<nm>> \o SubSeq(args, 1, Len(args)) \o fixed \o SubSeq(args, Len(args) + 1, Len(args)) \o [k \in 1 .. 0 |-> 0]
  BY <1>1 DEF C!Data
<1>3. <<nm>> \in Seq(Word) /\ args \in Seq(Word)
  BY DEF Word
<1> HIDE DEF args, n
<1>4. C!Data(d) = <<nm>> \o args \o fixed \o << >> \o << >>
  BY <1>2, <1>3, EmptyParts, Zenon
<1>5. <<nm>> \o args \o fixed \in Seq(Word)
  BY <1>3
<1>6. <<nm>> \o args \o fixed \o << >> = <<nm>> \o args \o fixed
  BY <1>5, EmptyParts, Zenon
<1> QED BY <1>4, <1>6 DEF args

\* What a call that sets something says: which setting, by the first of its
\* arguments, and its value, the others.
LEMMA Says ==
  ASSUME NEW d, d.args \in Seq(Word), d.list = FALSE,
         NEW nm \in Ids, C!Calls[d.op] = C!W(nm, 0, << >>),
         NEW m \in 0 .. Len(d.args), C!Layout[nm].value = m + 2
  PROVE  /\ C!Data(d)[1] = nm
         /\ C!Key(d.ch, C!Data(d)) = <<C!Layout[nm].kind, d.ch, SubSeq(d.args, 1, m)>>
         /\ C!Value(C!Data(d)) \in Seq(Word)
         /\ C!Value(C!Data(d))[1] = nm /\ C!Value(C!Data(d)) # << >>
         /\ Tail(C!Value(C!Data(d))) = SubSeq(d.args, m + 1, Len(d.args))
<1> DEFINE words == C!Data(d)
           args == d.args
<1>1. words = <<nm>> \o args
  BY PlainData
<1>2. nm \in Word /\ args \in Seq(Word)
  BY DEF Word
<1>3. PICK n \in Nat : Len(args) = n
  BY <1>2
<1>4. m \in 0 .. n
  BY <1>3
<1> HIDE DEF words, args
<1>5. <<nm>> \in Seq(Word) /\ Len(<<nm>>) = 1 /\ <<nm>>[1] = nm
  BY <1>2
<1>6. words \in Seq(Word) /\ Len(words) = n + 1 /\ words[1] = nm /\ \A k \in 2 .. n + 1 : words[k] = args[k - 1]
  BY <1>1, <1>2, <1>3, <1>5
<1>8. SubSeq(words, 2, m + 1) = SubSeq(args, 1, m)
  <2>1. SubSeq(words, 2, m + 1) \in Seq(Word) /\ Len(SubSeq(words, 2, m + 1)) = m
    BY <1>6, <1>4
  <2>2. SubSeq(args, 1, m) \in Seq(Word) /\ Len(SubSeq(args, 1, m)) = m
    BY <1>2, <1>3, <1>4
  <2>3. ASSUME NEW k \in 1 .. m PROVE SubSeq(words, 2, m + 1)[k] = SubSeq(args, 1, m)[k]
    <3>1. SubSeq(words, 2, m + 1)[k] = words[k + 1]
      BY <1>6, <1>4
    <3>2. SubSeq(args, 1, m)[k] = args[k]
      BY <1>2, <1>3, <1>4
    <3>3. words[k + 1] = args[(k + 1) - 1]
      BY <1>6, <1>4
    <3> QED BY <3>1, <3>2, <3>3
  <2> QED BY <2>1, <2>2, <2>3, SeqEqual
<1>9. C!Key(d.ch, words) = <<C!Layout[nm].kind, d.ch, SubSeq(args, 1, m)>>
  <2>1. C!Layout[nm].value - 1 = m + 1
    BY <1>4
  <2> QED BY <1>6, <1>8, <2>1 DEF C!Key
<1> DEFINE rest == SubSeq(words, m + 2, n + 1)
           v == <<nm>> \o rest
<1>10. C!Value(words) = v
  BY <1>6 DEF C!Value
<1>11. rest \in Seq(Word) /\ Len(rest) = n - m /\ \A k \in 1 .. n - m : rest[k] = args[m + k]
  <2>1. rest \in Seq(Word) /\ Len(rest) = n - m
    BY <1>6, <1>4
  <2>2. ASSUME NEW k \in 1 .. n - m PROVE rest[k] = args[m + k]
    <3>1. rest[k] = words[(m + k) + 1] /\ m + k \in 1 .. n
      BY <1>6, <1>4
    <3>2. words[(m + k) + 1] = args[((m + k) + 1) - 1]
      BY <3>1, <1>6
    <3> QED BY <3>1, <3>2
  <2> QED BY <2>1, <2>2
<1> HIDE DEF rest
<1>13. /\ v \in Seq(Word) /\ Len(v) = 1 + Len(rest) /\ v[1] = nm /\ \A k \in 1 .. Len(rest) : v[k + 1] = rest[k]
  BY <1>5, <1>11
<1> HIDE DEF v
<1>14. v # << >>
  BY <1>13, <1>11, <1>4
<1>15. Tail(v) = SubSeq(args, m + 1, n)
  <2>1. Tail(v) \in Seq(Word) /\ Len(Tail(v)) = n - m /\ \A k \in 1 .. n - m : Tail(v)[k] = v[k + 1]
    BY <1>13, <1>11, <1>4, <1>14
  <2>2. /\ SubSeq(args, m + 1, n) \in Seq(Word) /\ Len(SubSeq(args, m + 1, n)) = n - m
        /\ \A k \in 1 .. n - m : SubSeq(args, m + 1, n)[k] = args[m + k]
    BY <1>2, <1>3, <1>4
  <2>3. ASSUME NEW k \in 1 .. n - m PROVE Tail(v)[k] = SubSeq(args, m + 1, n)[k]
    BY <2>1, <2>2, <1>13, <1>11
  <2> QED BY <2>1, <2>2, <2>3, SeqEqual
<1> QED BY <1>6, <1>9, <1>10, <1>13, <1>14, <1>15, <1>3 DEF words, args

\* An instruction as the driver knows it.
Known(w) ==
  /\ w.id \in Ids /\ w.after \in 0 .. 1
  /\ w.fixed \in {<< >>, <<0>>, <<0, 0>>, <<"DISABLE", 0, 0, 0>>, <<"ENABLE_EDGES">>, <<"ENABLE_LEVELS">>}

\* What holds of two tables holds of one laid over the other.
LEMMA OverKnown ==
  ASSUME NEW f, NEW g, \A x \in DOMAIN f : Known(f[x]), \A x \in DOMAIN g : Known(g[x])
  PROVE  \A x \in DOMAIN C!Over(f, g) : Known(C!Over(f, g)[x])
  BY DEF C!Over

\* The constant words of the calls are words.
LEMMA FixedWords ==
  /\ << >> \in Seq(Word) /\ <<0>> \in Seq(Word) /\ <<0, 0>> \in Seq(Word)
  /\ <<"DISABLE", 0, 0, 0>> \in Seq(Word) /\ <<"ENABLE_EDGES">> \in Seq(Word) /\ <<"ENABLE_LEVELS">> \in Seq(Word)
<1>1. 0 \in Word /\ "DISABLE" \in Word /\ "ENABLE_EDGES" \in Word /\ "ENABLE_LEVELS" \in Word
  BY DEF Word
<1> HIDE DEF Word
<1> QED BY <1>1

\* Every call has an instruction the driver knows.
LEMMA CallsKnown == \A op \in DOMAIN C!Calls : Known(C!Calls[op])
<1>1. \A x \in DOMAIN C!ResetArm : Known(C!ResetArm[x])
  BY DEF Known, Ids, C!W, C!ResetArm
<1>2. \A x \in DOMAIN C!Gets : Known(C!Gets[x])
  BY DEF Known, Ids, C!W, C!Gets
<1>3. \A x \in DOMAIN C!Sets : Known(C!Sets[x])
  BY DEF Known, Ids, C!W, C!Sets
<1>4. \A x \in DOMAIN C!DigitalTriggers : Known(C!DigitalTriggers[x])
  BY DEF Known, Ids, C!W, C!DigitalTriggers
<1>5. \A x \in DOMAIN C!RouteCalls : Known(C!RouteCalls[x])
  BY DEF Known, Ids, C!W, C!RouteCalls
<1>6. \A x \in DOMAIN C!Constraints : Known(C!Constraints[x])
  BY DEF Known, Ids, C!W, C!Constraints
<1>7. \A x \in DOMAIN C!Directions : Known(C!Directions[x])
  BY DEF Known, Ids, C!W, C!Directions
<1>8. \A x \in DOMAIN C!Plainly : Known(C!Plainly[x])
  BY DEF Known, Ids, C!W, C!Plainly
<1> DEFINE g1 == C!Over(C!ResetArm, C!Gets)
           g2 == C!Over(C!Sets, C!DigitalTriggers)
           g3 == C!Over(C!RouteCalls, C!Constraints)
           g4 == C!Over(C!Directions, C!Plainly)
<1>9. C!Calls = C!Over(C!Over(g1, g2), C!Over(g3, g4))
  BY DEF C!Calls
<1>10. /\ \A x \in DOMAIN g1 : Known(g1[x])
       /\ \A x \in DOMAIN g2 : Known(g2[x])
       /\ \A x \in DOMAIN g3 : Known(g3[x])
       /\ \A x \in DOMAIN g4 : Known(g4[x])
  BY <1>1, <1>2, <1>3, <1>4, <1>5, <1>6, <1>7, <1>8, OverKnown, Zenon
<1> HIDE DEF g1, g2, g3, g4
<1>11. /\ \A x \in DOMAIN C!Over(g1, g2) : Known(C!Over(g1, g2)[x])
       /\ \A x \in DOMAIN C!Over(g3, g4) : Known(C!Over(g3, g4)[x])
  BY <1>10, OverKnown, Zenon
<1> QED BY <1>9, <1>11, OverKnown, Zenon

\* A call as a program makes it.
Asks(d) ==
  /\ d.op \in DOMAIN C!Calls /\ d.args \in Seq(Word) /\ d.list \in BOOLEAN /\ d.n \in Nat
  /\ C!Calls[d.op].after <= Len(d.args)
  /\ d.op # "get_routes" => d.list = FALSE
  /\ d.op \in {"get_routes", "get_clock_source", "get_routing"} => d.args = << >>
  /\ d.op = "get_gate_source" => Len(d.args) = 1
  /\ d.op \in {"set_clock_source", "set_gate_source"} => Len(d.args) = 2
  /\ d.op = "set_routing" => Len(d.args) = 1
  /\ d.op = "test_route" => Len(d.args) = 2
  /\ d.op = "get_hardware_buffer_size" => d.args \in [1 .. 1 -> Nat]

\* The data of a call are words, and the first is its instruction.
LEMMA DataSeq ==
  ASSUME NEW d, Asks(d)
  PROVE  C!Data(d) \in Seq(Word) /\ C!Data(d)[1] = C!Calls[d.op].id /\ C!Calls[d.op].id \in Ids
<1> DEFINE w == C!Calls[d.op]
           s == SubSeq(d.args, 1, w.after)
           t == SubSeq(d.args, w.after + 1, Len(d.args))
           z == [k \in 1 .. (IF d.list THEN 2 * d.n ELSE 0) |-> 0]
<1>1. w.id \in Ids /\ w.after \in 0 .. 1 /\ w.fixed \in Seq(Word) /\ w.after <= Len(d.args) /\ d.args \in Seq(Word)
  BY CallsKnown, FixedWords DEF Asks, Known
<1>2. w.id \in Word
  BY <1>1 DEF Word
<1>3. z \in Seq(Word)
  <2>1. (IF d.list THEN 2 * d.n ELSE 0) \in Nat
    BY DEF Asks
  <2> QED BY <2>1 DEF Word
<1> HIDE DEF w
<1>4. s \in Seq(Word) /\ t \in Seq(Word)
  BY <1>1
<1>5. C!Data(d) = <<w.id>> \o s \o w.fixed \o t \o z
  BY DEF C!Data, w
<1> HIDE DEF s, t, z
<1> DEFINE a == <<w.id>>
<1>6. a \in Seq(Word) /\ a[1] = w.id /\ Len(a) > 0
  BY <1>2
<1> HIDE DEF a
<1> DEFINE b == a \o s
<1>7. b \in Seq(Word) /\ b[1] = w.id /\ Len(b) > 0
  BY <1>6, <1>4
<1> HIDE DEF b
<1> DEFINE e == b \o w.fixed
<1>8. e \in Seq(Word) /\ e[1] = w.id /\ Len(e) > 0
  BY <1>7, <1>1
<1> HIDE DEF e
<1> DEFINE f == e \o t
<1>9. f \in Seq(Word) /\ f[1] = w.id /\ Len(f) > 0
  BY <1>8, <1>4
<1> HIDE DEF f
<1>10. f \o z \in Seq(Word) /\ (f \o z)[1] = w.id
  BY <1>9, <1>3
<1> QED BY <1>5, <1>10, <1>1 DEF a, b, e, f, w

\* The instruction of each call.
LEMMA CallWords ==
  /\ C!Calls["reset"] = C!W("RESET", 0, << >>)
  /\ C!Calls["arm"] = C!W("ARM", 0, << >>)
  /\ C!Calls["disarm"] = C!W("DISARM", 0, << >>)
  /\ C!Calls["get_clock_source"] = C!W("GET_CLOCK_SRC", 0, <<0, 0>>)
  /\ C!Calls["get_gate_source"] = C!W("GET_GATE_SRC", 1, <<0>>)
  /\ C!Calls["get_routing"] = C!W("GET_ROUTING", 0, <<0>>)
  /\ C!Calls["get_hardware_buffer_size"] = C!W("GET_HARDWARE_BUFFER_SIZE", 1, <<0>>)
  /\ C!Calls["set_counter_mode"] = C!W("SET_COUNTER_MODE", 0, << >>)
  /\ C!Calls["set_clock_source"] = C!W("SET_CLOCK_SRC", 0, << >>)
  /\ C!Calls["set_filter"] = C!W("FILTER", 0, << >>)
  /\ C!Calls["set_gate_source"] = C!W("SET_GATE_SRC", 0, << >>)
  /\ C!Calls["set_other_source"] = C!W("SET_OTHER_SRC", 0, << >>)
  /\ C!Calls["set_routing"] = C!W("SET_ROUTING", 0, << >>)
  /\ C!Calls["digital_trigger_disable"] = C!W("DIGITAL_TRIG", 1, <<"DISABLE", 0, 0, 0>>)
  /\ C!Calls["digital_trigger_enable_edges"] = C!W("DIGITAL_TRIG", 1, <<"ENABLE_EDGES">>)
  /\ C!Calls["digital_trigger_enable_levels"] = C!W("DIGITAL_TRIG", 1, <<"ENABLE_LEVELS">>)
  /\ C!Calls["test_route"] = C!W("TEST_ROUTE", 0, << >>)
  /\ C!Calls["connect_route"] = C!W("CONNECT_ROUTE", 0, << >>)
  /\ C!Calls["disconnect_route"] = C!W("DISCONNECT_ROUTE", 0, << >>)
  /\ C!Calls["get_routes"] = C!W("GET_ROUTES", 0, <<0>>)
  /\ C!Calls["get_cmd_timing_constraints"] = C!W("GET_CMD_TIMING_CONSTRAINTS", 0, << >>)
  /\ C!Calls["dio_input"] = C!W("DIO_INPUT", 0, << >>)
  /\ C!Calls["dio_output"] = C!W("DIO_OUTPUT", 0, << >>)
  /\ C!Calls["dio_get_config"] = C!W("DIO_QUERY", 0, <<0>>)
  /\ C!Calls["internal_trigger"] = C!W("INTTRIG", 0, << >>)
  /\ C!Calls["data_write"] = C!W("WRITE", 0, << >>)
  /\ C!Calls["set_pwm_period"] = C!W("PWM_SET_PERIOD", 0, << >>)
  /\ C!Calls["get_pwm_period"] = C!W("PWM_GET_PERIOD", 0, <<0>>)
  /\ C!Calls["get_pwm_status"] = C!W("GET_PWM_STATUS", 0, <<0>>)
  BY ZenonT(30) DEF C!Calls, C!Over, C!ResetArm, C!Gets, C!Sets, C!DigitalTriggers, C!RouteCalls, C!Constraints, C!Directions, C!Plainly

\* The names of the calls.
LEMMA CallNames ==
  {"reset", "arm", "disarm", "get_clock_source", "get_gate_source", "get_routing", "get_hardware_buffer_size",
   "set_counter_mode", "set_clock_source", "set_filter", "set_gate_source", "set_other_source", "set_routing",
   "digital_trigger_disable", "digital_trigger_enable_edges", "digital_trigger_enable_levels", "test_route",
   "connect_route", "disconnect_route", "get_routes", "get_cmd_timing_constraints", "dio_input", "dio_output",
   "dio_get_config", "internal_trigger", "data_write", "set_pwm_period", "get_pwm_period", "get_pwm_status"}
   \subseteq DOMAIN C!Calls
<1>1. ASSUME NEW f, NEW g PROVE DOMAIN C!Over(f, g) = DOMAIN f \union DOMAIN g
  BY DEF C!Over
<1>2. /\ DOMAIN C!ResetArm = {"reset", "arm", "disarm"}
      /\ DOMAIN C!Gets = {"get_clock_source", "get_gate_source", "get_routing", "get_hardware_buffer_size"}
      /\ DOMAIN C!Constraints = {"get_cmd_timing_constraints"}
      /\ DOMAIN C!Directions = {"dio_input", "dio_output", "dio_get_config"}
  BY DEF C!ResetArm, C!Gets, C!Constraints, C!Directions
<1>3. DOMAIN C!Sets = {"set_counter_mode", "set_clock_source", "set_filter", "set_gate_source",
                       "set_other_source", "set_routing"}
  BY DEF C!Sets
<1>4. /\ DOMAIN C!DigitalTriggers = {"digital_trigger_disable", "digital_trigger_enable_edges",
                                     "digital_trigger_enable_levels"}
      /\ DOMAIN C!RouteCalls = {"test_route", "connect_route", "disconnect_route", "get_routes"}
  BY DEF C!DigitalTriggers, C!RouteCalls
<1>5. DOMAIN C!Plainly = {"internal_trigger", "data_write", "set_pwm_period", "get_pwm_period", "get_pwm_status"}
  BY DEF C!Plainly
<1>6. DOMAIN C!Calls =
        ((DOMAIN C!ResetArm \union DOMAIN C!Gets) \union (DOMAIN C!Sets \union DOMAIN C!DigitalTriggers))
          \union ((DOMAIN C!RouteCalls \union DOMAIN C!Constraints)
                    \union (DOMAIN C!Directions \union DOMAIN C!Plainly))
  <2>1. /\ DOMAIN C!Over(C!ResetArm, C!Gets) = DOMAIN C!ResetArm \union DOMAIN C!Gets
        /\ DOMAIN C!Over(C!Sets, C!DigitalTriggers) = DOMAIN C!Sets \union DOMAIN C!DigitalTriggers
        /\ DOMAIN C!Over(C!RouteCalls, C!Constraints) = DOMAIN C!RouteCalls \union DOMAIN C!Constraints
        /\ DOMAIN C!Over(C!Directions, C!Plainly) = DOMAIN C!Directions \union DOMAIN C!Plainly
    BY <1>1, Zenon
  <2>2. /\ DOMAIN C!Over(C!Over(C!ResetArm, C!Gets), C!Over(C!Sets, C!DigitalTriggers))
             = DOMAIN C!Over(C!ResetArm, C!Gets) \union DOMAIN C!Over(C!Sets, C!DigitalTriggers)
        /\ DOMAIN C!Over(C!Over(C!RouteCalls, C!Constraints), C!Over(C!Directions, C!Plainly))
             = DOMAIN C!Over(C!RouteCalls, C!Constraints) \union DOMAIN C!Over(C!Directions, C!Plainly)
    BY <1>1, Zenon
  <2>3. DOMAIN C!Calls = DOMAIN C!Over(C!Over(C!ResetArm, C!Gets), C!Over(C!Sets, C!DigitalTriggers))
          \union DOMAIN C!Over(C!Over(C!RouteCalls, C!Constraints), C!Over(C!Directions, C!Plainly))
    BY <1>1, Zenon DEF C!Calls
  <2> QED BY <2>1, <2>2, <2>3, Zenon
<1> QED BY <1>2, <1>3, <1>4, <1>5, <1>6

\* How many of the arguments stand before the constant words.
LEMMA CallAfter ==
  \A op \in DOMAIN C!Calls :
    C!Calls[op].after <= 1 /\ 0 <= C!Calls[op].after
  BY CallsKnown DEF Known

\* The calls without constant words in the middle.
LEMMA CallAfter0 ==
  \A op \in {"reset", "arm", "disarm", "get_clock_source", "get_routing", "set_counter_mode", "set_clock_source",
             "set_filter", "set_gate_source", "set_other_source", "set_routing", "test_route", "connect_route",
             "disconnect_route", "get_routes", "get_cmd_timing_constraints", "dio_input", "dio_output",
             "dio_get_config", "internal_trigger", "data_write", "set_pwm_period", "get_pwm_period", "get_pwm_status"} :
    C!Calls[op].after = 0
  BY CallWords DEF C!W

\* Arguments are numbers, and numbers are words.
LEMMA ValuesWords == Values \subseteq Nat /\ Values \subseteq Word /\ Nat \subseteq Word
  BY CallsAssumption DEF C!Parameters, Word

\* Lists of one, two and four arguments.
LEMMA ArgsWords ==
  /\ \A a \in [1 .. 1 -> Values] : a \in Seq(Word) /\ Len(a) = 1 /\ a \in [1 .. 1 -> Nat]
  /\ \A a \in [1 .. 2 -> Values] : a \in Seq(Word) /\ Len(a) = 2
  /\ \A a \in [1 .. 4 -> Values] : a \in Seq(Word) /\ Len(a) = 4
<1>1. ASSUME NEW a \in [1 .. 1 -> Values] PROVE a \in Seq(Word) /\ Len(a) = 1 /\ a \in [1 .. 1 -> Nat]
  <2>1. a \in [1 .. 1 -> Word]
    BY ValuesWords
  <2>2. a \in Seq(Word) /\ Len(a) = 1
    <3> DEFINE n == 1
    <3>1. n \in Nat /\ a \in [1 .. n -> Word]
      BY <2>1
    <3> HIDE DEF n
    <3>2. a \in Seq(Word) /\ Len(a) = n
      BY <3>1
    <3> QED BY <3>2 DEF n
  <2>3. a \in [1 .. 1 -> Nat]
    BY ValuesWords
  <2> QED BY <2>2, <2>3
<1>2. ASSUME NEW a \in [1 .. 2 -> Values] PROVE a \in Seq(Word) /\ Len(a) = 2
  <2>1. a \in [1 .. 2 -> Word]
    BY ValuesWords
  <2>2. a \in Seq(Word) /\ Len(a) = 2
    <3> DEFINE n == 2
    <3>1. n \in Nat /\ a \in [1 .. n -> Word]
      BY <2>1
    <3> HIDE DEF n
    <3>2. a \in Seq(Word) /\ Len(a) = n
      BY <3>1
    <3> QED BY <3>2 DEF n
  <2> QED BY <2>2
<1>3. ASSUME NEW a \in [1 .. 4 -> Values] PROVE a \in Seq(Word) /\ Len(a) = 4
  <2>1. a \in [1 .. 4 -> Word]
    BY ValuesWords
  <2>2. a \in Seq(Word) /\ Len(a) = 4
    <3> DEFINE n == 4
    <3>1. n \in Nat /\ a \in [1 .. n -> Word]
      BY <2>1
    <3> HIDE DEF n
    <3>2. a \in Seq(Word) /\ Len(a) = n
      BY <3>1
    <3> QED BY <3>2 DEF n
  <2> QED BY <2>2
<1> QED BY <1>1, <1>2, <1>3

\* Lists of channels.
ChannelLists == {<< >>, <<0>>, <<0, 1>>}

\* The calls of the arbitrary program are calls a program makes.
LEMMA OpsAsk == \A d \in I!Ops : Asks(d) /\ d.ch \in {0, 1}
<1> DEFINE names == DOMAIN C!Calls
<1>1. ASSUME NEW op \in {"reset", "disarm", "get_clock_source", "get_routing", "dio_input", "dio_output", "dio_get_config"}, NEW ch \in {0, 1}
      PROVE  Asks(I!Op(op, ch, << >>))
  <2>1. op \in DOMAIN C!Calls /\ C!Calls[op].after = 0
    BY CallNames, CallAfter0
  <2> QED BY <2>1 DEF Asks, I!Op
<1>2. ASSUME NEW op \in {"arm", "set_counter_mode", "set_filter", "set_routing", "get_gate_source"}, NEW ch \in {0, 1}, NEW a \in [1 .. 1 -> Values]
      PROVE  Asks(I!Op(op, ch, a))
  <2>1. op \in DOMAIN C!Calls /\ C!Calls[op].after <= 1
    BY CallNames, CallAfter
  <2>2. a \in Seq(Word) /\ Len(a) = 1
    BY ArgsWords
  <2> QED BY <2>1, <2>2 DEF Asks, I!Op
<1>3. ASSUME NEW op \in {"set_clock_source", "set_gate_source", "set_other_source"}, NEW ch \in {0, 1}, NEW a \in [1 .. 2 -> Values]
      PROVE  Asks(I!Op(op, ch, a))
  <2>1. op \in DOMAIN C!Calls /\ C!Calls[op].after <= 2
    BY CallNames, CallAfter0
  <2>2. a \in Seq(Word) /\ Len(a) = 2
    BY ArgsWords
  <2> QED BY <2>1, <2>2 DEF Asks, I!Op
<1>4. ASSUME NEW op \in {"get_hardware_buffer_size", "digital_trigger_disable", "internal_trigger"}, NEW a \in [1 .. 1 -> Values]
      PROVE  Asks(I!Op(op, 0, a))
  <2>1. op \in DOMAIN C!Calls /\ C!Calls[op].after <= 1
    BY CallNames, CallAfter
  <2>2. a \in Seq(Word) /\ Len(a) = 1 /\ a \in [1 .. 1 -> Nat]
    BY ArgsWords
  <2> QED BY <2>1, <2>2 DEF Asks, I!Op
<1>5. ASSUME NEW op \in {"digital_trigger_enable_edges", "digital_trigger_enable_levels"}, NEW a \in [1 .. 4 -> Values]
      PROVE  Asks(I!Op(op, 0, a))
  <2>1. op \in DOMAIN C!Calls /\ C!Calls[op].after <= 1 /\ 1 <= 4
    BY CallNames, CallAfter
  <2>2. a \in Seq(Word) /\ Len(a) = 4
    BY ArgsWords
  <2>3. C!Calls[op].after <= 4
    BY CallWords DEF C!W
  <2> QED BY <2>1, <2>2, <2>3 DEF Asks, I!Op
<1>6. ASSUME NEW op \in {"test_route", "connect_route", "disconnect_route"}, NEW a \in [1 .. 2 -> Values]
      PROVE  Asks(I!Op(op, 0, a))
  <2>1. op \in DOMAIN C!Calls /\ C!Calls[op].after <= 2
    BY CallNames, CallAfter0
  <2>2. a \in Seq(Word) /\ Len(a) = 2
    BY ArgsWords
  <2> QED BY <2>1, <2>2 DEF Asks, I!Op
<1>7. ASSUME NEW a \in [1 .. 2 -> Values], NEW l \in ChannelLists
      PROVE  Asks(I!Op("get_cmd_timing_constraints", 0, a \o <<Len(l)>> \o l))
  <2>1. "get_cmd_timing_constraints" \in DOMAIN C!Calls /\ C!Calls["get_cmd_timing_constraints"].after = 0
    BY CallNames, CallAfter0
  <2>2. a \in Seq(Word)
    BY ArgsWords
  <2>3. l \in Seq(Word) /\ Len(l) \in Nat
    <3>1. 0 \in Word /\ 1 \in Word
      BY DEF Word
    <3>2. ChannelLists \subseteq Seq(Word)
      <4>1. << >> \in Seq(Word) /\ <<0>> \in Seq(Word) /\ <<0, 1>> \in Seq(Word)
        BY <3>1
      <4> QED BY <4>1 DEF ChannelLists
    <3>3. l \in Seq(Word)
      BY <3>2
    <3> QED BY <3>3
  <2>4. <<Len(l)>> \in Seq(Word)
    BY <2>3, ValuesWords
  <2>5. a \o <<Len(l)>> \o l \in Seq(Word)
    BY <2>2, <2>3, <2>4
  <2>6. Len(a \o <<Len(l)>> \o l) >= 0
    BY <2>5
  <2> QED BY <2>1, <2>5, <2>6 DEF Asks, I!Op
<1>8. ASSUME NEW l \in BOOLEAN, NEW n \in 0 .. MaxSlots
      PROVE  Asks(I!GetRoutes(l, n))
  <2>1. "get_routes" \in DOMAIN C!Calls /\ C!Calls["get_routes"].after = 0
    BY CallNames, CallAfter0
  <2>2. MaxSlots \in Nat
    BY CallsAssumption DEF C!Parameters
  <2> QED BY <2>1, <2>2 DEF Asks, I!GetRoutes
<1>9. ASSUME NEW d \in I!Ops PROVE Asks(d) /\ d.ch \in {0, 1}
  <2> DEFINE O1 == {I!Op(op, ch, a) : op \in {"reset", "disarm", "get_clock_source", "get_routing", "dio_input", "dio_output", "dio_get_config"},
                                      ch \in {0, 1}, a \in {<< >>}}
             O2 == {I!Op(op, ch, a) : op \in {"arm", "set_counter_mode", "set_filter", "set_routing", "get_gate_source"},
                                      ch \in {0, 1}, a \in I!Args(1)}
             O3 == {I!Op(op, ch, a) : op \in {"set_clock_source", "set_gate_source", "set_other_source"}, ch \in {0, 1}, a \in I!Args(2)}
             O4 == {I!Op(op, 0, a) : op \in {"get_hardware_buffer_size", "digital_trigger_disable", "internal_trigger"}, a \in I!Args(1)}
             O5 == {I!Op(op, 0, a) : op \in {"digital_trigger_enable_edges", "digital_trigger_enable_levels"}, a \in I!Args(4)}
             O6 == {I!Op(op, 0, a) : op \in {"test_route", "connect_route", "disconnect_route"}, a \in I!Args(2)}
             O7 == {I!Op("get_cmd_timing_constraints", 0, a \o <<Len(l)>> \o l) : a \in I!Args(2), l \in {<< >>, <<0>>, <<0, 1>>}}
             O8 == {I!GetRoutes(l, n) : l \in BOOLEAN, n \in 0 .. MaxSlots}
  <2>1. I!Ops = UNION {O1, O2, O3, O4, O5, O6, O7, O8}
    BY DEF I!Ops
  <2>2. \A op, ch, a : I!Op(op, ch, a).ch = ch
    BY DEF I!Op
  <2>3. \A l, n : I!GetRoutes(l, n).ch = 0
    BY DEF I!GetRoutes
  <2>4. /\ \A e \in O1 : Asks(e) /\ e.ch \in {0, 1}
        /\ \A e \in O2 : Asks(e) /\ e.ch \in {0, 1}
        /\ \A e \in O3 : Asks(e) /\ e.ch \in {0, 1}
    BY <1>1, <1>2, <1>3, <2>2 DEF I!Args
  <2>5. /\ \A e \in O4 : Asks(e) /\ e.ch \in {0, 1}
        /\ \A e \in O5 : Asks(e) /\ e.ch \in {0, 1}
        /\ \A e \in O6 : Asks(e) /\ e.ch \in {0, 1}
    BY <1>4, <1>5, <1>6, <2>2 DEF I!Args
  <2>6. \A e \in O7 : Asks(e) /\ e.ch \in {0, 1}
    BY <1>7, <2>2 DEF I!Args, ChannelLists
  <2>7. \A e \in O8 : Asks(e) /\ e.ch \in {0, 1}
    <3>1. ASSUME NEW e \in O8 PROVE Asks(e) /\ e.ch \in {0, 1}
      <4>1. PICK l \in BOOLEAN, n \in 0 .. MaxSlots : e = I!GetRoutes(l, n)
        OBVIOUS
      <4> QED BY <4>1, <1>8, <2>3
    <3> QED BY <3>1
  <2> HIDE DEF O1, O2, O3, O4, O5, O6, O7, O8
  <2> QED BY <2>1, <2>4, <2>5, <2>6, <2>7
<1> QED BY <1>9

\* A setting is made of words, and nobody sets the size of a hardware buffer.
Clean(s) == \A k \in DOMAIN s : k[1] # "buffer" /\ s[k] \in Seq(Word) /\ s[k] # << >>

\* An instruction that is not a get or a reset sets something, and no buffer's size.
LEMMA KindsSet ==
  \A nm \in Ids \ (C!Gettable \union {"RESET"}) :
    /\ nm \in DOMAIN C!Layout /\ C!Layout[nm].value \in 2 .. 4 /\ C!Layout[nm].kind # "buffer"
  BY DEF Ids, C!Gettable, C!Layout, C!K

\* The effect of an instruction leaves the settings clean.
LEMMA EffectClean ==
  ASSUME NEW d, Asks(d), NEW s, Clean(s)
  PROVE  Clean(C!Effect(s, d.ch, C!Data(d)))
<1> DEFINE words == C!Data(d)
           nm == words[1]
           e == C!Effect(s, d.ch, C!Data(d))
<1>1. words \in Seq(Word) /\ nm \in Ids
  BY DataSeq
<1>2. CASE nm = "RESET"
  <2>1. e = [k \in {j \in DOMAIN s : j[2] # d.ch} |-> s[k]]
    BY <1>2 DEF C!Effect
  <2> QED BY <2>1 DEF Clean
<1>3. CASE nm \in C!Gettable /\ nm # "RESET"
  <2>1. e = s
    BY <1>3 DEF C!Effect
  <2> QED BY <2>1
<1>4. CASE nm \notin C!Gettable /\ nm # "RESET"
  <2>1. C!Layout[nm].value \in 2 .. 4 /\ C!Layout[nm].kind # "buffer"
    BY <1>1, <1>4, KindsSet
  <2>2. e = [k \in DOMAIN s \union {C!Key(d.ch, words)} |-> IF k = C!Key(d.ch, words) THEN C!Value(words) ELSE s[k]]
    BY <1>4 DEF C!Effect
  <2>3. C!Key(d.ch, words)[1] # "buffer"
    BY <2>1 DEF C!Key
  <2> DEFINE rest == SubSeq(words, C!Layout[nm].value, Len(words))
  <2>4. C!Value(words) = <<nm>> \o rest
    BY DEF C!Value
  <2> HIDE DEF words
  <2>5. rest \in Seq(Word)
    BY <1>1, <2>1
  <2>6. <<nm>> \in Seq(Word) /\ Len(<<nm>>) = 1
    BY <1>1 DEF Word
  <2> HIDE DEF rest
  <2>7. Len(<<nm>> \o rest) = 1 + Len(rest) /\ Len(rest) \in Nat
    BY <2>5, <2>6
  <2>8. C!Value(words) # << >> /\ C!Value(words) \in Seq(Word)
    BY <2>4, <2>5, <2>6, <2>7
  <2> QED BY <2>2, <2>3, <2>8 DEF Clean, words
<1> QED BY <1>2, <1>3, <1>4

\* The settings that can be read back.
SetCalls == {"set_clock_source", "set_gate_source", "set_routing"}
InPlace(d) == C!Key(d.ch, C!Data(d)) \in DOMAIN set /\ set[C!Key(d.ch, C!Data(d))] = C!Value(C!Data(d))

\* The instructions of the sets set, those of the gets get.
LEMMA SetsGets ==
  /\ \A op \in SetCalls : C!Calls[op].id \notin C!Gettable \union {"RESET"}
  /\ \A op \in DOMAIN C!Pairs \union DOMAIN C!Answers : C!Calls[op].id \in C!Gettable
  /\ DOMAIN C!Pairs = {"get_clock_source", "get_gate_source", "get_routing"}
  /\ DOMAIN C!Answers = {"get_hardware_buffer_size", "test_route", "get_routes"}
  BY CallWords DEF SetCalls, C!Pairs, C!Answers, C!Gettable, C!W

\* A set that takes effect is in place.
LEMMA InstructSets ==
  ASSUME Asks(o), C!Instruct, o' = o, o.op \in SetCalls
  PROVE  InPlace(o)'
<1>1. C!Data(o)[1] \notin C!Gettable \union {"RESET"}
  BY DataSeq, SetsGets
<1>2. set' = [k \in DOMAIN set \union {C!Key(o.ch, C!Data(o))} |-> IF k = C!Key(o.ch, C!Data(o)) THEN C!Value(C!Data(o)) ELSE set[k]]
  BY <1>1 DEF C!Instruct, C!Effect
<1>3. InPlace(o)' <=> C!Key(o.ch, C!Data(o)) \in DOMAIN set' /\ set'[C!Key(o.ch, C!Data(o))] = C!Value(C!Data(o))
  BY DEF InPlace
<1> QED BY <1>2, <1>3

\* A get changes nothing.
LEMMA InstructGets ==
  ASSUME Asks(o), C!Instruct, o.op \in DOMAIN C!Pairs \union DOMAIN C!Answers
  PROVE  set' = set
<1>1. C!Data(o)[1] \in C!Gettable /\ C!Data(o)[1] # "RESET"
  BY DataSeq, SetsGets DEF C!Gettable
<1> QED BY <1>1 DEF C!Instruct, C!Effect

\* Two sequences of words, one after the other.
LEMMA Joined ==
  ASSUME NEW s \in Seq(Word), NEW t \in Seq(Word), NEW p \in Nat, NEW q \in Nat, Len(s) = p, Len(t) = q
  PROVE  /\ s \o t \in Seq(Word) /\ Len(s \o t) = p + q
         /\ \A k \in 1 .. p : (s \o t)[k] = s[k]
         /\ \A k \in p + 1 .. p + q : (s \o t)[k] = t[k - p]
  OBVIOUS

\* A name before a sequence of words.
LEMMA Headed ==
  ASSUME NEW nm \in Word, NEW a \in Seq(Word), NEW m \in Nat, Len(a) = m
  PROVE  /\ <<nm>> \o a \in Seq(Word) /\ Len(<<nm>> \o a) = 1 + m /\ (<<nm>> \o a)[1] = nm
         /\ \A k \in 2 .. m + 1 : (<<nm>> \o a)[k] = a[k - 1]
<1>1. <<nm>> \in Seq(Word) /\ Len(<<nm>>) = 1 /\ <<nm>>[1] = nm
  OBVIOUS
<1> QED BY <1>1

\* The words after a sequence of words.
LEMMA WhatFollows ==
  ASSUME NEW h \in Seq(Word), NEW v \in Seq(Word), NEW m \in Nat, NEW n \in Nat, Len(h) = m + 1, Len(v) = n
  PROVE  SubSeq(h \o v, m + 2, m + n + 1) = v
<1> DEFINE r == h \o v
<1>1. r \in Seq(Word) /\ Len(r) = m + 1 + n /\ \A k \in m + 2 .. m + 1 + n : r[k] = v[k - (m + 1)]
  OBVIOUS
<1> HIDE DEF r
<1>2. SubSeq(r, m + 2, m + n + 1) \in Seq(Word) /\ Len(SubSeq(r, m + 2, m + n + 1)) = n
  BY <1>1
<1>3. ASSUME NEW k \in 1 .. n PROVE SubSeq(r, m + 2, m + n + 1)[k] = v[k]
  <2>1. SubSeq(r, m + 2, m + n + 1)[k] = r[k + (m + 1)] /\ k + (m + 1) \in m + 2 .. m + 1 + n
    BY <1>1
  <2>2. r[k + (m + 1)] = v[(k + (m + 1)) - (m + 1)] /\ (k + (m + 1)) - (m + 1) = k
    BY <2>1, <1>1
  <2> QED BY <2>1, <2>2
<1>4. SubSeq(r, m + 2, m + n + 1) = v
  BY <1>2, <1>3, SeqEqual
<1> QED BY <1>4 DEF r

\* What a get stores after the set of the same.
LEMMA ReadsBack ==
  ASSUME NEW d, Asks(d), d.list = FALSE, NEW e, Asks(e), e.list = FALSE, InPlace(e),
         NEW nmG \in Ids \ {"RESET", "GET_ROUTES", "GET_CMD_TIMING_CONSTRAINTS", "TEST_ROUTE", "DIO_QUERY"},
         NEW nmS \in Ids, NEW fixed \in Seq(Word),
         C!Calls[d.op] = C!W(nmG, Len(d.args), fixed), C!Calls[e.op] = C!W(nmS, 0, << >>),
         Len(e.args) = Len(d.args) + Len(fixed), d.args = SubSeq(e.args, 1, Len(d.args)), d.ch = e.ch,
         C!Layout[nmG].value = Len(d.args) + 2, C!Layout[nmS].value = Len(d.args) + 2,
         C!Layout[nmG].kind = C!Layout[nmS].kind
  PROVE  SubSeq(C!Reply(set, d.ch, C!Data(d)), Len(d.args) + 2, Len(d.args) + Len(fixed) + 1)
           = SubSeq(e.args, Len(d.args) + 1, Len(e.args))
<1> DEFINE words == C!Data(d)
           v == SubSeq(e.args, Len(d.args) + 1, Len(e.args))
<1>0. d.args \in Seq(Word) /\ e.args \in Seq(Word) /\ Len(d.args) \in 0 .. Len(e.args)
  BY DEF Asks
<1> DEFINE a == d.args
<1>1. PICK m \in Nat, n \in Nat : Len(d.args) = m /\ Len(fixed) = n /\ Len(e.args) = m + n
  BY <1>0
<1>2. words = <<nmG>> \o a \o fixed
  BY GetData, <1>0
<1>3. C!Key(e.ch, C!Data(e)) = <<C!Layout[nmS].kind, e.ch, a>> /\ Tail(C!Value(C!Data(e))) = v
  <2> DEFINE mm == Len(d.args)
  <2>1. mm \in 0 .. Len(e.args) /\ C!Layout[nmS].value = mm + 2 /\ e.args \in Seq(Word)
    BY <1>0
  <2>2. SubSeq(e.args, 1, mm) = a /\ SubSeq(e.args, mm + 1, Len(e.args)) = v
    OBVIOUS
  <2> HIDE DEF mm
  <2>3. /\ C!Key(e.ch, C!Data(e)) = <<C!Layout[nmS].kind, e.ch, SubSeq(e.args, 1, mm)>>
        /\ Tail(C!Value(C!Data(e))) = SubSeq(e.args, mm + 1, Len(e.args))
    BY <2>1, Says
  <2> QED BY <2>2, <2>3
<1>4. v \in Seq(Word) /\ Len(v) = n
  BY <1>0, <1>1
<1>5. a \in Seq(Word) /\ Len(a) = m /\ nmG \in Word
  BY <1>0, <1>1 DEF Word
<1> HIDE DEF words, v, a
<1> DEFINE h == <<nmG>> \o a
<1>6. /\ h \in Seq(Word) /\ Len(h) = 1 + m /\ h[1] = nmG /\ \A k \in 2 .. m + 1 : h[k] = a[k - 1]
  BY <1>1, <1>5, Headed
<1> HIDE DEF h
<1>7. words \in Seq(Word) /\ Len(words) = 1 + m + n /\ \A k \in 1 .. m + 1 : words[k] = h[k]
  <2> DEFINE p == 1 + m
  <2>1. p \in Nat /\ Len(h) = p
    BY <1>6
  <2> HIDE DEF p
  <2>2. h \o fixed \in Seq(Word) /\ Len(h \o fixed) = p + n /\ \A k \in 1 .. p : (h \o fixed)[k] = h[k]
    BY <1>1, <1>6, <2>1, Joined
  <2>3. words = h \o fixed
    BY <1>2 DEF h
  <2> QED BY <2>2, <2>3 DEF p
<1>8. words[1] = nmG
  BY <1>6, <1>7
<1>9. SubSeq(words, 2, m + 1) = a
  <2>1. SubSeq(words, 2, m + 1) \in Seq(Word) /\ Len(SubSeq(words, 2, m + 1)) = m
    BY <1>7, <1>1
  <2>2. ASSUME NEW k \in 1 .. m PROVE SubSeq(words, 2, m + 1)[k] = a[k]
    <3>1. SubSeq(words, 2, m + 1)[k] = words[k + 1] /\ k + 1 \in 2 .. m + 1 /\ k + 1 \in 1 .. m + 1 /\ (k + 1) - 1 = k
      BY <1>7, <1>1
    <3>2. words[k + 1] = h[k + 1] /\ h[k + 1] = a[(k + 1) - 1]
      BY <3>1, <1>7, <1>6
    <3> QED BY <3>1, <3>2
  <2> QED BY <2>1, <2>2, <1>5, SeqEqual
<1>10. SubSeq(words, 1, m + 1) = h
  <2>1. SubSeq(words, 1, m + 1) \in Seq(Word) /\ Len(SubSeq(words, 1, m + 1)) = m + 1
    BY <1>7, <1>1
  <2>2. ASSUME NEW k \in 1 .. m + 1 PROVE SubSeq(words, 1, m + 1)[k] = h[k]
    <3>1. SubSeq(words, 1, m + 1)[k] = words[k]
      BY <1>7, <1>1
    <3> QED BY <3>1, <1>7
  <2>3. Len(h) = m + 1
    BY <1>6
  <2> QED BY <2>1, <2>2, <2>3, <1>6, SeqEqual
<1>11. C!Key(d.ch, words) = <<C!Layout[nmS].kind, e.ch, a>>
  <2>1. C!Layout[nmG].value - 1 = m + 1
    BY <1>1
  <2> QED BY <1>8, <1>9, <2>1 DEF C!Key
<1>12. Tail(C!Setting(set, C!Key(d.ch, words))) = v
  BY <1>3, <1>11 DEF InPlace, C!Setting
<1>13. C!Reply(set, d.ch, words) = h \o v
  <2>1. C!Layout[nmG].value - 1 = m + 1
    BY <1>1
  <2>2. C!Reply(set, d.ch, words) = SubSeq(words, 1, C!Layout[words[1]].value - 1) \o Tail(C!Setting(set, C!Key(d.ch, words)))
    BY <1>8 DEF C!Reply
  <2> QED BY <2>1, <2>2, <1>8, <1>10, <1>12
<1>14. SubSeq(h \o v, m + 2, m + n + 1) = v
  <2>1. m \in Nat /\ n \in Nat /\ h \in Seq(Word) /\ v \in Seq(Word) /\ Len(h) = m + 1 /\ Len(v) = n
    BY <1>1, <1>4, <1>6
  <2> QED BY ONLY <2>1, WhatFollows
<1> QED BY <1>1, <1>13, <1>14 DEF v, words

\* InsnConfig and the demos, which extend it, have the same calls,
LEMMA SameCalls == I!Calls = C!Calls
  BY DEF I!Calls, C!Calls, I!Over, C!Over, I!ResetArm, C!ResetArm, I!Gets, C!Gets, I!Sets, C!Sets,
         I!DigitalTriggers, C!DigitalTriggers, I!RouteCalls, C!RouteCalls, I!Constraints, C!Constraints,
         I!Directions, C!Directions, I!Plainly, C!Plainly, I!W, C!W

\* the same data,
LEMMA SameData == \A d : I!Data(d) = C!Data(d)
  BY SameCalls DEF I!Data, C!Data

\* the same answers of the driver,
LEMMA SameReply == \A s, ch, d : I!Reply(s, ch, d) = C!Reply(s, ch, d)
  BY DEF I!Reply, C!Reply, I!Setting, C!Setting, I!Default, C!Default, I!Key, C!Key, I!Layout, C!Layout, I!K, C!K, I!RoutesInto, C!RoutesInto

\* the same effects,
LEMMA SameEffect == \A s, ch, d : I!Effect(s, ch, d) = C!Effect(s, ch, d)
  BY DEF I!Effect, C!Effect, I!Key, C!Key, I!Value, C!Value, I!Layout, C!Layout, I!K, C!K, I!Gettable, C!Gettable

\* and the same actions; they differ in the channels and the programs.
LEMMA SameLibrary ==
  /\ I!Answered <=> C!Answered
  /\ I!OtherSource <=> C!OtherSource
  /\ I!Failed <=> C!Failed
  /\ I!Return <=> C!Return
  /\ \A d : I!Call(d) <=> C!Call(d)
<1>1. I!Instruct <=> C!Instruct
  BY SameData, SameEffect DEF I!Instruct, C!Instruct, I!Works, C!Works
<1>2. \A d : I!Stored(d) = C!Stored(d)
  BY DEF I!Stored, C!Stored, I!RoutesStored, C!RoutesStored, I!Stores, C!Stores
<1>3. I!Answered <=> C!Answered
  BY <1>1, <1>2, SameData, SameReply DEF I!Answered, C!Answered, I!Answers, C!Answers
<1>4. I!OtherSource <=> C!OtherSource
  BY <1>1 DEF I!OtherSource, C!OtherSource, I!Inside, C!Inside
<1>5. I!Failed <=> C!Failed
  BY DEF I!Failed, C!Failed, I!Inside, C!Inside, I!Refused, C!Refused
<1>6. I!Return <=> C!Return
  BY DEF I!Return, C!Return, I!Nobody, C!Nobody, I!NoCall, C!NoCall, I!Op, C!Op, I!device, C!device
<1>7. \A d : I!Call(d) <=> C!Call(d)
  BY DEF I!Call, C!Call, I!device, C!device
<1> QED BY <1>3, <1>4, <1>5, <1>6, <1>7

\* The call that was answered last is in place as long as nobody came between.
Kept ==
  /\ at \in {"idle", "in"} /\ prev.ret = 0 /\ prev.o.op \in SetCalls => Asks(prev.o) /\ InPlace(prev.o)
  /\ at = "done" /\ ret = 0 /\ o.op \in SetCalls => InPlace(o)

\* Where the call is, and what it has done.
Placed ==
  /\ ioctls \in {"insn", "insnlist", "trig"} /\ at \in {"idle", "in", "again", "done"}
  /\ others \in 0 .. 1 /\ ret \in Int /\ ret >= -1
  /\ at # "idle" => Asks(o)
  /\ applied \in 0 .. 2 /\ (at \in {"idle", "in"} => applied = 0) /\ (at = "again" => applied = 1)
  /\ at # "done" => ret = 0
  /\ at = "again" => o.op = "set_other_source"

ConfigInv == Placed /\ Kept /\ Clean(set) /\ C!AnswerTellsEffect /\ C!GetsBack /\ C!RoutesListed

\* A program makes a call.
LEMMA CallKeeps ==
  ASSUME ConfigInv, NEW d, Asks(d), C!Call(d)
  PROVE  ConfigInv'
<1>1. /\ at = "idle" /\ at' = "in" /\ o' = d /\ ret' = 0 /\ applied' = 0 /\ others' = 0
      /\ ioctls' = ioctls /\ set' = set /\ prev' = prev
  BY DEF C!Call, C!device
<1>2. Placed'
  BY <1>1 DEF ConfigInv, Placed
<1>3. Kept'
  BY <1>1 DEF ConfigInv, Kept, InPlace
<1>4. Clean(set)' /\ C!AnswerTellsEffect' /\ C!GetsBack' /\ C!RoutesListed'
  BY <1>1 DEF ConfigInv, Clean, C!AnswerTellsEffect, C!GetsBack, C!RoutesListed
<1> QED BY <1>2, <1>3, <1>4 DEF ConfigInv

\* A call fails.
LEMMA FailedKeeps ==
  ASSUME ConfigInv, C!Failed
  PROVE  ConfigInv'
<1>1. /\ at \in {"in", "again"} /\ at' = "done" /\ ret' = -1 /\ set' = set /\ applied' = applied
      /\ ioctls' = ioctls /\ o' = o /\ prev' = prev /\ others' = others
  BY DEF C!Failed, C!Inside, C!Refused
<1>2. Placed'
  BY <1>1 DEF ConfigInv, Placed
<1>3. Kept'
  BY <1>1 DEF ConfigInv, Kept
<1>4. C!AnswerTellsEffect'
  BY <1>1 DEF ConfigInv, Placed, C!AnswerTellsEffect
<1>5. Clean(set)' /\ C!GetsBack' /\ C!RoutesListed'
  BY <1>1 DEF ConfigInv, Clean, C!GetsBack, C!RoutesListed
<1> QED BY <1>2, <1>3, <1>4, <1>5 DEF ConfigInv

\* A call returns.
LEMMA ReturnKeeps ==
  ASSUME ConfigInv, C!Return
  PROVE  ConfigInv'
<1>1. /\ at = "done" /\ at' = "idle" /\ ret' = 0 /\ applied' = 0 /\ set' = set /\ ioctls' = ioctls /\ others' = others
      /\ prev' = IF others = 0 THEN [o |-> o, ret |-> ret] ELSE C!Nobody
  BY DEF C!Return, C!device
<1>2. Placed'
  BY <1>1 DEF ConfigInv, Placed
<1>3. Kept'
  <2>1. C!Nobody.o.op \notin SetCalls
    BY DEF C!Nobody, C!NoCall, C!Op, SetCalls
  <2>2. CASE others = 0
    <3>1. prev' = [o |-> o, ret |-> ret]
      BY <1>1, <2>2
    <3>2. prev'.o = o /\ prev'.ret = ret
      BY <3>1
    <3>3. ret = 0 /\ o.op \in SetCalls => Asks(o) /\ InPlace(o)
      BY <1>1 DEF ConfigInv, Kept, Placed
    <3> QED BY <1>1, <3>2, <3>3 DEF Kept, InPlace
  <2>3. CASE others # 0
    BY <1>1, <2>1, <2>3 DEF Kept
  <2> QED BY <2>2, <2>3
<1>4. Clean(set)' /\ C!AnswerTellsEffect' /\ C!GetsBack' /\ C!RoutesListed'
  BY <1>1 DEF ConfigInv, Clean, C!AnswerTellsEffect, C!GetsBack, C!RoutesListed
<1> QED BY <1>2, <1>3, <1>4 DEF ConfigInv

\* comedi_set_other_source issues its instruction once more.
LEMMA OtherSourceKeeps ==
  ASSUME ConfigInv, C!OtherSource
  PROVE  ConfigInv'
<1>1. /\ at \in {"in", "again"} /\ o.op = "set_other_source" /\ C!Instruct /\ applied' = applied + 1
      /\ at' = (IF at = "in" THEN "again" ELSE "done")
      /\ ioctls' = ioctls /\ o' = o /\ ret' = ret /\ prev' = prev /\ others' = others
  BY DEF C!OtherSource, C!Inside, C!Instruct
<1>2. Placed'
  BY <1>1 DEF ConfigInv, Placed
<1>3. Clean(set)'
  <2>1. set' = C!Effect(set, o.ch, C!Data(o)) /\ Asks(o)
    BY <1>1 DEF C!Instruct, ConfigInv, Placed
  <2>2. Clean(C!Effect(set, o.ch, C!Data(o)))
    BY <2>1, EffectClean DEF ConfigInv
  <2> QED BY <2>1, <2>2 DEF Clean
<1>4. Kept'
  BY <1>1 DEF Kept, SetCalls
<1>5. C!AnswerTellsEffect'
  BY <1>1 DEF ConfigInv, Placed, C!AnswerTellsEffect
<1>6. C!GetsBack' /\ C!RoutesListed'
  BY <1>1 DEF C!GetsBack, C!RoutesListed, C!Pairs
<1> QED BY <1>2, <1>3, <1>4, <1>5, <1>6 DEF ConfigInv

\* Another process makes a call.
LEMMA OtherSetsKeeps ==
  ASSUME ConfigInv, I!OtherSets
  PROVE  ConfigInv'
<1>1. PICK d \in I!Ops : set' = I!Effect(set, d.ch, I!Data(d))
  BY DEF I!OtherSets
<1>2. /\ at \in {"in", "again"} /\ others' = 1 /\ prev' = C!Nobody
      /\ ioctls' = ioctls /\ at' = at /\ o' = o /\ ret' = ret /\ applied' = applied
  BY DEF I!OtherSets, I!Inside, I!Nobody, C!Nobody, I!NoCall, C!NoCall, I!Op, C!Op
<1>3. Clean(set)'
  <2>1. set' = C!Effect(set, d.ch, C!Data(d)) /\ Asks(d)
    BY <1>1, SameEffect, SameData, OpsAsk
  <2>2. Clean(C!Effect(set, d.ch, C!Data(d)))
    BY <2>1, EffectClean DEF ConfigInv
  <2> QED BY <2>1, <2>2 DEF Clean
<1>4. Placed'
  BY <1>2 DEF ConfigInv, Placed
<1>5. Kept'
  BY <1>2 DEF Kept, C!Nobody, C!NoCall, C!Op, SetCalls
<1>6. C!AnswerTellsEffect' /\ C!GetsBack' /\ C!RoutesListed'
  BY <1>2 DEF C!AnswerTellsEffect, C!GetsBack, C!RoutesListed
<1> QED BY <1>3, <1>4, <1>5, <1>6 DEF ConfigInv

\* Words after two words.
LEMMA AfterTwo ==
  ASSUME NEW h \in Seq(Word), Len(h) = 2, NEW s \in Seq(Word), NEW m \in Nat, Len(s) = m
  PROVE  /\ h \o s \in Seq(Word) /\ Len(h \o s) = 2 + m /\ (h \o s)[1] = h[1] /\ (h \o s)[2] = h[2]
         /\ m >= 1 => (h \o s)[3] = s[1]
<1> DEFINE p == 2
           j == h \o s
<1>1. p \in Nat /\ Len(h) = p
  OBVIOUS
<1> HIDE DEF p
<1>2. j \in Seq(Word)
  BY <1>1
<1>3. Len(j) = p + m
  BY <1>1
<1>4. \A k \in 1 .. p : j[k] = h[k]
  BY <1>1
<1>5. \A k \in p + 1 .. p + m : j[k] = s[k - p]
  BY <1>1, SMTT(30)
<1> HIDE DEF j
<1>6. j[1] = h[1] /\ j[2] = h[2] /\ Len(j) = 2 + m
  BY <1>3, <1>4 DEF p
<1>7. m >= 1 => j[3] = s[1]
  BY <1>5 DEF p
<1> QED BY <1>2, <1>6, <1>7 DEF j

\* Three words with the argument in the middle.
LEMMA BufferData ==
  ASSUME NEW d, Asks(d), d.op = "get_hardware_buffer_size"
  PROVE  /\ C!Data(d) \in Seq(Word) /\ Len(C!Data(d)) = 3 /\ C!Data(d)[1] = "GET_HARDWARE_BUFFER_SIZE"
         /\ C!Data(d)[2] \in Nat
<1>1. d.args \in [1 .. 1 -> Nat] /\ d.list = FALSE /\ d.args \in Seq(Word)
  BY DEF Asks
<1>2. Len(d.args) = 1 /\ d.args[1] \in Nat
  BY <1>1
<1> DEFINE nm == "GET_HARDWARE_BUFFER_SIZE"
<1>3. C!Calls[d.op] = C!W(nm, Len(d.args), <<0>>) /\ nm \in Ids /\ nm \in Word
  BY <1>2, CallWords DEF Ids, Word
<1>4. C!Data(d) = <<nm>> \o d.args \o <<0>>
  BY <1>1, <1>3, GetData, FixedWords
<1> HIDE DEF nm
<1> DEFINE h == <<nm>> \o d.args
<1>5. h \in Seq(Word) /\ Len(h) = 1 + 1 /\ h[1] = nm /\ \A k \in 2 .. 1 + 1 : h[k] = d.args[k - 1]
  BY <1>1, <1>2, <1>3, Headed
<1>6. h[2] = d.args[1] /\ Len(h) = 2
  BY <1>5
<1> HIDE DEF h
<1>7. h \o <<0>> \in Seq(Word) /\ Len(h \o <<0>>) = 3 /\ (h \o <<0>>)[1] = nm /\ (h \o <<0>>)[2] = d.args[1]
  <2> DEFINE s == <<0>>
             m == 1
  <2>1. s \in Seq(Word) /\ Len(s) = m /\ m \in Nat
    BY FixedWords
  <2> HIDE DEF s, m
  <2>2. h \o s \in Seq(Word) /\ Len(h \o s) = 2 + m /\ (h \o s)[1] = h[1] /\ (h \o s)[2] = h[2]
    BY <1>5, <1>6, <2>1, AfterTwo
  <2> QED BY <2>2, <1>5, <1>6 DEF s, m
<1> QED BY <1>4, <1>7, <1>2 DEF h, nm

\* Two words and room for the routes.
LEMMA RoutesData ==
  ASSUME NEW d, Asks(d), d.op = "get_routes"
  PROVE  /\ C!Data(d) \in Seq(Word) /\ C!Data(d)[1] = "GET_ROUTES"
         /\ Len(C!Data(d)) = 2 + (IF d.list THEN 2 * d.n ELSE 0)
<1> DEFINE m == IF d.list THEN 2 * d.n ELSE 0
           z == [k \in 1 .. m |-> 0]
           nm == "GET_ROUTES"
<1>1. d.args = << >> /\ d.list \in BOOLEAN /\ d.n \in Nat
  BY DEF Asks
<1>2. m \in Nat
  BY <1>1
<1> HIDE DEF m
<1>3. z \in Seq(Word) /\ Len(z) = m
  BY <1>2 DEF Word
<1>4. C!Calls[d.op].id = nm /\ C!Calls[d.op].after = 0 /\ C!Calls[d.op].fixed = <<0>>
  BY CallWords DEF C!W
<1>5. C!Data(d) = <<nm>> \o SubSeq(<< >>, 1, 0) \o <<0>> \o SubSeq(<< >>, 0 + 1, Len(<< >>)) \o z
  BY <1>1, <1>4 DEF C!Data, m
<1>6. << >> \in Seq(Word) /\ SubSeq(<< >>, 1, 0) = << >> /\ SubSeq(<< >>, 0 + 1, Len(<< >>)) = << >>
  BY FixedWords, EmptyParts
<1> HIDE DEF z
<1>7. nm \in Word /\ <<nm>> \in Seq(Word)
  BY DEF Ids, Word
<1>8. C!Data(d) = <<nm>> \o << >> \o <<0>> \o << >> \o z
  BY <1>5, <1>6
<1>9. <<nm>> \o << >> = <<nm>>
  BY <1>7, EmptyParts
<1> DEFINE h == <<nm>> \o <<0>>
<1>10. h \in Seq(Word) /\ Len(h) = 2 /\ h[1] = nm
  BY <1>7, FixedWords
<1>11. h \o << >> = h
  BY <1>10, EmptyParts
<1>12. C!Data(d) = h \o z
  BY <1>8, <1>9, <1>11
<1> HIDE DEF h
<1>13. h \o z \in Seq(Word) /\ Len(h \o z) = 2 + m /\ (h \o z)[1] = nm
  BY <1>2, <1>3, <1>10, AfterTwo
<1> QED BY <1>12, <1>13 DEF m

\* The room for n routes, and for none.
LEMMA Halves == \A n \in Nat : ((2 + 2 * n) - 2) \div 2 = n /\ ((2 + 0) - 2) \div 2 = 0
  OBVIOUS

\* The device's routes.
LEMMA RoutesKnown == Routes \in Seq(Nat \X Nat) /\ Len(Routes) \in Nat
  BY CallsAssumption DEF C!Parameters

\* The driver's answer is not -1.
LEMMA AnswerIs ==
  ASSUME Asks(o), Clean(set), o.op \in DOMAIN C!Answers
  PROVE  C!Reply(set, o.ch, C!Data(o))[C!Answers[o.op]] \in Nat
<1>1. o.op \in {"get_hardware_buffer_size", "test_route", "get_routes"}
  BY SetsGets
<1>2. CASE o.op = "get_hardware_buffer_size"
  <2> DEFINE words == C!Data(o)
             key == C!Key(o.ch, words)
  <2>1. words \in Seq(Word) /\ Len(words) = 3 /\ words[1] = "GET_HARDWARE_BUFFER_SIZE" /\ words[2] \in Nat
    BY <1>2, BufferData
  <2>2. C!Layout["GET_HARDWARE_BUFFER_SIZE"].value = 3 /\ C!Layout["GET_HARDWARE_BUFFER_SIZE"].kind = "buffer"
    BY DEF C!Layout, C!K
  <2> HIDE DEF words
  <2>3. key = <<"buffer", o.ch, SubSeq(words, 2, 2)>>
    BY <2>1, <2>2 DEF C!Key
  <2>4. SubSeq(words, 2, 2)[1] = words[2]
    BY <2>1
  <2>5. C!Setting(set, key) = <<"NONE", 100 + words[2]>>
    <3>1. key \notin DOMAIN set
      BY <2>3 DEF Clean
    <3> QED BY <3>1, <2>3, <2>4 DEF C!Setting, C!Default
  <2> HIDE DEF key
  <2> DEFINE s == Tail(C!Setting(set, key))
             h == SubSeq(words, 1, 2)
  <2>6. s \in Seq(Word) /\ Len(s) = 1 /\ s[1] = 100 + words[2]
    <3>1. s = <<100 + words[2]>>
      BY <2>5, <2>1
    <3>2. 100 + words[2] \in Word
      BY <2>1 DEF Word
    <3> HIDE DEF s
    <3> QED BY <3>1, <3>2
  <2> HIDE DEF s
  <2>7. h \in Seq(Word) /\ Len(h) = 2
    BY <2>1, SMTT(30)
  <2>8. C!Reply(set, o.ch, words) = h \o s
    BY <2>1, <2>2 DEF C!Reply, key, s
  <2> HIDE DEF h
  <2>9. (h \o s)[3] = 100 + words[2]
    <3> DEFINE m == 1
    <3>1. m \in Nat /\ Len(s) = m /\ m >= 1
      BY <2>6
    <3> HIDE DEF m
    <3> QED BY <2>6, <2>7, <3>1, AfterTwo
  <2>10. C!Answers[o.op] = 3
    BY <1>2 DEF C!Answers
  <2>11. 100 + words[2] \in Nat
    BY <2>1
  <2> QED BY <2>8, <2>9, <2>10, <2>11 DEF words
<1>3. CASE o.op = "test_route"
  <2>1. C!Data(o)[1] = "TEST_ROUTE" /\ C!Data(o) \in Seq(Word)
    BY <1>3, DataSeq, CallWords DEF C!W
  <2>2. C!Data(o) = <<"TEST_ROUTE">> \o o.args /\ o.args \in Seq(Word)
    BY <1>3, PlainData, CallWords DEF Asks, Ids
  <2>3. "TEST_ROUTE" \in Word
    BY DEF Word, Ids
  <2>4. Len(C!Data(o)) = 1 + Len(o.args)
    BY <2>2, <2>3, Headed
  <2>5. Len(C!Data(o)) >= 1
    BY <2>2, <2>4
  <2>6. C!Reply(set, o.ch, C!Data(o)) = [C!Data(o) EXCEPT ![1] = IF C!Setting(set, C!Key(o.ch, C!Data(o)))[1] = "CONNECT_ROUTE" THEN 1 ELSE 0]
    BY <2>1 DEF C!Reply
  <2> QED BY <1>3, <2>1, <2>5, <2>6 DEF C!Answers
<1>4. CASE o.op = "get_routes"
  <2> DEFINE words == C!Data(o)
  <2>1. words \in Seq(Word) /\ words[1] = "GET_ROUTES" /\ Len(words) >= 2
    <3>1. o.list \in BOOLEAN /\ o.n \in Nat
      BY DEF Asks
    <3>2. words \in Seq(Word) /\ words[1] = "GET_ROUTES" /\ Len(words) = 2 + (IF o.list THEN 2 * o.n ELSE 0)
      BY <1>4, RoutesData
    <3> HIDE DEF words
    <3> QED BY <3>1, <3>2
  <2>2. C!Reply(set, o.ch, words) = C!RoutesInto(words)
    BY <2>1 DEF C!Reply
  <2>3. (Len(words) - 2) \div 2 \in Nat
    BY <2>1
  <2> HIDE DEF words
  <2>4. C!RoutesInto(words)[2] \in Nat
    BY <2>1, <2>3, RoutesKnown DEF C!RoutesInto
  <2> QED BY <1>4, <2>2, <2>4 DEF C!Answers, words
<1> QED BY <1>1, <1>2, <1>3, <1>4

\* The words where a route is.
LEMMA RouteWords ==
  ASSUME NEW k \in Nat
  PROVE  /\ ((1 + 2 * k) - 1) \div 2 = k /\ 2 - ((1 + 2 * k) % 2) = 1
         /\ ((2 + 2 * k) - 1) \div 2 = k /\ 2 - ((2 + 2 * k) % 2) = 2
  OBVIOUS

\* The routes a caller's list receives are the first of the device's.
LEMMA RoutesAnswered ==
  ASSUME Asks(o), o.op = "get_routes", o.list
  PROVE  LET words == C!RoutesInto(C!Data(o))
             st == C!RoutesStored(words)
         IN  /\ Len(st) \in Nat
             /\ st = SubSeq(Routes, 1, Len(st))
             /\ IF o.n = 0 THEN words[2] = Len(Routes)
                ELSE Len(st) = words[2] /\ (words[2] = o.n \/ words[2] = Len(Routes))
<1> DEFINE d == C!Data(o)
           words == C!RoutesInto(d)
           st == C!RoutesStored(words)
<1>1. PICK n \in Nat, r \in Nat : o.n = n /\ Len(Routes) = r
  BY RoutesKnown DEF Asks
<1>2. d \in Seq(Word) /\ Len(d) = 2 + 2 * n
  BY <1>1, RoutesData
<1> HIDE DEF d
<1>3. (Len(d) - 2) \div 2 = n
  BY <1>2, <1>1, Halves
<1> DEFINE p == IF n < r THEN n ELSE r
<1>4. p \in Nat /\ p <= n /\ p <= r
  BY <1>1
<1>5. words = [w \in 1 .. 2 + 2 * n |->
                 IF w = 2 THEN (IF n = 0 THEN r ELSE p)
                 ELSE IF w \in 3 .. 2 + 2 * p THEN Routes[(w - 1) \div 2][2 - (w % 2)] ELSE d[w]]
  BY <1>1, <1>2, <1>3 DEF C!RoutesInto
<1> HIDE DEF words, p
<1>6. words[2] = (IF n = 0 THEN r ELSE p)
  BY <1>1, <1>5
<1>8. Len(words) = 2 + 2 * n
  BY <1>5, <1>1
<1> DEFINE q == IF n = 0 THEN 0 ELSE p
<1>9. q \in Nat /\ q <= n /\ q <= r /\ (n # 0 => q = p)
  BY <1>1, <1>4
<1>10. (IF n < words[2] THEN n ELSE words[2]) = q
  BY <1>1, <1>4, <1>6
<1> HIDE DEF q
<1>11. st = [k \in 1 .. q |-> IF 2 + 2 * k <= Len(words) THEN <<words[1 + 2 * k], words[2 + 2 * k]>> ELSE << >>]
  BY <1>1, <1>10 DEF C!RoutesStored
<1>12. ASSUME NEW k \in 1 .. q PROVE st[k] = Routes[k] /\ Routes[k] \in Nat \X Nat
  <2>1. k \in Nat /\ k >= 1 /\ k <= n /\ k <= p /\ k <= r /\ n # 0
    BY <1>9, <1>1, <1>4
  <2>2. st[k] = <<words[1 + 2 * k], words[2 + 2 * k]>>
    BY <1>11, <1>8, <2>1, <1>1
  <2> DEFINE w1 == 1 + 2 * k
             w2 == 2 + 2 * k
  <2>3. /\ w1 \in 3 .. 2 + 2 * p /\ w1 \in 1 .. 2 + 2 * n /\ w1 # 2
        /\ w2 \in 3 .. 2 + 2 * p /\ w2 \in 1 .. 2 + 2 * n /\ w2 # 2
    BY <2>1, <1>1, <1>4
  <2>4. (w1 - 1) \div 2 = k /\ 2 - (w1 % 2) = 1 /\ (w2 - 1) \div 2 = k /\ 2 - (w2 % 2) = 2
    BY <2>1, RouteWords
  <2> HIDE DEF w1, w2
  <2>5. words[w1] = Routes[k][1] /\ words[w2] = Routes[k][2]
    <3>1. words[w1] = Routes[(w1 - 1) \div 2][2 - (w1 % 2)] /\ words[w2] = Routes[(w2 - 1) \div 2][2 - (w2 % 2)]
      BY <1>5, <2>3
    <3> QED BY <3>1, <2>4
  <2>6. Routes[k] \in Nat \X Nat
    BY <2>1, <1>1, RoutesKnown
  <2>7. <<Routes[k][1], Routes[k][2]>> = Routes[k]
    BY <2>6
  <2> QED BY <2>2, <2>5, <2>6, <2>7 DEF w1, w2
<1> HIDE DEF st
<1>13. st \in Seq(Nat \X Nat) /\ Len(st) = q
  <2>1. DOMAIN st = 1 .. q /\ st = [k \in 1 .. q |-> st[k]]
    BY <1>11
  <2>2. st \in [1 .. q -> Nat \X Nat]
    BY <2>1, <1>12
  <2> QED BY <2>2, <1>9
<1>14. st = SubSeq(Routes, 1, q)
  <2>1. SubSeq(Routes, 1, q) \in Seq(Nat \X Nat) /\ Len(SubSeq(Routes, 1, q)) = q
    BY RoutesKnown, <1>1, <1>9
  <2>2. ASSUME NEW k \in 1 .. q PROVE st[k] = SubSeq(Routes, 1, q)[k]
    BY <1>12, RoutesKnown, <1>1, <1>9
  <2> QED BY <2>1, <2>2, <1>13, SeqEqual
<1>15. IF o.n = 0 THEN words[2] = Len(Routes) ELSE q = words[2] /\ (words[2] = o.n \/ words[2] = Len(Routes))
  BY <1>1, <1>6, <1>9 DEF p
<1>16. Len(st) \in Nat /\ st = SubSeq(Routes, 1, Len(st)) /\ (IF o.n = 0 THEN words[2] = Len(Routes) ELSE Len(st) = words[2] /\ (words[2] = o.n \/ words[2] = Len(Routes)))
  BY <1>13, <1>14, <1>15, <1>9
<1> QED BY <1>16 DEF st, words, d

\* What the last answer of a get says about the set before it.
LEMMA GotBack ==
  ASSUME ConfigInv, at = "in", o.op \in DOMAIN C!Pairs, prev.ret = 0,
         prev.o.op = C!Pairs[o.op], prev.o.ch = o.ch, o.args = SubSeq(prev.o.args, 1, Len(o.args))
  PROVE  C!Stored(C!Reply(set, o.ch, C!Data(o))) = SubSeq(prev.o.args, Len(o.args) + 1, Len(prev.o.args))
<1> DEFINE e == prev.o
           data_ == C!Reply(set, o.ch, C!Data(o))
<1>1. o.op \in {"get_clock_source", "get_gate_source", "get_routing"} /\ Asks(o) /\ e.op = C!Pairs[o.op]
  BY SetsGets DEF ConfigInv, Placed
<1>2. e.op \in SetCalls
  BY <1>1 DEF C!Pairs, SetCalls
<1>3. Asks(e) /\ InPlace(e)
  BY <1>2 DEF ConfigInv, Kept
<1>4. o.list = FALSE /\ e.list = FALSE
  BY <1>1, <1>2, <1>3 DEF Asks, SetCalls
<1>5. C!Stored(data_) = SubSeq(data_, C!Stores[o.op][1], C!Stores[o.op][2])
  BY <1>1 DEF C!Stored, C!Stores
<1>6. Len(<< >>) = 0 /\ Len(<<0>>) = 1 /\ Len(<<0, 0>>) = 2
  OBVIOUS
<1>10. o.ch = e.ch /\ o.args = SubSeq(e.args, 1, Len(o.args))
  OBVIOUS
<1> HIDE DEF data_
<1>7. CASE o.op = "get_clock_source"
  <2>1. /\ o.args = << >> /\ e.op = "set_clock_source" /\ Len(e.args) = 2 /\ Len(o.args) = 0
    BY <1>1, <1>3, <1>7 DEF Asks, C!Pairs
  <2>2. /\ C!Calls[o.op] = C!W("GET_CLOCK_SRC", 0, <<0, 0>>) /\ C!Calls[e.op] = C!W("SET_CLOCK_SRC", 0, << >>)
        /\ C!Layout["GET_CLOCK_SRC"].value = 2 /\ C!Layout["SET_CLOCK_SRC"].value = 2
        /\ C!Layout["GET_CLOCK_SRC"].kind = C!Layout["SET_CLOCK_SRC"].kind
    BY <1>7, <2>1, CallWords DEF C!Layout, C!K
  <2> DEFINE nmG == "GET_CLOCK_SRC"
             nmS == "SET_CLOCK_SRC"
             f == <<0, 0>>
             m == Len(o.args)
  <2>3. /\ nmG \in Ids \ {"RESET", "GET_ROUTES", "GET_CMD_TIMING_CONSTRAINTS", "TEST_ROUTE", "DIO_QUERY"} /\ nmS \in Ids
        /\ f \in Seq(Word) /\ Len(f) = 2 /\ m = 0
    BY <2>1, FixedWords DEF Ids
  <2>4. /\ C!Calls[o.op] = C!W(nmG, m, f) /\ C!Calls[e.op] = C!W(nmS, 0, << >>)
        /\ Len(e.args) = m + Len(f) /\ C!Layout[nmG].value = m + 2 /\ C!Layout[nmS].value = m + 2
        /\ C!Layout[nmG].kind = C!Layout[nmS].kind
    BY <2>1, <2>2, <2>3
  <2> HIDE DEF nmG, nmS, f, e
  <2>5. SubSeq(data_, m + 2, m + Len(f) + 1) = SubSeq(e.args, m + 1, Len(e.args))
    BY <1>1, <1>3, <1>4, <1>10, <2>3, <2>4, ReadsBack, ZenonT(60) DEF data_
  <2>6. m + 2 = C!Stores[o.op][1] /\ m + Len(f) + 1 = C!Stores[o.op][2]
    BY <2>3, <1>7 DEF C!Stores
  <2> QED BY <2>5, <2>6, <1>5 DEF data_, e
<1>8. CASE o.op = "get_gate_source"
  <2>1. /\ Len(o.args) = 1 /\ e.op = "set_gate_source" /\ Len(e.args) = 2
    BY <1>1, <1>3, <1>8 DEF Asks, C!Pairs
  <2>2. /\ C!Calls[o.op] = C!W("GET_GATE_SRC", 1, <<0>>) /\ C!Calls[e.op] = C!W("SET_GATE_SRC", 0, << >>)
        /\ C!Layout["GET_GATE_SRC"].value = 3 /\ C!Layout["SET_GATE_SRC"].value = 3
        /\ C!Layout["GET_GATE_SRC"].kind = C!Layout["SET_GATE_SRC"].kind
    BY <1>8, <2>1, CallWords DEF C!Layout, C!K
  <2> DEFINE nmG == "GET_GATE_SRC"
             nmS == "SET_GATE_SRC"
             f == <<0>>
             m == Len(o.args)
  <2>3. /\ nmG \in Ids \ {"RESET", "GET_ROUTES", "GET_CMD_TIMING_CONSTRAINTS", "TEST_ROUTE", "DIO_QUERY"} /\ nmS \in Ids
        /\ f \in Seq(Word) /\ Len(f) = 1 /\ m = 1
    BY <2>1, FixedWords DEF Ids
  <2>4. /\ C!Calls[o.op] = C!W(nmG, m, f) /\ C!Calls[e.op] = C!W(nmS, 0, << >>)
        /\ Len(e.args) = m + Len(f) /\ C!Layout[nmG].value = m + 2 /\ C!Layout[nmS].value = m + 2
        /\ C!Layout[nmG].kind = C!Layout[nmS].kind
    BY <2>1, <2>2, <2>3
  <2> HIDE DEF nmG, nmS, f, e
  <2>5. SubSeq(data_, m + 2, m + Len(f) + 1) = SubSeq(e.args, m + 1, Len(e.args))
    BY <1>1, <1>3, <1>4, <1>10, <2>3, <2>4, ReadsBack, ZenonT(60) DEF data_
  <2>6. m + 2 = C!Stores[o.op][1] /\ m + Len(f) + 1 = C!Stores[o.op][2]
    BY <2>3, <1>8 DEF C!Stores
  <2> QED BY <2>5, <2>6, <1>5 DEF data_, e
<1>9. CASE o.op = "get_routing"
  <2>1. /\ o.args = << >> /\ e.op = "set_routing" /\ Len(e.args) = 1 /\ Len(o.args) = 0
    BY <1>1, <1>3, <1>9 DEF Asks, C!Pairs
  <2>2. /\ C!Calls[o.op] = C!W("GET_ROUTING", 0, <<0>>) /\ C!Calls[e.op] = C!W("SET_ROUTING", 0, << >>)
        /\ C!Layout["GET_ROUTING"].value = 2 /\ C!Layout["SET_ROUTING"].value = 2
        /\ C!Layout["GET_ROUTING"].kind = C!Layout["SET_ROUTING"].kind
    BY <1>9, <2>1, CallWords DEF C!Layout, C!K
  <2> DEFINE nmG == "GET_ROUTING"
             nmS == "SET_ROUTING"
             f == <<0>>
             m == Len(o.args)
  <2>3. /\ nmG \in Ids \ {"RESET", "GET_ROUTES", "GET_CMD_TIMING_CONSTRAINTS", "TEST_ROUTE", "DIO_QUERY"} /\ nmS \in Ids
        /\ f \in Seq(Word) /\ Len(f) = 1 /\ m = 0
    BY <2>1, FixedWords DEF Ids
  <2>4. /\ C!Calls[o.op] = C!W(nmG, m, f) /\ C!Calls[e.op] = C!W(nmS, 0, << >>)
        /\ Len(e.args) = m + Len(f) /\ C!Layout[nmG].value = m + 2 /\ C!Layout[nmS].value = m + 2
        /\ C!Layout[nmG].kind = C!Layout[nmS].kind
    BY <2>1, <2>2, <2>3
  <2> HIDE DEF nmG, nmS, f, e
  <2>5. SubSeq(data_, m + 2, m + Len(f) + 1) = SubSeq(e.args, m + 1, Len(e.args))
    BY <1>1, <1>3, <1>4, <1>10, <2>3, <2>4, ReadsBack, ZenonT(60) DEF data_
  <2>6. m + 2 = C!Stores[o.op][1] /\ m + Len(f) + 1 = C!Stores[o.op][2]
    BY <2>3, <1>9 DEF C!Stores
  <2> QED BY <2>5, <2>6, <1>5 DEF data_, e
<1> QED BY <1>1, <1>7, <1>8, <1>9 DEF data_

\* A wrapper has its answer.
LEMMA AnsweredKeeps ==
  ASSUME ConfigInv, C!Answered
  PROVE  ConfigInv'
<1> DEFINE words == C!Reply(set, o.ch, C!Data(o))
<1>1. /\ at = "in" /\ at' = "done" /\ o.op # "set_other_source" /\ C!Instruct /\ applied' = applied + 1
      /\ ioctls' = ioctls /\ o' = o /\ prev' = prev /\ others' = others
      /\ out' = C!Stored(words)
      /\ ret' = (IF o.op \in DOMAIN C!Answers THEN words[C!Answers[o.op]] ELSE 0)
  BY DEF C!Answered, C!Instruct
<1>2. Asks(o) /\ Clean(set) /\ Placed
  BY <1>1 DEF ConfigInv, Placed
<1>3. ret' \in Nat
  BY <1>1, <1>2, AnswerIs
<1>4. Placed'
  BY <1>1, <1>2, <1>3 DEF Placed
<1>5. Clean(set)'
  <2>1. Clean(C!Effect(set, o.ch, C!Data(o)))
    BY <1>2, EffectClean
  <2> QED BY <1>1, <2>1 DEF Clean, C!Instruct
<1>6. Kept'
  <2>1. ASSUME o.op \in SetCalls PROVE InPlace(o)'
    BY <1>1, <1>2, <2>1, InstructSets
  <2> QED BY <1>1, <2>1 DEF Kept, InPlace
<1>7. C!AnswerTellsEffect'
  BY <1>1, <1>2, <1>3 DEF Placed, C!AnswerTellsEffect
<1>8. C!GetsBack'
  <2> SUFFICES ASSUME o.op \in DOMAIN C!Pairs, prev.ret = 0, prev.o.op = C!Pairs[o.op], prev.o.ch = o.ch,
                      o.args = SubSeq(prev.o.args, 1, Len(o.args))
               PROVE  C!Stored(words) = SubSeq(prev.o.args, Len(o.args) + 1, Len(prev.o.args))
    BY <1>1 DEF C!GetsBack, C!Pairs
  <2> QED BY <1>1, GotBack
<1>9. C!RoutesListed'
  <2> SUFFICES ASSUME o.op = "get_routes", o.list
               PROVE  C!RoutesListed'
    BY <1>1 DEF C!RoutesListed
  <2>1. C!Data(o)[1] = "GET_ROUTES"
    BY <1>2, DataSeq, CallWords DEF C!W
  <2>2. words = C!RoutesInto(C!Data(o))
    BY <2>1 DEF C!Reply
  <2>3. out' = C!RoutesStored(words) /\ ret' = words[2]
    BY <1>1 DEF C!Stored, C!Answers
  <2> HIDE DEF words
  <2>4. /\ out' = SubSeq(Routes, 1, Len(out'))
        /\ IF o.n = 0 THEN ret' = Len(Routes) ELSE Len(out') = ret' /\ (ret' = o.n \/ ret' = Len(Routes))
    BY <1>2, <2>2, <2>3, RoutesAnswered
  <2> QED BY <2>4, <1>1 DEF C!RoutesListed
<1> QED BY <1>4, <1>5, <1>6, <1>7, <1>8, <1>9 DEF ConfigInv

\* The calls the demos make, by their arguments.
LEMMA DemoCallsAsk ==
  /\ \A op \in {"reset", "get_pwm_status", "get_pwm_period"}, ch \in {0, 1, 2} : Asks(C!Op(op, ch, << >>))
  /\ \A op \in {"arm", "set_counter_mode", "set_filter", "set_routing", "data_write", "set_pwm_period"}, ch \in {0, 1, 2}, a \in Nat :
       Asks(C!Op(op, ch, <<a>>))
  /\ \A op \in {"set_gate_source", "set_clock_source", "set_other_source"}, ch \in {0, 1, 2}, a \in Nat \union {"A", "B", "Z"}, b \in Nat :
       Asks(C!Op(op, ch, <<a, b>>))
<1>1. ASSUME NEW op \in {"reset", "get_pwm_status", "get_pwm_period"}, NEW ch \in {0, 1, 2}
      PROVE  Asks(C!Op(op, ch, << >>))
  <2>1. op \in DOMAIN C!Calls /\ C!Calls[op].after = 0
    BY CallNames, CallAfter0
  <2>2. << >> \in Seq(Word) /\ Len(<< >>) = 0
    BY FixedWords
  <2> QED BY <2>1, <2>2 DEF Asks, C!Op
<1>2. ASSUME NEW op \in {"arm", "set_counter_mode", "set_filter", "set_routing", "data_write", "set_pwm_period"}, NEW ch \in {0, 1, 2}, NEW a \in Nat
      PROVE  Asks(C!Op(op, ch, <<a>>))
  <2>1. op \in DOMAIN C!Calls /\ C!Calls[op].after = 0
    BY CallNames, CallAfter0
  <2>2. a \in Word
    BY DEF Word
  <2>3. <<a>> \in Seq(Word) /\ Len(<<a>>) = 1
    BY <2>2
  <2> QED BY <2>1, <2>3 DEF Asks, C!Op
<1>3. ASSUME NEW op \in {"set_gate_source", "set_clock_source", "set_other_source"}, NEW ch \in {0, 1, 2},
             NEW a \in Nat \union {"A", "B", "Z"}, NEW b \in Nat
      PROVE  Asks(C!Op(op, ch, <<a, b>>))
  <2>1. op \in DOMAIN C!Calls /\ C!Calls[op].after = 0
    BY CallNames, CallAfter0
  <2>2. a \in Word /\ b \in Word
    BY DEF Word
  <2>3. <<a, b>> \in Seq(Word) /\ Len(<<a, b>>) = 2
    BY <2>2
  <2> QED BY <2>1, <2>3 DEF Asks, C!Op
<1> QED BY <1>1, <1>2, <1>3

\* The constants of the demos.
LEMMA DemoConstants ==
  /\ ClockPeriod \in Nat \ {0} /\ UIntMod \in Nat \ {0} /\ Periods \subseteq Nat /\ UpTimes \subseteq Nat
  BY CallsAssumption DEF C!DemoParameters

\* A time in ticks is a number of ticks.
LEMMA TicksNat == \A t \in Nat : C!Ticks(t) \in Nat
<1> SUFFICES ASSUME NEW t \in Nat PROVE C!Ticks(t) \in Nat
  OBVIOUS
<1>1. PICK p \in Nat \ {0} : p = ClockPeriod
  BY DemoConstants
<1>2. p \div 2 \in Nat
  BY <1>1
<1> DEFINE h == p \div 2
           g == (t + h) % UIntMod
<1> HIDE DEF h
<1>3. g \in Nat
  BY <1>2, DemoConstants DEF h
<1> HIDE DEF g
<1>4. g \div p \in Nat
  BY <1>1, <1>3
<1> QED BY <1>1, <1>4 DEF g, h, C!Ticks

\* A call of a demo is one that a program can make.
LEMMA DemosAsk ==
  ASSUME prog \in DOMAIN C!Demos, period \in Nat, up \in Nat, NEW k \in 1 .. Len(C!Steps)
  PROVE  Asks(C!Steps[k].o) /\ C!Steps[k].o.ch \in {0, 1, 2} /\ C!Steps[k].o.list = FALSE
<1> DEFINE Fine(m) == Asks(m.o) /\ m.o.ch \in {0, 1, 2} /\ m.o.list = FALSE
<1>1. \A op, args : \A ch \in {0, 1, 2} : Asks(C!Op(op, ch, args)) => Fine(C!Must(op, ch, args)) /\ Fine(C!May(op, ch, args))
  BY DEF C!Must, C!May, C!Op
<1> HIDE DEF Fine
<1>2. C!UpTicks \in Nat /\ C!DownTicks \in Nat
  <2>1. C!Ticks(period) \in Nat /\ C!Ticks(up) \in Nat
    BY TicksNat
  <2>2. C!Ticks(period) - C!Ticks(up) \in Int
    BY <2>1
  <2> DEFINE t == C!Ticks(period) - C!Ticks(up)
  <2> HIDE DEF t
  <2>3. t % UIntMod \in Nat
    BY <2>2, DemoConstants DEF t
  <2> QED BY <2>1, <2>3 DEF t, C!UpTicks, C!DownTicks
<1>3. /\ \A op \in {"reset", "get_pwm_status", "get_pwm_period"}, ch \in {0, 1, 2} :
           Fine(C!Must(op, ch, << >>)) /\ Fine(C!May(op, ch, << >>))
      /\ \A op \in {"arm", "set_counter_mode", "set_filter", "set_routing", "data_write", "set_pwm_period"}, ch \in {0, 1, 2}, a \in Nat :
           Fine(C!Must(op, ch, <<a>>)) /\ Fine(C!May(op, ch, <<a>>))
      /\ \A op \in {"set_gate_source", "set_clock_source", "set_other_source"}, ch \in {0, 1, 2}, a \in Nat \union {"A", "B", "Z"}, b \in Nat :
           Fine(C!Must(op, ch, <<a, b>>)) /\ Fine(C!May(op, ch, <<a, b>>))
  BY <1>1, DemoCallsAsk, ZenonT(30)
<1>4. ClockPeriod \in Nat
  BY DemoConstants
<1>5. \A n \in 1 .. Len(C!PulseGenerator) : Fine(C!PulseGenerator[n])
  <2>1. /\ Fine(C!Must("reset", 0, << >>))
        /\ Fine(C!Must("set_gate_source", 0, <<0, 0>>)) /\ Fine(C!May("set_gate_source", 0, <<1, 0>>))
        /\ Fine(C!Must("set_counter_mode", 0, <<1>>)) /\ Fine(C!Must("set_clock_source", 0, <<3, ClockPeriod>>))
        /\ Fine(C!Must("data_write", 0, <<C!DownTicks>>)) /\ Fine(C!Must("data_write", 1, <<C!DownTicks>>))
        /\ Fine(C!Must("data_write", 2, <<C!UpTicks>>)) /\ Fine(C!Must("arm", 0, <<0>>))
    BY <1>2, <1>3, <1>4
  <2> QED BY <2>1 DEF C!PulseGenerator, C!Disabled, C!PulseMode, C!Timebase
<1>6. \A n \in 1 .. Len(C!Encoder) : Fine(C!Encoder[n])
  <2>1. /\ Fine(C!May("reset", 0, << >>))
        /\ Fine(C!May("data_write", 0, <<7>>)) /\ Fine(C!May("data_write", 1, <<7>>)) /\ Fine(C!May("data_write", 2, <<7>>))
        /\ Fine(C!May("set_gate_source", 0, <<0, 0>>)) /\ Fine(C!May("set_gate_source", 0, <<1, 0>>))
        /\ Fine(C!May("set_other_source", 0, <<"A", 4>>)) /\ Fine(C!May("set_other_source", 0, <<"B", 5>>))
        /\ Fine(C!May("set_other_source", 0, <<"Z", 6>>))
        /\ Fine(C!Must("set_counter_mode", 0, <<2>>)) /\ Fine(C!Must("arm", 0, <<0>>))
    BY <1>3
  <2> QED BY <2>1 DEF C!Encoder, C!Disabled, C!QuadratureMode
<1>7. \A n \in 1 .. Len(C!SimpleCounting) : Fine(C!SimpleCounting[n])
  <2>1. /\ Fine(C!Must("reset", 0, << >>))
        /\ Fine(C!Must("set_gate_source", 0, <<0, 2>>)) /\ Fine(C!May("set_gate_source", 0, <<1, 0>>))
        /\ Fine(C!Must("set_counter_mode", 0, <<3>>)) /\ Fine(C!May("data_write", 0, <<0>>)) /\ Fine(C!Must("arm", 0, <<0>>))
    BY <1>3
  <2> QED BY <2>1 DEF C!SimpleCounting, C!Disabled, C!PinGate, C!CountMode
<1>8. \A n \in 1 .. Len(C!BufferedCounting) : Fine(C!BufferedCounting[n])
  <2>1. /\ Fine(C!Must("reset", 0, << >>))
        /\ Fine(C!Must("set_gate_source", 0, <<0, 1>>)) /\ Fine(C!May("set_gate_source", 0, <<1, 0>>))
        /\ Fine(C!Must("set_counter_mode", 0, <<4>>)) /\ Fine(C!May("data_write", 0, <<0>>)) /\ Fine(C!May("data_write", 1, <<0>>))
    BY <1>3
  <2> QED BY <2>1 DEF C!BufferedCounting, C!Disabled, C!PfiGate, C!BufferedMode
<1>9. \A n \in 1 .. Len(C!Pwm) : Fine(C!Pwm[n])
  <2>1. /\ Fine(C!Must("arm", 0, <<0>>)) /\ Fine(C!Must("set_pwm_period", 0, <<period>>))
        /\ Fine(C!Must("get_pwm_status", 0, << >>)) /\ Fine(C!Must("get_pwm_period", 0, << >>))
        /\ Fine(C!Must("data_write", 0, <<up>>))
    BY <1>3
  <2> QED BY <2>1 DEF C!Pwm
<1>10. /\ \A n \in 1 .. Len(C!ChooseClock) : Fine(C!ChooseClock[n])
       /\ \A n \in 1 .. Len(C!ChooseFilter) : Fine(C!ChooseFilter[n])
       /\ \A n \in 1 .. Len(C!ChooseRouting) : Fine(C!ChooseRouting[n])
  <2>1. /\ Fine(C!Must("set_clock_source", 1, <<3, period>>)) /\ Fine(C!Must("set_filter", 1, <<1>>))
        /\ Fine(C!Must("set_routing", 1, <<1>>))
    BY <1>3
  <2> QED BY <2>1 DEF C!ChooseClock, C!ChooseFilter, C!ChooseRouting, C!Timebase
<1>11. C!Steps \in {C!PulseGenerator, C!Encoder, C!SimpleCounting, C!BufferedCounting, C!Pwm, C!ChooseClock, C!ChooseFilter, C!ChooseRouting}
  BY DEF C!Steps, C!Demos
<1>12. Fine(C!Steps[k])
  BY <1>5, <1>6, <1>7, <1>8, <1>9, <1>10, <1>11
<1> QED BY <1>12 DEF Fine

\* The configuring program and the demos: where they are, and what they have
\* in place.
AnswersInv ==
  /\ by \in {"config", "demo"} => ConfigInv
  /\ by = "demo" => prog \in DOMAIN C!Demos /\ period \in Periods /\ up \in UpTimes /\ step \in 0 .. Len(C!Steps)

\* The invariant holds at the start,
LEMMA ConfigBegins == CallsInit => AnswersInv
<1> SUFFICES ASSUME CallsInit PROVE AnswersInv
  OBVIOUS
<1>1. ASSUME NEW s, C!ConfigInit(s), Clean(s) PROVE ConfigInv
  <2>1. /\ ioctls \in {"insn", "insnlist", "trig"} /\ set = s /\ at = "idle" /\ ret = 0 /\ applied = 0
        /\ prev.ret = 0 /\ prev.o.op = "none" /\ others = 0
    BY <1>1 DEF C!ConfigInit, C!Nobody, C!NoCall, C!Op
  <2> QED BY <1>1, <2>1 DEF ConfigInv, Placed, Kept, C!AnswerTellsEffect, C!GetsBack, C!RoutesListed, SetCalls
<1>2. CASE by = "config"
  <2>1. I!ConfigInit(<< >>)
    BY <1>2 DEF CallsInit
  <2>2. C!ConfigInit(<< >>)
    BY <2>1 DEF I!ConfigInit, C!ConfigInit, I!NoCall, C!NoCall, I!Nobody, C!Nobody, I!Op, C!Op
  <2>3. Clean(<< >>)
    BY DEF Clean
  <2> QED BY <1>1, <1>2, <2>2, <2>3 DEF AnswersInv
<1>3. CASE by = "demo"
  <2>1. C!DemoInit
    BY <1>3 DEF CallsInit
  <2>2. PICK s \in C!Leftovers : C!ConfigInit(s)
    BY <2>1 DEF C!DemoInit
  <2>3. Clean(s)
    <3>1. \A w \in {"ARM", "SET_OTHER_SRC", "SET_GATE_SRC"}, n \in {0, 9} : <<w, n>> \in Seq(Word) /\ <<w, n>> # << >>
      <4>1. \A w \in {"ARM", "SET_OTHER_SRC", "SET_GATE_SRC"} : w \in Word
        BY DEF Word, Ids
      <4>2. 0 \in Word /\ 9 \in Word
        BY DEF Word
      <4> QED BY <4>1, <4>2
    <3>2. ASSUME NEW key \in DOMAIN s
          PROVE  key[1] \in {"armed", "other", "gate"} /\ s[key] \in {<<"ARM", 0>>, <<"SET_OTHER_SRC", 9>>, <<"SET_GATE_SRC", 9>>}
      BY <2>2, SMTT(30) DEF C!Leftovers
    <3>3. ASSUME NEW v \in {<<"ARM", 0>>, <<"SET_OTHER_SRC", 9>>, <<"SET_GATE_SRC", 9>>} PROVE v \in Seq(Word) /\ v # << >>
      BY <3>1
    <3> QED BY <3>2, <3>3 DEF Clean
  <2>4. prog \in DOMAIN C!Demos /\ period \in Periods /\ up \in UpTimes /\ step = 0
    BY <2>1 DEF C!DemoInit
  <2>5. Len(C!Steps) \in Nat
    BY <2>4 DEF C!Steps, C!Demos, C!PulseGenerator, C!Encoder, C!SimpleCounting, C!BufferedCounting, C!Pwm,
                C!ChooseClock, C!ChooseFilter, C!ChooseRouting
  <2> QED BY <1>1, <1>3, <2>2, <2>3, <2>4, <2>5 DEF AnswersInv
<1> QED BY <1>2, <1>3 DEF AnswersInv

\* is kept by the arbitrary program and by others,
LEMMA ConfigStep ==
  ASSUME ConfigInv, I!ConfigNext
  PROVE  ConfigInv'
<1>1. CASE \E d \in I!Ops : I!Call(d)
  BY <1>1, OpsAsk, SameLibrary, CallKeeps
<1>2. CASE I!Answered
  BY <1>2, SameLibrary, AnsweredKeeps
<1>3. CASE I!OtherSource
  BY <1>3, SameLibrary, OtherSourceKeeps
<1>4. CASE I!Failed
  BY <1>4, SameLibrary, FailedKeeps
<1>5. CASE I!Return
  BY <1>5, SameLibrary, ReturnKeeps
<1>6. CASE I!OtherSets
  BY <1>6, OtherSetsKeeps
<1> QED BY <1>1, <1>2, <1>3, <1>4, <1>5, <1>6 DEF I!ConfigNext, I!Library

\* by a demo,
LEMMA DemoStep ==
  ASSUME AnswersInv, by = "demo", C!DemoNext
  PROVE  ConfigInv' /\ prog' = prog /\ period' = period /\ up' = up /\ step' \in 0 .. Len(C!Steps)
<1>1. ConfigInv /\ prog \in DOMAIN C!Demos /\ period \in Nat /\ up \in Nat /\ step \in 0 .. Len(C!Steps)
  BY DemoConstants DEF AnswersInv
<1>2. CASE C!NextCall
  <2>1. step + 1 \in 1 .. Len(C!Steps) /\ C!Call(C!Steps[step + 1].o) /\ step' = step + 1
    BY <1>1, <1>2 DEF C!NextCall
  <2>2. Asks(C!Steps[step + 1].o)
    BY <1>1, <2>1, DemosAsk
  <2>3. ConfigInv'
    BY <1>1, <2>1, <2>2, CallKeeps
  <2>4. step' \in 0 .. Len(C!Steps)
    BY <1>1, <2>1
  <2> QED BY <1>2, <2>3, <2>4 DEF C!NextCall, C!demo
<1>3. CASE C!InCall
  BY <1>1, <1>3, AnsweredKeeps, OtherSourceKeeps, FailedKeeps DEF C!InCall, C!demo
<1>4. CASE C!LookAt
  BY <1>1, <1>4, ReturnKeeps DEF C!LookAt, C!demo
<1> QED BY <1>2, <1>3, <1>4 DEF C!DemoNext

\* A demo's calls depend on its name and its options.
LEMMA StepsSame ==
  ASSUME prog' = prog, period' = period, up' = up
  PROVE  C!Steps' = C!Steps /\ (DOMAIN C!Demos)' = DOMAIN C!Demos
  BY DEF C!Steps, C!Demos, C!PulseGenerator, C!Encoder, C!SimpleCounting, C!BufferedCounting, C!Pwm, C!ChooseClock,
         C!ChooseFilter, C!ChooseRouting, C!DownTicks, C!UpTicks, C!Ticks

\* and by every step.
LEMMA AnswersStep == AnswersInv /\ [CallsNext]_callsVars => AnswersInv'
<1> SUFFICES ASSUME AnswersInv, [CallsNext]_callsVars PROVE AnswersInv'
  OBVIOUS
<1>1. CASE Configures /\ I!ConfigNext
  <2>1. ConfigInv'
    BY <1>1, ConfigStep DEF AnswersInv, Configures
  <2> QED BY <1>1, <2>1 DEF AnswersInv, Configures
<1>2. CASE Demonstrates /\ C!DemoNext
  <2>1. ConfigInv' /\ prog' = prog /\ period' = period /\ up' = up /\ step' \in 0 .. Len(C!Steps)
    BY <1>2, DemoStep DEF Demonstrates
  <2>2. C!Steps' = C!Steps /\ (DOMAIN C!Demos)' = DOMAIN C!Demos
    BY <2>1, StepsSame
  <2> QED BY <1>2, <2>1, <2>2 DEF AnswersInv, Demonstrates
<1> DEFINE Elsewhere ==
             \/ Bitfields /\ D!Next
             \/ Chooses /\ S!Next
             \/ AccessesModules /\ X!Next
             \/ Transmits /\ L!Next
<1>3. CASE Elsewhere
  <2>1. by' = by /\ by \notin {"config", "demo"}
    BY <1>3 DEF Bitfields, Chooses, AccessesModules, Transmits
  <2> QED BY <2>1 DEF AnswersInv
<1>4. CASE UNCHANGED callsVars
  <2>1. UNCHANGED <<by, ioctls, set, at, o, out, ret, applied, prev, others, prog, period, up, step>>
    BY <1>4 DEF callsVars, configOnly
  <2>2. ConfigInv' = ConfigInv
    BY <2>1 DEF ConfigInv, Placed, Kept, InPlace, Clean, C!AnswerTellsEffect, C!GetsBack, C!RoutesListed
  <2>3. C!Steps' = C!Steps /\ (DOMAIN C!Demos)' = DOMAIN C!Demos
    BY <2>1, StepsSame
  <2> QED BY <2>1, <2>2, <2>3 DEF AnswersInv
<1>5. \/ Configures /\ I!ConfigNext
      \/ Demonstrates /\ C!DemoNext
      \/ Elsewhere
      \/ UNCHANGED callsVars
  BY DEF CallsNext
<1> QED BY <1>1, <1>2, <1>3, <1>4, <1>5, Zenon

\* What a configuration call answers is true: its answer tells whether the
\* instruction took effect, a get gives what the set before it gave, and the
\* routes listed are the device's, for any device, arguments and number of
\* calls, with another process in between.
THEOREM AnswersAreTrue == CallsSpec => []AnswersTrue
<1>1. AnswersInv => AnswersTrue
  <2>1. (C!GetsBack <=> I!GetsBack) /\ (C!RoutesListed <=> I!RoutesListed)
    BY DEF C!GetsBack, I!GetsBack, C!RoutesListed, I!RoutesListed, C!Pairs, I!Pairs
  <2> QED BY <2>1 DEF AnswersInv, ConfigInv, AnswersTrue
<1> QED BY <1>1, ConfigBegins, AnswersStep, PTL DEF CallsSpec

-----------------------------------------------------------------------------
(***************************************************************************)
(* The demos that configure a counter.  A program makes each setting at    *)
(* one place, so that no later call undoes it; the invariant keeps that    *)
(* the settings insisted on so far are in place and, after a reset, that   *)
(* there are no others than the program's.                                 *)
(***************************************************************************)

\* The setting each call of a demo makes.
LEMMA KeysOf ==
  /\ \A ch, a, b : /\ C!KeyMeant(C!Op("set_gate_source", ch, <<a, b>>)) = <<"gate", ch, <<a>>>>
                   /\ C!KeyMeant(C!Op("set_other_source", ch, <<a, b>>)) = <<"other", ch, <<a>>>>
                   /\ C!KeyMeant(C!Op("set_clock_source", ch, <<a, b>>)) = <<"clock", ch, << >>>>
  /\ \A ch, a : /\ C!KeyMeant(C!Op("set_counter_mode", ch, <<a>>)) = <<"mode", ch, << >>>>
                /\ C!KeyMeant(C!Op("data_write", ch, <<a>>)) = <<"register", ch, << >>>>
                /\ C!KeyMeant(C!Op("arm", ch, <<a>>)) = <<"armed", ch, << >>>>
                /\ C!KeyMeant(C!Op("set_filter", ch, <<a>>)) = <<"filter", ch, << >>>>
                /\ C!KeyMeant(C!Op("set_routing", ch, <<a>>)) = <<"routing", ch, << >>>>
                /\ C!KeyMeant(C!Op("set_pwm_period", ch, <<a>>)) = <<"period", ch, << >>>>
<1>1. ASSUME NEW a, NEW b PROVE SubSeq(<<a, b>>, 1, 1) = <<a>> /\ SubSeq(<<a, b>>, 1, 0) = << >>
  <2> DEFINE s == <<a, b>>
  <2>1. s \in Seq({a, b}) /\ Len(s) = 2 /\ s[1] = a
    OBVIOUS
  <2>2. <<a>> \in Seq({a, b}) /\ Len(<<a>>) = 1 /\ <<a>>[1] = a
    OBVIOUS
  <2> HIDE DEF s
  <2>3. SubSeq(s, 1, 0) = << >>
    BY <2>1
  <2>4. SubSeq(s, 1, 1) \in Seq({a, b}) /\ Len(SubSeq(s, 1, 1)) = 1 /\ SubSeq(s, 1, 1)[1] = a
    BY <2>1
  <2>5. SubSeq(s, 1, 1) = <<a>>
    <3> DEFINE t == SubSeq(s, 1, 1)
               r == <<a>>
    <3>1. t \in Seq({a, b}) /\ r \in Seq({a, b}) /\ Len(t) = Len(r) /\ Len(t) = 1 /\ t[1] = r[1]
      BY <2>2, <2>4
    <3> HIDE DEF t, r
    <3>2. \A n \in 1 .. Len(t) : t[n] = r[n]
      BY <3>1
    <3>3. t = r
      BY <3>1, <3>2, SeqEqual
    <3> QED BY <3>3 DEF t, r
  <2> QED BY <2>3, <2>5 DEF s
<1>2. ASSUME NEW a PROVE SubSeq(<<a>>, 1, 0) = << >>
  <2>1. <<a>> \in Seq({a}) /\ Len(<<a>>) = 1
    OBVIOUS
  <2> QED BY <2>1
<1> QED BY <1>1, <1>2 DEF C!KeyMeant, C!Meant, C!Op

\* Where in its program a demo makes a setting.
PlaceOf(p, key) ==
  IF p = "gpct_pulse_generator"
    THEN IF key[1] = "gate" THEN 2 + key[3][1] ELSE IF key[1] = "mode" THEN 4 ELSE IF key[1] = "clock" THEN 5
         ELSE IF key[1] = "register" THEN 6 + key[2] ELSE 9
  ELSE IF p = "gpct_encoder"
    THEN IF key[1] = "register" THEN 2 + key[2] ELSE IF key[1] = "gate" THEN 5 + key[3][1]
         ELSE IF key[1] = "other" THEN (IF key[3][1] = "A" THEN 7 ELSE IF key[3][1] = "B" THEN 8 ELSE 9)
         ELSE IF key[1] = "mode" THEN 10 ELSE 11
  ELSE IF p \in {"gpct_simple_counting", "gpct_buffered_counting"}
    THEN IF key[1] = "gate" THEN 2 + key[3][1] ELSE IF key[1] = "mode" THEN 4
         ELSE IF key[1] = "register" THEN 5 + key[2] ELSE IF p = "gpct_simple_counting" THEN 6 ELSE 7
  ELSE IF p = "pwm" THEN IF key[1] = "armed" THEN 1 ELSE IF key[1] = "period" THEN 2 ELSE 5
  ELSE 1

\* A call of a demo at place k.
AtPlace(p, k, m) ==
  /\ m.o.op \in DOMAIN C!Meant \union {"reset", "get_pwm_status", "get_pwm_period"}
  /\ m.o.op = "reset" => k = 1
  /\ m.o.op \in DOMAIN C!Meant => Len(m.o.args) >= C!Meant[m.o.op][2] /\ PlaceOf(p, C!KeyMeant(m.o)) = k

\* The call that a line of a demo makes.
LEMMA MakesCall ==
  \A op, ch, args : /\ C!Must(op, ch, args).o = C!Op(op, ch, args) /\ C!May(op, ch, args).o = C!Op(op, ch, args)
                    /\ C!Op(op, ch, args).op = op /\ C!Op(op, ch, args).args = args
  BY DEF C!Must, C!May, C!Op

\* A call that sets something is at its place.
LEMMA AtPlaceIf ==
  ASSUME NEW p, NEW k, NEW m, NEW d, m.o = d, d.op \in DOMAIN C!Meant, d.op # "reset", Len(d.args) >= C!Meant[d.op][2],
         PlaceOf(p, C!KeyMeant(d)) = k
  PROVE  AtPlace(p, k, m)
  BY DEF AtPlace

\* A call that sets nothing is at any place, a reset at the first.
LEMMA AtPlaces ==
  /\ \A p, k, ch : AtPlace(p, k, C!Must("get_pwm_status", ch, << >>)) /\ AtPlace(p, k, C!Must("get_pwm_period", ch, << >>))
  /\ \A p, ch : AtPlace(p, 1, C!Must("reset", ch, << >>)) /\ AtPlace(p, 1, C!May("reset", ch, << >>))
<1>1. \A op \in {"reset", "get_pwm_status", "get_pwm_period"} : op \notin DOMAIN C!Meant
  BY DEF C!Meant
<1> QED BY <1>1, MakesCall DEF AtPlace

\* The place of a call, by the setting it makes: a gate,
LEMMA GatePlace ==
  ASSUME NEW p, NEW k, NEW ch, NEW a, NEW b, PlaceOf(p, <<"gate", ch, <<a>>>>) = k
  PROVE  AtPlace(p, k, C!Must("set_gate_source", ch, <<a, b>>)) /\ AtPlace(p, k, C!May("set_gate_source", ch, <<a, b>>))
<1> DEFINE d == C!Op("set_gate_source", ch, <<a, b>>)
<1>1. d.op = "set_gate_source" /\ d.args = <<a, b>> /\ C!Must("set_gate_source", ch, <<a, b>>).o = d /\ C!May("set_gate_source", ch, <<a, b>>).o = d
  BY MakesCall
<1>2. C!KeyMeant(d) = <<"gate", ch, <<a>>>>
  BY KeysOf
<1>3. Len(d.args) = 2
  BY <1>1
<1>4. d.op \in DOMAIN C!Meant /\ d.op # "reset" /\ C!Meant[d.op][2] = 1
  BY <1>1 DEF C!Meant
<1>5. PlaceOf(p, C!KeyMeant(d)) = k
  BY <1>2
<1> HIDE DEF d
<1>6. Len(d.args) >= C!Meant[d.op][2]
  BY <1>3, <1>4
<1> QED BY <1>1, <1>4, <1>5, <1>6, AtPlaceIf

\* another source,
LEMMA OtherPlace ==
  ASSUME NEW p, NEW k, NEW ch, NEW a, NEW b, PlaceOf(p, <<"other", ch, <<a>>>>) = k
  PROVE  AtPlace(p, k, C!Must("set_other_source", ch, <<a, b>>)) /\ AtPlace(p, k, C!May("set_other_source", ch, <<a, b>>))
<1> DEFINE d == C!Op("set_other_source", ch, <<a, b>>)
<1>1. d.op = "set_other_source" /\ d.args = <<a, b>> /\ C!Must("set_other_source", ch, <<a, b>>).o = d /\ C!May("set_other_source", ch, <<a, b>>).o = d
  BY MakesCall
<1>2. C!KeyMeant(d) = <<"other", ch, <<a>>>>
  BY KeysOf
<1>3. Len(d.args) = 2
  BY <1>1
<1>4. d.op \in DOMAIN C!Meant /\ d.op # "reset" /\ C!Meant[d.op][2] = 1
  BY <1>1 DEF C!Meant
<1>5. PlaceOf(p, C!KeyMeant(d)) = k
  BY <1>2
<1> HIDE DEF d
<1>6. Len(d.args) >= C!Meant[d.op][2]
  BY <1>3, <1>4
<1> QED BY <1>1, <1>4, <1>5, <1>6, AtPlaceIf

\* a clock,
LEMMA ClockPlace ==
  ASSUME NEW p, NEW k, NEW ch, NEW a, NEW b, PlaceOf(p, <<"clock", ch, << >>>>) = k
  PROVE  AtPlace(p, k, C!Must("set_clock_source", ch, <<a, b>>)) /\ AtPlace(p, k, C!May("set_clock_source", ch, <<a, b>>))
<1> DEFINE d == C!Op("set_clock_source", ch, <<a, b>>)
<1>1. d.op = "set_clock_source" /\ d.args = <<a, b>> /\ C!Must("set_clock_source", ch, <<a, b>>).o = d /\ C!May("set_clock_source", ch, <<a, b>>).o = d
  BY MakesCall
<1>2. C!KeyMeant(d) = <<"clock", ch, << >>>>
  BY KeysOf
<1>3. Len(d.args) = 2
  BY <1>1
<1>4. d.op \in DOMAIN C!Meant /\ d.op # "reset" /\ C!Meant[d.op][2] = 0
  BY <1>1 DEF C!Meant
<1>5. PlaceOf(p, C!KeyMeant(d)) = k
  BY <1>2
<1> HIDE DEF d
<1>6. Len(d.args) >= C!Meant[d.op][2]
  BY <1>3, <1>4
<1> QED BY <1>1, <1>4, <1>5, <1>6, AtPlaceIf

\* a counter's mode,
LEMMA ModePlace ==
  ASSUME NEW p, NEW k, NEW ch, NEW a, PlaceOf(p, <<"mode", ch, << >>>>) = k
  PROVE  AtPlace(p, k, C!Must("set_counter_mode", ch, <<a>>)) /\ AtPlace(p, k, C!May("set_counter_mode", ch, <<a>>))
<1> DEFINE d == C!Op("set_counter_mode", ch, <<a>>)
<1>1. d.op = "set_counter_mode" /\ d.args = <<a>> /\ C!Must("set_counter_mode", ch, <<a>>).o = d /\ C!May("set_counter_mode", ch, <<a>>).o = d
  BY MakesCall
<1>2. C!KeyMeant(d) = <<"mode", ch, << >>>>
  BY KeysOf
<1>3. Len(d.args) = 1
  BY <1>1
<1>4. d.op \in DOMAIN C!Meant /\ d.op # "reset" /\ C!Meant[d.op][2] = 0
  BY <1>1 DEF C!Meant
<1>5. PlaceOf(p, C!KeyMeant(d)) = k
  BY <1>2
<1> HIDE DEF d
<1>6. Len(d.args) >= C!Meant[d.op][2]
  BY <1>3, <1>4
<1> QED BY <1>1, <1>4, <1>5, <1>6, AtPlaceIf

\* a register,
LEMMA RegisterPlace ==
  ASSUME NEW p, NEW k, NEW ch, NEW a, PlaceOf(p, <<"register", ch, << >>>>) = k
  PROVE  AtPlace(p, k, C!Must("data_write", ch, <<a>>)) /\ AtPlace(p, k, C!May("data_write", ch, <<a>>))
<1> DEFINE d == C!Op("data_write", ch, <<a>>)
<1>1. d.op = "data_write" /\ d.args = <<a>> /\ C!Must("data_write", ch, <<a>>).o = d /\ C!May("data_write", ch, <<a>>).o = d
  BY MakesCall
<1>2. C!KeyMeant(d) = <<"register", ch, << >>>>
  BY KeysOf
<1>3. Len(d.args) = 1
  BY <1>1
<1>4. d.op \in DOMAIN C!Meant /\ d.op # "reset" /\ C!Meant[d.op][2] = 0
  BY <1>1 DEF C!Meant
<1>5. PlaceOf(p, C!KeyMeant(d)) = k
  BY <1>2
<1> HIDE DEF d
<1>6. Len(d.args) >= C!Meant[d.op][2]
  BY <1>3, <1>4
<1> QED BY <1>1, <1>4, <1>5, <1>6, AtPlaceIf

\* arming,
LEMMA ArmedPlace ==
  ASSUME NEW p, NEW k, NEW ch, NEW a, PlaceOf(p, <<"armed", ch, << >>>>) = k
  PROVE  AtPlace(p, k, C!Must("arm", ch, <<a>>)) /\ AtPlace(p, k, C!May("arm", ch, <<a>>))
<1> DEFINE d == C!Op("arm", ch, <<a>>)
<1>1. d.op = "arm" /\ d.args = <<a>> /\ C!Must("arm", ch, <<a>>).o = d /\ C!May("arm", ch, <<a>>).o = d
  BY MakesCall
<1>2. C!KeyMeant(d) = <<"armed", ch, << >>>>
  BY KeysOf
<1>3. Len(d.args) = 1
  BY <1>1
<1>4. d.op \in DOMAIN C!Meant /\ d.op # "reset" /\ C!Meant[d.op][2] = 0
  BY <1>1 DEF C!Meant
<1>5. PlaceOf(p, C!KeyMeant(d)) = k
  BY <1>2
<1> HIDE DEF d
<1>6. Len(d.args) >= C!Meant[d.op][2]
  BY <1>3, <1>4
<1> QED BY <1>1, <1>4, <1>5, <1>6, AtPlaceIf

\* a filter,
LEMMA FilterPlace ==
  ASSUME NEW p, NEW k, NEW ch, NEW a, PlaceOf(p, <<"filter", ch, << >>>>) = k
  PROVE  AtPlace(p, k, C!Must("set_filter", ch, <<a>>)) /\ AtPlace(p, k, C!May("set_filter", ch, <<a>>))
<1> DEFINE d == C!Op("set_filter", ch, <<a>>)
<1>1. d.op = "set_filter" /\ d.args = <<a>> /\ C!Must("set_filter", ch, <<a>>).o = d /\ C!May("set_filter", ch, <<a>>).o = d
  BY MakesCall
<1>2. C!KeyMeant(d) = <<"filter", ch, << >>>>
  BY KeysOf
<1>3. Len(d.args) = 1
  BY <1>1
<1>4. d.op \in DOMAIN C!Meant /\ d.op # "reset" /\ C!Meant[d.op][2] = 0
  BY <1>1 DEF C!Meant
<1>5. PlaceOf(p, C!KeyMeant(d)) = k
  BY <1>2
<1> HIDE DEF d
<1>6. Len(d.args) >= C!Meant[d.op][2]
  BY <1>3, <1>4
<1> QED BY <1>1, <1>4, <1>5, <1>6, AtPlaceIf

\* a routing,
LEMMA RoutingPlace ==
  ASSUME NEW p, NEW k, NEW ch, NEW a, PlaceOf(p, <<"routing", ch, << >>>>) = k
  PROVE  AtPlace(p, k, C!Must("set_routing", ch, <<a>>)) /\ AtPlace(p, k, C!May("set_routing", ch, <<a>>))
<1> DEFINE d == C!Op("set_routing", ch, <<a>>)
<1>1. d.op = "set_routing" /\ d.args = <<a>> /\ C!Must("set_routing", ch, <<a>>).o = d /\ C!May("set_routing", ch, <<a>>).o = d
  BY MakesCall
<1>2. C!KeyMeant(d) = <<"routing", ch, << >>>>
  BY KeysOf
<1>3. Len(d.args) = 1
  BY <1>1
<1>4. d.op \in DOMAIN C!Meant /\ d.op # "reset" /\ C!Meant[d.op][2] = 0
  BY <1>1 DEF C!Meant
<1>5. PlaceOf(p, C!KeyMeant(d)) = k
  BY <1>2
<1> HIDE DEF d
<1>6. Len(d.args) >= C!Meant[d.op][2]
  BY <1>3, <1>4
<1> QED BY <1>1, <1>4, <1>5, <1>6, AtPlaceIf

\* and the period of a PWM output.
LEMMA PeriodPlace ==
  ASSUME NEW p, NEW k, NEW ch, NEW a, PlaceOf(p, <<"period", ch, << >>>>) = k
  PROVE  AtPlace(p, k, C!Must("set_pwm_period", ch, <<a>>)) /\ AtPlace(p, k, C!May("set_pwm_period", ch, <<a>>))
<1> DEFINE d == C!Op("set_pwm_period", ch, <<a>>)
<1>1. d.op = "set_pwm_period" /\ d.args = <<a>> /\ C!Must("set_pwm_period", ch, <<a>>).o = d /\ C!May("set_pwm_period", ch, <<a>>).o = d
  BY MakesCall
<1>2. C!KeyMeant(d) = <<"period", ch, << >>>>
  BY KeysOf
<1>3. Len(d.args) = 1
  BY <1>1
<1>4. d.op \in DOMAIN C!Meant /\ d.op # "reset" /\ C!Meant[d.op][2] = 0
  BY <1>1 DEF C!Meant
<1>5. PlaceOf(p, C!KeyMeant(d)) = k
  BY <1>2
<1> HIDE DEF d
<1>6. Len(d.args) >= C!Meant[d.op][2]
  BY <1>3, <1>4
<1> QED BY <1>1, <1>4, <1>5, <1>6, AtPlaceIf

\* Every call of a demo is at its place.
LEMMA Placing ==
  ASSUME prog \in DOMAIN C!Demos, NEW k \in 1 .. Len(C!Steps)
  PROVE  AtPlace(prog, k, C!Steps[k])
<1>1. CASE prog = "gpct_pulse_generator"
  <2> DEFINE p == prog
  <2>0. /\ PlaceOf(p, <<"gate", 0, <<0>>>>) = 2
        /\ PlaceOf(p, <<"gate", 0, <<1>>>>) = 3
        /\ PlaceOf(p, <<"mode", 0, << >>>>) = 4
        /\ PlaceOf(p, <<"clock", 0, << >>>>) = 5
        /\ PlaceOf(p, <<"register", 0, << >>>>) = 6
        /\ PlaceOf(p, <<"register", 1, << >>>>) = 7
        /\ PlaceOf(p, <<"register", 2, << >>>>) = 8
        /\ PlaceOf(p, <<"armed", 0, << >>>>) = 9
    BY <1>1 DEF PlaceOf
  <2>1. /\ AtPlace(p, 1, C!Must("reset", 0, << >>))
        /\ AtPlace(p, 2, C!Must("set_gate_source", 0, <<0, 0>>)) /\ AtPlace(p, 3, C!May("set_gate_source", 0, <<1, 0>>))
        /\ AtPlace(p, 4, C!Must("set_counter_mode", 0, <<1>>)) /\ AtPlace(p, 5, C!Must("set_clock_source", 0, <<3, ClockPeriod>>))
        /\ AtPlace(p, 6, C!Must("data_write", 0, <<C!DownTicks>>)) /\ AtPlace(p, 7, C!Must("data_write", 1, <<C!DownTicks>>))
        /\ AtPlace(p, 8, C!Must("data_write", 2, <<C!UpTicks>>)) /\ AtPlace(p, 9, C!Must("arm", 0, <<0>>))
    BY <2>0, AtPlaces, GatePlace, ClockPlace, ModePlace, RegisterPlace, ArmedPlace
  <2> QED BY <1>1, <2>1 DEF C!Steps, C!Demos, C!PulseGenerator, C!Disabled, C!PulseMode, C!Timebase
<1>2. CASE prog = "gpct_encoder"
  <2> DEFINE p == prog
  <2>0. /\ PlaceOf(p, <<"register", 0, << >>>>) = 2
        /\ PlaceOf(p, <<"register", 1, << >>>>) = 3
        /\ PlaceOf(p, <<"register", 2, << >>>>) = 4
        /\ PlaceOf(p, <<"gate", 0, <<0>>>>) = 5
        /\ PlaceOf(p, <<"gate", 0, <<1>>>>) = 6
        /\ PlaceOf(p, <<"other", 0, <<"A">>>>) = 7
        /\ PlaceOf(p, <<"other", 0, <<"B">>>>) = 8
        /\ PlaceOf(p, <<"other", 0, <<"Z">>>>) = 9
        /\ PlaceOf(p, <<"mode", 0, << >>>>) = 10
        /\ PlaceOf(p, <<"armed", 0, << >>>>) = 11
    BY <1>2 DEF PlaceOf
  <2>1. /\ AtPlace(p, 1, C!May("reset", 0, << >>))
        /\ AtPlace(p, 2, C!May("data_write", 0, <<7>>)) /\ AtPlace(p, 3, C!May("data_write", 1, <<7>>)) /\ AtPlace(p, 4, C!May("data_write", 2, <<7>>))
        /\ AtPlace(p, 5, C!May("set_gate_source", 0, <<0, 0>>)) /\ AtPlace(p, 6, C!May("set_gate_source", 0, <<1, 0>>))
        /\ AtPlace(p, 7, C!May("set_other_source", 0, <<"A", 4>>)) /\ AtPlace(p, 8, C!May("set_other_source", 0, <<"B", 5>>))
        /\ AtPlace(p, 9, C!May("set_other_source", 0, <<"Z", 6>>))
        /\ AtPlace(p, 10, C!Must("set_counter_mode", 0, <<2>>)) /\ AtPlace(p, 11, C!Must("arm", 0, <<0>>))
    BY <2>0, AtPlaces, GatePlace, OtherPlace, ModePlace, RegisterPlace, ArmedPlace
  <2> QED BY <1>2, <2>1 DEF C!Steps, C!Demos, C!Encoder, C!Disabled, C!QuadratureMode
<1>3. CASE prog = "gpct_simple_counting"
  <2> DEFINE p == prog
  <2>0. /\ PlaceOf(p, <<"gate", 0, <<0>>>>) = 2
        /\ PlaceOf(p, <<"gate", 0, <<1>>>>) = 3
        /\ PlaceOf(p, <<"mode", 0, << >>>>) = 4
        /\ PlaceOf(p, <<"register", 0, << >>>>) = 5
        /\ PlaceOf(p, <<"armed", 0, << >>>>) = 6
    BY <1>3 DEF PlaceOf
  <2>1. /\ AtPlace(p, 1, C!Must("reset", 0, << >>))
        /\ AtPlace(p, 2, C!Must("set_gate_source", 0, <<0, 2>>)) /\ AtPlace(p, 3, C!May("set_gate_source", 0, <<1, 0>>))
        /\ AtPlace(p, 4, C!Must("set_counter_mode", 0, <<3>>)) /\ AtPlace(p, 5, C!May("data_write", 0, <<0>>)) /\ AtPlace(p, 6, C!Must("arm", 0, <<0>>))
    BY <2>0, AtPlaces, GatePlace, ModePlace, RegisterPlace, ArmedPlace
  <2> QED BY <1>3, <2>1 DEF C!Steps, C!Demos, C!SimpleCounting, C!Disabled, C!PinGate, C!CountMode
<1>4. CASE prog = "gpct_buffered_counting"
  <2> DEFINE p == prog
  <2>0. /\ PlaceOf(p, <<"gate", 0, <<0>>>>) = 2
        /\ PlaceOf(p, <<"gate", 0, <<1>>>>) = 3
        /\ PlaceOf(p, <<"mode", 0, << >>>>) = 4
        /\ PlaceOf(p, <<"register", 0, << >>>>) = 5
        /\ PlaceOf(p, <<"register", 1, << >>>>) = 6
    BY <1>4 DEF PlaceOf
  <2>1. /\ AtPlace(p, 1, C!Must("reset", 0, << >>))
        /\ AtPlace(p, 2, C!Must("set_gate_source", 0, <<0, 1>>)) /\ AtPlace(p, 3, C!May("set_gate_source", 0, <<1, 0>>))
        /\ AtPlace(p, 4, C!Must("set_counter_mode", 0, <<4>>)) /\ AtPlace(p, 5, C!May("data_write", 0, <<0>>)) /\ AtPlace(p, 6, C!May("data_write", 1, <<0>>))
    BY <2>0, AtPlaces, GatePlace, ModePlace, RegisterPlace
  <2> QED BY <1>4, <2>1 DEF C!Steps, C!Demos, C!BufferedCounting, C!Disabled, C!PfiGate, C!BufferedMode
<1>5. CASE prog = "pwm"
  <2> DEFINE p == prog
  <2>0. /\ PlaceOf(p, <<"armed", 0, << >>>>) = 1
        /\ PlaceOf(p, <<"period", 0, << >>>>) = 2
        /\ PlaceOf(p, <<"register", 0, << >>>>) = 5
    BY <1>5 DEF PlaceOf
  <2>1. /\ AtPlace(p, 1, C!Must("arm", 0, <<0>>)) /\ AtPlace(p, 2, C!Must("set_pwm_period", 0, <<period>>))
        /\ AtPlace(p, 3, C!Must("get_pwm_status", 0, << >>)) /\ AtPlace(p, 4, C!Must("get_pwm_period", 0, << >>))
        /\ AtPlace(p, 5, C!Must("data_write", 0, <<up>>))
    BY <2>0, AtPlaces, RegisterPlace, ArmedPlace, PeriodPlace
  <2> QED BY <1>5, <2>1 DEF C!Steps, C!Demos, C!Pwm
<1>6. CASE prog \in {"choose_clock", "choose_filter", "choose_routing"}
  <2> DEFINE p == prog
  <2>0. /\ PlaceOf(p, <<"clock", 1, << >>>>) = 1
        /\ PlaceOf(p, <<"filter", 1, << >>>>) = 1
        /\ PlaceOf(p, <<"routing", 1, << >>>>) = 1
    BY <1>6 DEF PlaceOf
  <2>1. /\ AtPlace(p, 1, C!Must("set_clock_source", 1, <<3, period>>)) /\ AtPlace(p, 1, C!Must("set_filter", 1, <<1>>))
        /\ AtPlace(p, 1, C!Must("set_routing", 1, <<1>>))
    BY <2>0, AtPlaces, ClockPlace, FilterPlace, RoutingPlace
  <2> QED BY <1>6, <2>1 DEF C!Steps, C!Demos, C!ChooseClock, C!ChooseFilter, C!ChooseRouting, C!Timebase
<1>7. prog \in {"gpct_pulse_generator", "gpct_encoder", "gpct_simple_counting", "gpct_buffered_counting", "pwm",
                "choose_clock", "choose_filter", "choose_routing"}
  BY DEF C!Demos
<1> QED BY <1>1, <1>2, <1>3, <1>4, <1>5, <1>6, <1>7

\* Where the counter is reset first, arming it is the last call there is.
LEMMA ResetFirst ==
  ASSUME prog \in C!Resets
  PROVE  /\ Len(C!Steps) >= 2 /\ Len(C!Steps) \in Nat
         /\ C!Steps[1].must /\ C!Steps[1].o.op = "reset" /\ C!Steps[1].o.ch = 0
         /\ PlaceOf(prog, <<"armed", 0, << >>>>) >= Len(C!Steps)
<1>1. CASE prog = "gpct_pulse_generator"
  <2>1. C!Steps = C!PulseGenerator
    BY <1>1 DEF C!Steps, C!Demos
  <2> QED BY <1>1, <2>1 DEF C!PulseGenerator, C!Must, C!Op, PlaceOf
<1>2. CASE prog = "gpct_simple_counting"
  <2>1. C!Steps = C!SimpleCounting
    BY <1>2 DEF C!Steps, C!Demos
  <2> QED BY <1>2, <2>1 DEF C!SimpleCounting, C!Must, C!Op, PlaceOf
<1>3. CASE prog = "gpct_buffered_counting"
  <2>1. C!Steps = C!BufferedCounting
    BY <1>3 DEF C!Steps, C!Demos
  <2> QED BY <1>3, <2>1 DEF C!BufferedCounting, C!Must, C!Op, PlaceOf
<1> QED BY <1>1, <1>2, <1>3 DEF C!Resets

\* A demo and its options.
Demoing == prog \in DOMAIN C!Demos /\ period \in Nat /\ up \in Nat

\* A demo is a finite list of calls.
LEMMA StepsSeq ==
  ASSUME prog \in DOMAIN C!Demos
  PROVE  Len(C!Steps) \in Nat /\ DOMAIN C!Steps = 1 .. Len(C!Steps)
<1>1. /\ DOMAIN C!PulseGenerator = 1 .. Len(C!PulseGenerator) /\ Len(C!PulseGenerator) \in Nat
      /\ DOMAIN C!Encoder = 1 .. Len(C!Encoder) /\ Len(C!Encoder) \in Nat
      /\ DOMAIN C!SimpleCounting = 1 .. Len(C!SimpleCounting) /\ Len(C!SimpleCounting) \in Nat
      /\ DOMAIN C!BufferedCounting = 1 .. Len(C!BufferedCounting) /\ Len(C!BufferedCounting) \in Nat
      /\ DOMAIN C!Pwm = 1 .. Len(C!Pwm) /\ Len(C!Pwm) \in Nat
      /\ DOMAIN C!ChooseClock = 1 .. Len(C!ChooseClock) /\ Len(C!ChooseClock) \in Nat
      /\ DOMAIN C!ChooseFilter = 1 .. Len(C!ChooseFilter) /\ Len(C!ChooseFilter) \in Nat
      /\ DOMAIN C!ChooseRouting = 1 .. Len(C!ChooseRouting) /\ Len(C!ChooseRouting) \in Nat
  BY DEF C!PulseGenerator, C!Encoder, C!SimpleCounting, C!BufferedCounting, C!Pwm, C!ChooseClock, C!ChooseFilter, C!ChooseRouting
<1> QED BY <1>1 DEF C!Steps, C!Demos

\* The calls of a demo that set something.
LEMMA MadeBySteps ==
  ASSUME prog \in DOMAIN C!Demos
  PROVE  \A k : k \in C!MadeBy(C!Steps) <=> k \in 1 .. Len(C!Steps) /\ C!Steps[k].o.op \in DOMAIN C!Meant
  BY StepsSeq DEF C!MadeBy

\* A setting is made once.
LEMMA MadeOnce ==
  ASSUME prog \in DOMAIN C!Demos, NEW j \in C!MadeBy(C!Steps), NEW k \in C!MadeBy(C!Steps),
         C!KeyMeant(C!Steps[j].o) = C!KeyMeant(C!Steps[k].o)
  PROVE  j = k
<1>1. AtPlace(prog, j, C!Steps[j]) /\ AtPlace(prog, k, C!Steps[k])
  BY MadeBySteps, Placing
<1> QED BY <1>1, MadeBySteps DEF AtPlace

\* The instruction of a call that is meant to set something.
LEMMA MeantWords ==
  \A op \in DOMAIN C!Meant :
    /\ op \in DOMAIN C!Calls /\ C!Calls[op] = C!W(C!Calls[op].id, 0, << >>) /\ C!Calls[op].id \in Ids \ (C!Gettable \union {"RESET"})
    /\ C!Meant[op][2] \in Nat
    /\ C!Layout[C!Calls[op].id].value = C!Meant[op][2] + 2 /\ C!Layout[C!Calls[op].id].kind = C!Meant[op][1]
<1> SUFFICES ASSUME NEW op \in DOMAIN C!Meant
             PROVE  /\ op \in DOMAIN C!Calls /\ C!Calls[op] = C!W(C!Calls[op].id, 0, << >>) /\ C!Calls[op].id \in Ids \ (C!Gettable \union {"RESET"})
                    /\ C!Meant[op][2] \in Nat
                    /\ C!Layout[C!Calls[op].id].value = C!Meant[op][2] + 2 /\ C!Layout[C!Calls[op].id].kind = C!Meant[op][1]
  OBVIOUS
<1>1. op \in {"set_gate_source", "set_counter_mode", "set_clock_source", "data_write", "arm", "set_filter", "set_routing",
              "set_other_source", "set_pwm_period"}
  BY DEF C!Meant
<1>2. op \in DOMAIN C!Calls
  BY <1>1, CallNames
<1>3. /\ C!Calls[op] = C!W(C!Calls[op].id, 0, << >>)
      /\ C!Calls[op].id \in {"SET_GATE_SRC", "SET_COUNTER_MODE", "SET_CLOCK_SRC", "WRITE", "ARM", "FILTER", "SET_ROUTING", "SET_OTHER_SRC", "PWM_SET_PERIOD"}
  BY <1>1, CallWords DEF C!W
<1>4. C!Calls[op].id \in Ids \ (C!Gettable \union {"RESET"})
  BY <1>3 DEF Ids, C!Gettable
<1>5. /\ C!Meant[op][2] \in Nat
      /\ C!Layout[C!Calls[op].id].value = C!Meant[op][2] + 2 /\ C!Layout[C!Calls[op].id].kind = C!Meant[op][1]
  BY <1>1, CallWords, SMTT(30) DEF C!W, C!Meant, C!Layout, C!K
<1> QED BY <1>2, <1>3, <1>4, <1>5

\* What the settings s say of a call.
TookIn(s, d) == Tail(C!Setting(s, C!KeyMeant(d))) = SubSeq(d.args, C!Meant[d.op][2] + 1, Len(d.args))

\* A call that is meant to set something sets just that.
LEMMA MeantSays ==
  ASSUME NEW d, Asks(d), d.list = FALSE, d.op \in DOMAIN C!Meant, Len(d.args) >= C!Meant[d.op][2], NEW s
  PROVE  LET e == C!Effect(s, d.ch, C!Data(d))
         IN  /\ DOMAIN e = DOMAIN s \union {C!KeyMeant(d)} /\ TookIn(e, d)
             /\ \A key \in DOMAIN s : key # C!KeyMeant(d) => e[key] = s[key]
             /\ \A key : key # C!KeyMeant(d) => C!Setting(e, key) = C!Setting(s, key)
<1> DEFINE words == C!Data(d)
           nm == C!Calls[d.op].id
           m == C!Meant[d.op][2]
           e == C!Effect(s, d.ch, words)
<1>1. d.args \in Seq(Word) /\ nm \in Ids /\ nm \notin C!Gettable \union {"RESET"} /\ C!Calls[d.op] = C!W(nm, 0, << >>)
      /\ m \in Nat /\ C!Layout[nm].value = m + 2 /\ C!Layout[nm].kind = C!Meant[d.op][1]
  BY MeantWords DEF Asks
<1>2. m \in 0 .. Len(d.args)
  BY <1>1
<1> HIDE DEF nm, m
<1>3. /\ words[1] = nm
      /\ C!Key(d.ch, words) = <<C!Layout[nm].kind, d.ch, SubSeq(d.args, 1, m)>>
      /\ Tail(C!Value(words)) = SubSeq(d.args, m + 1, Len(d.args))
  BY <1>1, <1>2, Says
<1>4. C!Key(d.ch, words) = C!KeyMeant(d)
  BY <1>1, <1>3 DEF C!KeyMeant, m
<1>5. e = [key \in DOMAIN s \union {C!KeyMeant(d)} |-> IF key = C!KeyMeant(d) THEN C!Value(words) ELSE s[key]]
  BY <1>1, <1>3, <1>4 DEF C!Effect
<1> HIDE DEF words, e
<1>6. TookIn(e, d)
  BY <1>3, <1>5 DEF TookIn, C!Setting, m
<1> QED BY <1>5, <1>6 DEF C!Setting, words, e

\* What the call at a place of a demo does to the settings s.
LEMMA StepEffect ==
  ASSUME Demoing, NEW k \in 1 .. Len(C!Steps), NEW s
  PROVE  LET d == C!Steps[k].o
             e == C!Effect(s, d.ch, C!Data(d))
         IN  /\ k \in C!MadeBy(C!Steps) =>
                  /\ DOMAIN e = DOMAIN s \union {C!KeyMeant(d)} /\ TookIn(e, d)
                  /\ \A j \in C!MadeBy(C!Steps) : j # k =>
                       /\ C!KeyMeant(C!Steps[j].o) # C!KeyMeant(d)
                       /\ TookIn(e, C!Steps[j].o) <=> TookIn(s, C!Steps[j].o)
             /\ k \notin C!MadeBy(C!Steps) =>
                  \/ e = s
                  \/ k = 1 /\ d.op = "reset" /\ e = [key \in {x \in DOMAIN s : x[2] # d.ch} |-> s[key]]
<1> DEFINE d == C!Steps[k].o
           e == C!Effect(s, d.ch, C!Data(d))
<1>1. Asks(d) /\ d.list = FALSE /\ AtPlace(prog, k, C!Steps[k])
  BY DemosAsk, Placing DEF Demoing
<1>2. ASSUME k \in C!MadeBy(C!Steps)
      PROVE  /\ DOMAIN e = DOMAIN s \union {C!KeyMeant(d)} /\ TookIn(e, d)
             /\ \A j \in C!MadeBy(C!Steps) : j # k =>
                  /\ C!KeyMeant(C!Steps[j].o) # C!KeyMeant(d)
                  /\ TookIn(e, C!Steps[j].o) <=> TookIn(s, C!Steps[j].o)
  <2>1. d.op \in DOMAIN C!Meant /\ Len(d.args) >= C!Meant[d.op][2]
    BY <1>1, <1>2, MadeBySteps DEF AtPlace, Demoing
  <2>2. /\ DOMAIN e = DOMAIN s \union {C!KeyMeant(d)} /\ TookIn(e, d)
        /\ \A key : key # C!KeyMeant(d) => C!Setting(e, key) = C!Setting(s, key)
    BY <1>1, <2>1, MeantSays
  <2>3. ASSUME NEW j \in C!MadeBy(C!Steps), j # k
        PROVE  /\ C!KeyMeant(C!Steps[j].o) # C!KeyMeant(d)
               /\ TookIn(e, C!Steps[j].o) <=> TookIn(s, C!Steps[j].o)
    <3>1. C!KeyMeant(C!Steps[j].o) # C!KeyMeant(d)
      BY <1>2, <2>3, MadeOnce DEF Demoing
    <3> QED BY <2>2, <3>1 DEF TookIn
  <2> QED BY <2>2, <2>3
<1>3. ASSUME k \notin C!MadeBy(C!Steps)
      PROVE  \/ e = s
             \/ k = 1 /\ d.op = "reset" /\ e = [key \in {x \in DOMAIN s : x[2] # d.ch} |-> s[key]]
  <2>1. d.op \in {"reset", "get_pwm_status", "get_pwm_period"} /\ (d.op = "reset" => k = 1)
    BY <1>1, <1>3, MadeBySteps DEF AtPlace, Demoing
  <2>2. C!Data(d)[1] = C!Calls[d.op].id
    BY <1>1, DataSeq
  <2>3. C!Calls["reset"].id = "RESET" /\ C!Calls["get_pwm_status"].id = "GET_PWM_STATUS" /\ C!Calls["get_pwm_period"].id = "PWM_GET_PERIOD"
    BY CallWords DEF C!W
  <2>4. CASE d.op = "reset"
    <3>1. C!Data(d)[1] = "RESET"
      BY <2>2, <2>3, <2>4
    <3> HIDE DEF d
    <3> QED BY <2>1, <2>4, <3>1 DEF C!Effect
  <2>5. CASE d.op # "reset"
    <3>1. C!Data(d)[1] \in C!Gettable /\ C!Data(d)[1] # "RESET"
      BY <2>1, <2>2, <2>3, <2>5 DEF C!Gettable
    <3> HIDE DEF d
    <3> QED BY <3>1 DEF C!Effect
  <2> QED BY <2>4, <2>5
<1> QED BY <1>2, <1>3

\* The calls whose answers the demo has accepted.
Passed == IF at = "idle" /\ status # "failed" THEN step ELSE step - 1

\* The first call has been done.
Cleared == step > 1 \/ (step = 1 /\ IF at = "idle" THEN status # "failed" ELSE at = "done" /\ ret >= 0)

\* Where the demo is.
Followed ==
  /\ step \in 0 .. Len(C!Steps) /\ status \in {"running", "ok", "failed"}
  /\ status = "ok" => step = Len(C!Steps)
  /\ status = "failed" => step >= 1
  /\ at # "idle" => step >= 1 /\ status = "running" /\ o = C!Steps[step].o

\* The settings insisted on so far are in place, and the one that was just made.
Made ==
  /\ \A k \in C!Required : k <= Passed => TookIn(set, C!Steps[k].o)
  /\ at = "done" /\ ret >= 0 /\ o.op \in DOMAIN C!Meant => TookIn(set, o)

\* Where the counter is reset first, all there is afterwards is the demo's own.
Own ==
  prog \in C!Resets =>
    /\ ~Cleared => \A key \in DOMAIN set : key[2] = 0
    /\ Cleared => \A key \in DOMAIN set : \E k \in C!MadeBy(C!Steps) : k <= step /\ key = C!KeyMeant(C!Steps[k].o)
    /\ Cleared => \A k \in C!MadeBy(C!Steps) : C!KeyMeant(C!Steps[k].o) \in DOMAIN set => TookIn(set, C!Steps[k].o)

CountersInv == Demoing /\ Placed /\ Followed /\ Made /\ Own

\* The programs do not change.
LEMMA TablesSame ==
  ASSUME prog' = prog, period' = period, up' = up
  PROVE  /\ C!Steps' = C!Steps /\ C!MadeBy(C!Steps)' = C!MadeBy(C!Steps) /\ C!Required' = C!Required
         /\ Demoing' <=> Demoing
         /\ \A key : (C!KeyMeant(key))' = C!KeyMeant(key)
<1>1. C!Steps' = C!Steps /\ (DOMAIN C!Demos)' = DOMAIN C!Demos
  BY StepsSame
<1>2. C!MadeBy(C!Steps)' = C!MadeBy(C!Steps)
  BY <1>1 DEF C!MadeBy, C!Meant
<1>3. C!Required' = C!Required
  BY <1>1, <1>2 DEF C!Required
<1>4. Demoing' <=> Demoing
  BY <1>1 DEF Demoing
<1> QED BY <1>1, <1>2, <1>3, <1>4 DEF C!KeyMeant

\* An instruction that takes effect.
LEMMA EffectKeeps ==
  ASSUME CountersInv, C!Instruct, at \in {"in", "again"}, o' = o, at' \in {"again", "done"}, step' = step, status' = status,
         prog' = prog, period' = period, up' = up, ret' \in Int
  PROVE  Followed' /\ Made' /\ Own'
<1>1. /\ C!Steps' = C!Steps /\ C!MadeBy(C!Steps)' = C!MadeBy(C!Steps) /\ C!Required' = C!Required
  BY TablesSame
<1>2. step \in 1 .. Len(C!Steps) /\ status = "running" /\ o = C!Steps[step].o /\ Demoing /\ prog \in DOMAIN C!Demos
  <2>1. step \in 0 .. Len(C!Steps) /\ step >= 1 /\ status = "running" /\ o = C!Steps[step].o
    BY DEF CountersInv, Followed
  <2>2. Demoing /\ prog \in DOMAIN C!Demos
    BY DEF CountersInv, Demoing
  <2>3. Len(C!Steps) \in Nat
    BY <2>2, StepsSeq
  <2> QED BY <2>1, <2>2, <2>3
<1>3. set' = C!Effect(set, o.ch, C!Data(o))
  BY DEF C!Instruct
<1> DEFINE e == C!Effect(set, o.ch, C!Data(o))
<1>4. /\ step \in C!MadeBy(C!Steps) =>
           /\ DOMAIN e = DOMAIN set \union {C!KeyMeant(o)} /\ TookIn(e, o)
           /\ \A j \in C!MadeBy(C!Steps) : j # step =>
                /\ C!KeyMeant(C!Steps[j].o) # C!KeyMeant(o)
                /\ TookIn(e, C!Steps[j].o) <=> TookIn(set, C!Steps[j].o)
      /\ step \notin C!MadeBy(C!Steps) =>
           \/ e = set
           \/ step = 1 /\ o.op = "reset" /\ e = [key \in {x \in DOMAIN set : x[2] # o.ch} |-> set[key]]
  <2> DEFINE d == C!Steps[step].o
             f == C!Effect(set, d.ch, C!Data(d))
  <2>1. /\ step \in C!MadeBy(C!Steps) =>
             /\ DOMAIN f = DOMAIN set \union {C!KeyMeant(d)} /\ TookIn(f, d)
             /\ \A j \in C!MadeBy(C!Steps) : j # step =>
                  /\ C!KeyMeant(C!Steps[j].o) # C!KeyMeant(d)
                  /\ TookIn(f, C!Steps[j].o) <=> TookIn(set, C!Steps[j].o)
        /\ step \notin C!MadeBy(C!Steps) =>
             \/ f = set
             \/ step = 1 /\ d.op = "reset" /\ f = [key \in {x \in DOMAIN set : x[2] # d.ch} |-> set[key]]
    BY <1>2, StepEffect, ZenonT(30)
  <2> HIDE DEF d
  <2>2. o = d
    BY <1>2 DEF d
  <2> QED BY <2>1, <2>2
<1> HIDE DEF e
<1>5. set' = e
  BY <1>3 DEF e
<1>6. Followed'
  BY <1>1, <1>2 DEF Followed
<1>7. Made'
  <2>1. Passed = step - 1 /\ Passed' = step - 1
    BY <1>2 DEF Passed
  <2>2. ASSUME NEW k \in C!Required, k <= step - 1 PROVE TookIn(e, C!Steps[k].o)
    <3>1. TookIn(set, C!Steps[k].o)
      BY <2>1, <2>2 DEF CountersInv, Made
    <3>2. k \in C!MadeBy(C!Steps) /\ k \in Int /\ k >= 1 /\ k # step
      BY <2>2, <1>2, MadeBySteps DEF C!Required
    <3>3. step # 1
      BY <2>2, <3>2, <1>2
    <3> QED BY <1>4, <3>1, <3>2, <3>3
  <2>3. ASSUME o.op \in DOMAIN C!Meant PROVE TookIn(e, o)
    BY <1>2, <1>4, <2>3, MadeBySteps
  <2>4. (DOMAIN C!Meant)' = DOMAIN C!Meant
    BY DEF C!Meant
  <2> QED BY <1>1, <1>5, <2>1, <2>2, <2>3, <2>4 DEF Made, TookIn, C!Setting
<1>8. Own'
  <2> SUFFICES ASSUME prog \in C!Resets
               PROVE  /\ Cleared' \/ \A key \in DOMAIN e : key[2] = 0
                      /\ Cleared' => \A key \in DOMAIN e : \E k \in C!MadeBy(C!Steps) : k <= step /\ key = C!KeyMeant(C!Steps[k].o)
                      /\ Cleared' => \A k \in C!MadeBy(C!Steps) : C!KeyMeant(C!Steps[k].o) \in DOMAIN e => TookIn(e, C!Steps[k].o)
    BY <1>1, <1>5 DEF Own, C!Resets, TookIn, C!Setting
  <2>1. CASE step = 1
    <3>1. o.op = "reset" /\ o.ch = 0
      BY <1>2, <2>1, ResetFirst
    <3>2. step \notin C!MadeBy(C!Steps)
      <4>1. "reset" \notin DOMAIN C!Meant
        BY DEF C!Meant
      <4> QED BY <1>2, <3>1, <4>1, MadeBySteps
    <3>3. ~Cleared
      BY <2>1 DEF Cleared
    <3>4. \A key \in DOMAIN set : key[2] = 0
      BY <3>3 DEF CountersInv, Own
    <3>5. e = C!Effect(set, 0, C!Data(o)) /\ C!Data(o)[1] = "RESET"
      <4>1. Asks(o)
        BY <1>2, DemosAsk DEF Demoing
      <4> QED BY <3>1, <4>1, DataSeq, CallWords DEF e, C!W
    <3>6. DOMAIN e = {}
      BY <3>4, <3>5 DEF C!Effect
    <3> QED BY <3>6
  <2>2. CASE step # 1
    <3>1. step > 1
      BY <1>2, <2>2
    <3>2. Cleared /\ Cleared'
      BY <3>1 DEF Cleared
    <3>3. /\ \A key \in DOMAIN set : \E k \in C!MadeBy(C!Steps) : k <= step /\ key = C!KeyMeant(C!Steps[k].o)
          /\ \A k \in C!MadeBy(C!Steps) : C!KeyMeant(C!Steps[k].o) \in DOMAIN set => TookIn(set, C!Steps[k].o)
      BY <3>2 DEF CountersInv, Own
    <3>4. CASE step \in C!MadeBy(C!Steps)
      <4>1. ASSUME NEW key \in DOMAIN e PROVE \E k \in C!MadeBy(C!Steps) : k <= step /\ key = C!KeyMeant(C!Steps[k].o)
        <5>1. key \in DOMAIN set \/ key = C!KeyMeant(C!Steps[step].o)
          BY <1>2, <1>4, <3>4, <4>1
        <5>2. step <= step
          BY <1>2
        <5> QED BY <5>1, <5>2, <3>3, <3>4
      <4>2. ASSUME NEW k \in C!MadeBy(C!Steps), C!KeyMeant(C!Steps[k].o) \in DOMAIN e PROVE TookIn(e, C!Steps[k].o)
        BY <1>2, <1>4, <3>3, <3>4, <4>2
      <4> QED BY <3>2, <4>1, <4>2
    <3>5. CASE step \notin C!MadeBy(C!Steps)
      BY <1>4, <2>2, <3>2, <3>3, <3>5
    <3> QED BY <3>4, <3>5
  <2> QED BY <2>1, <2>2
<1> QED BY <1>6, <1>7, <1>8

\* A call of a demo is answered or fails.
LEMMA InCallCounters ==
  ASSUME CountersInv, Clean(set), C!InCall
  PROVE  Followed' /\ Made' /\ Own'
<1>0. /\ at \in {"in", "again"} /\ o' = o /\ step' = step /\ status' = status /\ prog' = prog /\ period' = period /\ up' = up
  BY DEF C!InCall, C!Answered, C!OtherSource, C!Failed, C!demo
<1>1. CASE C!Answered
  <2>1. C!Instruct /\ at' \in {"again", "done"}
    BY <1>1 DEF C!Answered, C!Instruct
  <2>2. Asks(o)
    BY <1>0 DEF CountersInv, Placed
  <2>3. ret' = (IF o.op \in DOMAIN C!Answers THEN C!Reply(set, o.ch, C!Data(o))[C!Answers[o.op]] ELSE 0)
    BY <1>1 DEF C!Answered
  <2>4. ret' \in Int
    BY <2>2, <2>3, AnswerIs
  <2> QED BY <1>0, <2>1, <2>4, EffectKeeps
<1>2. CASE C!OtherSource
  <2>1. C!Instruct /\ at' \in {"again", "done"} /\ ret' = ret
    BY <1>2 DEF C!OtherSource, C!Instruct
  <2>2. ret' \in Int
    BY <2>1 DEF CountersInv, Placed
  <2> QED BY <1>0, <2>1, <2>2, EffectKeeps
<1>3. CASE C!Failed
  <2>1. at' = "done" /\ ret' = -1 /\ set' = set
    BY <1>3 DEF C!Failed, C!Refused
  <2>2. /\ C!Steps' = C!Steps /\ C!MadeBy(C!Steps)' = C!MadeBy(C!Steps) /\ C!Required' = C!Required
    BY <1>0, TablesSame
  <2>3. Followed'
    BY <1>0, <2>1, <2>2 DEF CountersInv, Followed
  <2>4. Made'
    <3>1. Passed' = Passed
      BY <1>0, <2>1 DEF Passed
    <3>2. ~(at' = "done" /\ ret' >= 0)
      BY <2>1
    <3>3. \A k \in C!Required : k <= Passed => TookIn(set, C!Steps[k].o)
      BY DEF CountersInv, Made
    <3> QED BY <2>1, <2>2, <3>1, <3>2, <3>3 DEF Made, TookIn, C!Setting
  <2>5. Own'
    <3>1. Cleared' <=> Cleared
      BY <1>0, <2>1 DEF Cleared
    <3> QED BY <1>0, <2>1, <2>2, <3>1 DEF CountersInv, Own, C!Resets, TookIn, C!Setting
  <2> QED BY <2>3, <2>4, <2>5
<1> QED BY <1>1, <1>2, <1>3 DEF C!InCall

\* A demo makes its next call.
LEMMA NextCallCounters ==
  ASSUME CountersInv, C!NextCall
  PROVE  Followed' /\ Made' /\ Own'
<1>1. /\ status = "running" /\ step < Len(C!Steps) /\ at = "idle" /\ at' = "in" /\ o' = C!Steps[step + 1].o
      /\ ret' = 0 /\ set' = set /\ step' = step + 1 /\ status' = status /\ prog' = prog /\ period' = period /\ up' = up
  BY DEF C!NextCall, C!Call, C!device, C!demo
<1>2. /\ C!Steps' = C!Steps /\ C!MadeBy(C!Steps)' = C!MadeBy(C!Steps) /\ C!Required' = C!Required
  BY <1>1, TablesSame
<1>3. step \in Nat /\ Len(C!Steps) \in Nat /\ prog \in DOMAIN C!Demos
  <2>1. step \in 0 .. Len(C!Steps) /\ prog \in DOMAIN C!Demos
    BY DEF CountersInv, Demoing, Followed
  <2>2. Len(C!Steps) \in Nat
    BY <2>1, StepsSeq
  <2> QED BY <2>1, <2>2
<1>4. Followed'
  BY <1>1, <1>2, <1>3 DEF Followed
<1>5. Made'
  <2>1. Passed' = step /\ Passed = step
    BY <1>1, <1>3 DEF Passed
  <2> QED BY <1>1, <1>2, <2>1 DEF CountersInv, Made, TookIn, C!Setting
<1>6. Own'
  <2>1. Cleared' <=> Cleared
    BY <1>1, <1>3 DEF Cleared
  <2>2. \A k \in C!MadeBy(C!Steps) : k <= step => k <= step + 1
    BY <1>3, MadeBySteps
  <2> QED BY <1>1, <1>2, <2>1, <2>2 DEF CountersInv, Own, C!Resets, TookIn, C!Setting
<1> QED BY <1>4, <1>5, <1>6

\* A demo looks at an answer.
LEMMA LookAtCounters ==
  ASSUME CountersInv, C!LookAt
  PROVE  Followed' /\ Made' /\ Own'
<1>1. /\ at = "done" /\ at' = "idle" /\ set' = set /\ step' = step /\ prog' = prog /\ period' = period /\ up' = up
      /\ status' = (IF ret < 0 /\ C!Steps[step].must THEN "failed" ELSE IF step = Len(C!Steps) THEN "ok" ELSE "running")
  BY DEF C!LookAt, C!Return, C!device, C!demo
<1>2. /\ C!Steps' = C!Steps /\ C!MadeBy(C!Steps)' = C!MadeBy(C!Steps) /\ C!Required' = C!Required
  BY <1>1, TablesSame
<1>3. /\ step \in Nat /\ step >= 1 /\ step <= Len(C!Steps) /\ Len(C!Steps) \in Nat /\ prog \in DOMAIN C!Demos /\ o = C!Steps[step].o
      /\ status = "running" /\ ret \in Int
  <2>1. /\ step \in 0 .. Len(C!Steps) /\ prog \in DOMAIN C!Demos /\ step >= 1 /\ o = C!Steps[step].o
        /\ status = "running" /\ ret \in Int
    BY <1>1 DEF CountersInv, Demoing, Followed, Placed
  <2>2. Len(C!Steps) \in Nat
    BY <2>1, StepsSeq
  <2> QED BY <2>1, <2>2
<1>4. Followed'
  BY <1>1, <1>2, <1>3 DEF CountersInv, Followed
<1>5. Made'
  <2>1. Passed = step - 1 /\ Passed' = (IF ret < 0 /\ C!Steps[step].must THEN step - 1 ELSE step)
    BY <1>1 DEF Passed
  <2>2. ASSUME NEW k \in C!Required, k <= Passed' PROVE TookIn(set, C!Steps[k].o)
    <3>1. k \in C!MadeBy(C!Steps) /\ k \in Nat /\ C!Steps[k].must /\ C!Steps[k].o.op \in DOMAIN C!Meant
      BY <1>3, MadeBySteps DEF C!Required
    <3>2. CASE k <= step - 1
      BY <2>1, <3>2 DEF CountersInv, Made
    <3>3. CASE k = step
      <4>1. ret >= 0
        BY <1>3, <2>1, <2>2, <3>1, <3>3
      <4> QED BY <1>1, <1>3, <3>1, <3>3, <4>1 DEF CountersInv, Made
    <3> QED BY <1>3, <2>1, <2>2, <3>1, <3>2, <3>3
  <2> QED BY <1>1, <1>2, <2>2 DEF Made, TookIn, C!Setting
<1>6. Own'
  <2> SUFFICES ASSUME prog \in C!Resets PROVE Own'
    BY <1>1 DEF Own, C!Resets
  <2>1. Cleared' <=> Cleared
    <3>1. C!Steps[1].must
      BY ResetFirst
    <3> QED BY <1>1, <1>3, <3>1 DEF Cleared
  <2> QED BY <1>1, <1>2, <2>1 DEF CountersInv, Own, C!Resets, TookIn, C!Setting
<1> QED BY <1>4, <1>5, <1>6

\* The invariant holds when a demo starts,
LEMMA CountersBegin == CallsInit /\ by = "demo" => CountersInv
<1> SUFFICES ASSUME CallsInit, by = "demo" PROVE CountersInv
  OBVIOUS
<1>1. C!DemoInit
  BY DEF CallsInit
<1>2. /\ prog \in DOMAIN C!Demos /\ period \in Nat /\ up \in Nat /\ step = 0 /\ status = "running" /\ at = "idle"
  BY <1>1, DemoConstants DEF C!DemoInit, C!ConfigInit
<1>3. Placed
  BY ConfigBegins DEF AnswersInv, ConfigInv
<1>4. PICK s \in C!Leftovers : set = s
  BY <1>1 DEF C!DemoInit, C!ConfigInit
<1>5. \A key \in DOMAIN set : key[2] = 0
  BY <1>4 DEF C!Leftovers
<1>6. Len(C!Steps) \in Nat
  BY <1>2, StepsSeq
<1>7. Made
  BY <1>2, MadeBySteps DEF Made, Passed, C!Required
<1>8. Followed
  BY <1>2, <1>6 DEF Followed
<1>9. Own
  BY <1>2, <1>5 DEF Own, Cleared
<1> QED BY <1>2, <1>3, <1>7, <1>8, <1>9 DEF CountersInv, Demoing

\* and every step keeps it.
LEMMA CountersStep ==
  ASSUME AnswersInv, AnswersInv', by = "demo" => CountersInv, [CallsNext]_callsVars
  PROVE  (by = "demo" => CountersInv)'
<1>0. by' = by
  BY DEF CallsNext, callsVars, Configures, Demonstrates, Bitfields, Chooses, AccessesModules, Transmits
<1> SUFFICES ASSUME by = "demo" PROVE CountersInv'
  BY <1>0
<1>1. CountersInv /\ Clean(set) /\ Placed'
  BY <1>0 DEF AnswersInv, ConfigInv
<1>2. CASE Demonstrates /\ C!DemoNext
  <2>1. prog' = prog /\ period' = period /\ up' = up
    BY <1>2, DemoStep
  <2>2. Demoing'
    BY <1>1, <2>1, TablesSame DEF CountersInv
  <2>3. Followed' /\ Made' /\ Own'
    BY <1>1, <1>2, InCallCounters, NextCallCounters, LookAtCounters DEF C!DemoNext
  <2> QED BY <1>1, <2>2, <2>3 DEF CountersInv
<1>3. CASE UNCHANGED callsVars
  <2>1. UNCHANGED <<by, ioctls, set, at, o, out, ret, applied, prev, others, prog, period, up, step, status>>
    BY <1>3 DEF callsVars, configOnly
  <2>2. /\ C!Steps' = C!Steps /\ C!MadeBy(C!Steps)' = C!MadeBy(C!Steps) /\ C!Required' = C!Required /\ (Demoing' <=> Demoing)
    BY <2>1, TablesSame
  <2>3. Followed'
    BY <1>1, <2>1, <2>2 DEF CountersInv, Followed
  <2>4. Made'
    BY <1>1, <2>1, <2>2 DEF CountersInv, Made, Passed, TookIn, C!Setting
  <2>5. Own'
    BY <1>1, <2>1, <2>2 DEF CountersInv, Own, Cleared, C!Resets, TookIn, C!Setting
  <2> QED BY <1>1, <2>2, <2>3, <2>4, <2>5 DEF CountersInv
<1>4. ~(Configures \/ Bitfields \/ Chooses \/ AccessesModules \/ Transmits)
  BY DEF Configures, Bitfields, Chooses, AccessesModules, Transmits
<1> QED BY <1>2, <1>3, <1>4 DEF CallsNext

\* The pulse generator's arithmetic does not leave an unsigned int.
PeriodsFit == \A t \in Periods \union UpTimes : t + (ClockPeriod \div 2) < UIntMod

\* What division gives.
LEMMA Quotient ==
  ASSUME NEW a \in Nat, NEW c_ \in Nat \ {0}, NEW q, q = a \div c_
  PROVE  q \in Nat /\ c_ * q <= a /\ a < c_ * q + c_ /\ q <= a
<1>1. q \in Nat /\ c_ * q <= a /\ a < c_ * q + c_
  BY Z3
<1>2. c_ \in Nat /\ c_ >= 1
  OBVIOUS
<1>3. q <= c_ * q
  BY <1>1, <1>2, Z3
<1> QED BY <1>1, <1>3

\* Division keeps the order.
LEMMA QuotientsOrdered ==
  ASSUME NEW a \in Nat, NEW b \in Nat, a <= b, NEW c_ \in Nat \ {0}
  PROVE  a \div c_ <= b \div c_
<1>1. PICK q \in Nat : q = a \div c_ /\ c_ * q <= a
  BY Quotient
<1>2. PICK r \in Nat : r = b \div c_ /\ b < c_ * r + c_
  BY Quotient
<1>3. ASSUME q > r PROVE FALSE
  <2>1. q >= r + 1
    BY <1>3
  <2>2. c_ * q >= c_ * (r + 1)
    BY <2>1, Z3
  <2>3. c_ * (r + 1) = c_ * r + c_
    BY Z3
  <2> QED BY <1>1, <1>2, <2>2, <2>3
<1> QED BY <1>1, <1>2, <1>3

\* Ticks rounds to the nearest.
LEMMA TicksNear ==
  ASSUME NEW t \in Nat, t + (ClockPeriod \div 2) < UIntMod
  PROVE  /\ C!Ticks(t) \in Nat /\ C!Ticks(t) < UIntMod /\ C!Near(C!Ticks(t), t)
         /\ C!Ticks(t) = (t + (ClockPeriod \div 2)) \div ClockPeriod
<1>1. PICK p \in Nat \ {0}, m \in Nat \ {0} : p = ClockPeriod /\ m = UIntMod
  BY DemoConstants
<1>2. PICK h \in Nat : h = p \div 2 /\ 2 * h <= p /\ p <= 2 * h + 1
  <2>1. p \div 2 \in Nat /\ 2 * (p \div 2) <= p /\ p <= 2 * (p \div 2) + 1
    BY <1>1
  <2> QED BY <2>1
<1>3. t + h \in Nat /\ t + h < m /\ (t + h) % m = t + h
  BY <1>1, <1>2
<1>4. C!Ticks(t) = (t + h) \div p
  BY <1>1, <1>2, <1>3 DEF C!Ticks
<1>5. PICK q \in Nat : q = (t + h) \div p /\ p * q <= t + h /\ t + h < p * q + p /\ q <= t + h
  BY <1>1, <1>3, Quotient
<1>6. p * q \in Nat /\ p * q = q * p
  BY <1>1
<1>7. C!Near(q, t)
  <2> DEFINE x == q * p
  <2>1. x \in Nat /\ x <= t + h /\ t + h < x + p
    BY <1>5, <1>6
  <2> HIDE DEF x
  <2>2. 2 * (x - t) \in -p .. p
    BY <1>1, <1>2, <2>1
  <2> QED BY <1>1, <2>2 DEF C!Near, x
<1> QED BY <1>1, <1>2, <1>3, <1>4, <1>5, <1>7

\* The pulse's low and high times.
LEMMA PulseTicks ==
  ASSUME PeriodsFit, Demoing, period \in Periods, up \in UpTimes, up <= period
  PROVE  /\ C!UpTicks \in Nat /\ C!DownTicks \in Nat
         /\ C!Near(C!UpTicks, up) /\ C!Near(C!DownTicks + C!UpTicks, period)
<1> DEFINE u == C!Ticks(up)
           p == C!Ticks(period)
<1>1. up + (ClockPeriod \div 2) < UIntMod /\ period + (ClockPeriod \div 2) < UIntMod
  BY DEF PeriodsFit
<1>2. /\ u \in Nat /\ u < UIntMod /\ C!Near(u, up) /\ u = (up + (ClockPeriod \div 2)) \div ClockPeriod
      /\ p \in Nat /\ p < UIntMod /\ C!Near(p, period) /\ p = (period + (ClockPeriod \div 2)) \div ClockPeriod
  BY <1>1, TicksNear DEF Demoing
<1>3. u <= p
  <2>1. PICK h \in Nat : h = ClockPeriod \div 2
    BY DemoConstants
  <2>2. up + h \in Nat /\ period + h \in Nat /\ up + h <= period + h
    BY <2>1 DEF Demoing
  <2>3. (up + h) \div ClockPeriod <= (period + h) \div ClockPeriod
    BY <2>2, DemoConstants, QuotientsOrdered
  <2> QED BY <1>2, <2>1, <2>3
<1> HIDE DEF u, p
<1>4. C!UpTicks = u /\ C!DownTicks = (p - u) % UIntMod
  BY DEF u, p, C!UpTicks, C!DownTicks
<1>5. (p - u) % UIntMod = p - u
  <2>1. p - u \in Nat /\ p - u < UIntMod /\ UIntMod \in Nat
    BY <1>2, <1>3, DemoConstants
  <2> QED BY <2>1
<1>6. (p - u) + u = p /\ p - u \in Nat
  BY <1>2, <1>3
<1> QED BY <1>2, <1>4, <1>5, <1>6

\* The invariant says what the demos promise of their settings,
LEMMA CountersDone ==
  ASSUME CountersInv
  PROVE  C!ConfiguredAsMeant /\ C!ArmedConfigured /\ C!NothingLeftOver
<1>1. step \in 0 .. Len(C!Steps) /\ prog \in DOMAIN C!Demos /\ Len(C!Steps) \in Nat
  <2>1. step \in 0 .. Len(C!Steps) /\ prog \in DOMAIN C!Demos
    BY DEF CountersInv, Followed, Demoing
  <2> QED BY <2>1, StepsSeq
<1>2. \A d : C!Took(d) <=> TookIn(set, d)
  BY DEF C!Took, TookIn
<1>3. \A k \in C!Required : k \in C!MadeBy(C!Steps) /\ k \in Nat /\ k <= Len(C!Steps)
  BY <1>1, MadeBySteps DEF C!Required
<1>4. status = "ok" => step = Len(C!Steps) /\ at = "idle" /\ Passed = step
  BY DEF CountersInv, Followed, Passed
<1>5. C!ConfiguredAsMeant
  BY <1>2, <1>3, <1>4 DEF C!ConfiguredAsMeant, CountersInv, Made
<1>6. C!ArmedConfigured
  <2> DEFINE key == <<"armed", 0, << >>>>
  <2> SUFFICES ASSUME prog \in C!Resets, step > 1, C!Armed, NEW j \in C!Required
               PROVE  TookIn(set, C!Steps[j].o)
    BY <1>2 DEF C!ArmedConfigured
  <2>1. key \in DOMAIN set
    BY DEF C!Armed, C!Setting, C!Default
  <2>2. Cleared
    BY DEF Cleared
  <2> HIDE DEF key
  <2>3. PICK k \in C!MadeBy(C!Steps) : k <= step /\ key = C!KeyMeant(C!Steps[k].o)
    BY <2>1, <2>2 DEF CountersInv, Own
  <2>4. AtPlace(prog, k, C!Steps[k]) /\ k \in 1 .. Len(C!Steps) /\ C!Steps[k].o.op \in DOMAIN C!Meant
    BY <1>1, <2>3, MadeBySteps, Placing
  <2>5. k = Len(C!Steps) /\ step = Len(C!Steps)
    BY <1>1, <2>3, <2>4, ResetFirst DEF AtPlace, key
  <2>6. Passed >= Len(C!Steps) - 1
    BY <1>1, <2>5 DEF Passed
  <2>7. CASE j <= Len(C!Steps) - 1
    BY <1>1, <1>3, <2>6, <2>7 DEF CountersInv, Made, Passed
  <2>8. CASE j = Len(C!Steps)
    BY <2>1, <2>2, <2>3, <2>5, <2>8 DEF CountersInv, Own
  <2> QED BY <1>1, <1>3, <2>7, <2>8
<1>7. C!NothingLeftOver
  <2> SUFFICES ASSUME status = "ok", prog \in C!Resets, NEW key \in DOMAIN set
               PROVE  \E k \in C!MadeBy(C!Steps) : key = C!KeyMeant(C!Steps[k].o)
    BY DEF C!NothingLeftOver
  <2>1. Cleared
    BY <1>1, <1>4, ResetFirst DEF Cleared
  <2> QED BY <2>1 DEF CountersInv, Own
<1> QED BY <1>5, <1>6, <1>7

\* The value after the name.
LEMMA SecondWord ==
  ASSUME NEW T, NEW v \in Seq(T), v # << >>, NEW x, Tail(v) = <<x>>
  PROVE  v[2] = x
<1>1. Len(Tail(v)) = 1 /\ Tail(v)[1] = x
  <2>1. Len(<<x>>) = 1 /\ <<x>>[1] = x
    OBVIOUS
  <2> QED BY <2>1
<1>2. Len(v) \in Nat /\ Len(v) # 0
  OBVIOUS
<1>3. Len(Tail(v)) = Len(v) - 1
  BY <1>2
<1>4. Tail(v)[1] = v[2]
  BY <1>1, <1>2, <1>3
<1> QED BY <1>1, <1>4

\* What a register holds after a write that the demo insists on.
LEMMA RegisterHolds ==
  ASSUME Clean(set), NEW ch, NEW x \in Nat, TookIn(set, C!Op("data_write", ch, <<x>>))
  PROVE  C!Register(ch) = x
<1> DEFINE d == C!Op("data_write", ch, <<x>>)
           key == <<"register", ch, << >>>>
           v == C!Setting(set, key)
<1>1. C!KeyMeant(d) = key
  BY KeysOf
<1>2. d.op = "data_write" /\ d.args = <<x>> /\ C!Meant["data_write"][2] = 0
  BY DEF C!Op, C!Meant
<1>3. SubSeq(<<x>>, 0 + 1, Len(<<x>>)) = <<x>>
  <2>1. x \in Word
    BY DEF Word
  <2>2. <<x>> \in Seq(Word)
    BY <2>1
  <2> QED BY <2>2, EmptyParts
<1>4. Tail(v) = <<x>>
  BY <1>1, <1>2, <1>3 DEF TookIn
<1>5. CASE key \in DOMAIN set
  <2>1. v = set[key]
    BY <1>5 DEF C!Setting
  <2>2. v \in Seq(Word) /\ v # << >>
    BY <1>5, <2>1 DEF Clean
  <2> HIDE DEF v
  <2>3. v[2] = x
    BY <1>4, <2>2, SecondWord
  <2> QED BY <2>3 DEF v, C!Register
<1>6. CASE key \notin DOMAIN set
  <2>1. v = <<"NONE", 0>>
    BY <1>6 DEF C!Setting, C!Default
  <2>2. v \in Seq({"NONE", 0}) /\ v # << >>
    <3> HIDE DEF v
    <3> QED BY <2>1
  <2> HIDE DEF v
  <2>3. v[2] = x
    BY <1>4, <2>2, SecondWord
  <2> QED BY <2>3 DEF v, C!Register
<1> QED BY <1>5, <1>6

\* and of the pulse.
LEMMA PulseDone ==
  ASSUME PeriodsFit, CountersInv, Clean(set), period \in Periods, up \in UpTimes
  PROVE  C!PulseAsAsked
<1> SUFFICES ASSUME prog = "gpct_pulse_generator", status = "ok", up <= period
             PROVE  C!Near(C!Register(2), up) /\ C!Near(C!Register(1) + C!Register(2), period) /\ C!Register(0) = C!Register(1)
  BY DEF C!PulseAsAsked
<1>1. C!UpTicks \in Nat /\ C!DownTicks \in Nat /\ C!Near(C!UpTicks, up) /\ C!Near(C!DownTicks + C!UpTicks, period)
  BY PulseTicks DEF CountersInv
<1>2. /\ C!Steps[6] = C!Must("data_write", 0, <<C!DownTicks>>) /\ C!Steps[7] = C!Must("data_write", 1, <<C!DownTicks>>)
      /\ C!Steps[8] = C!Must("data_write", 2, <<C!UpTicks>>) /\ Len(C!Steps) = 9
  BY DEF C!Steps, C!Demos, C!PulseGenerator
<1>3. \A ch, x : C!Must("data_write", ch, <<x>>).o = C!Op("data_write", ch, <<x>>) /\ C!Op("data_write", ch, <<x>>).op = "data_write"
                 /\ C!Must("data_write", ch, <<x>>).must
  BY DEF C!Must, C!Op
<1>4. "data_write" \in DOMAIN C!Meant
  BY DEF C!Meant
<1>5. prog \in DOMAIN C!Demos
  BY DEF CountersInv, Demoing
<1>6. 6 \in C!Required /\ 7 \in C!Required /\ 8 \in C!Required
  BY <1>2, <1>3, <1>4, <1>5, MadeBySteps DEF C!Required
<1>7. C!ConfiguredAsMeant
  BY CountersDone
<1>8. TookIn(set, C!Steps[6].o) /\ TookIn(set, C!Steps[7].o) /\ TookIn(set, C!Steps[8].o)
  BY <1>6, <1>7 DEF C!ConfiguredAsMeant, C!Took, TookIn
<1>9. C!Register(0) = C!DownTicks /\ C!Register(1) = C!DownTicks /\ C!Register(2) = C!UpTicks
  BY <1>1, <1>2, <1>3, <1>8, RegisterHolds
<1> QED BY <1>1, <1>9

\* A demo that says it has configured a counter has, a counter is armed only
\* when all of it is in place, nothing of another program is left after a
\* reset, and the pulse is as asked for to half a clock tick, whichever calls
\* fail, as long as the period fits an unsigned int.
THEOREM CountersConfigured == PeriodsFit => (CallsSpec => []CountersAsMeant)
<1> SUFFICES ASSUME PeriodsFit PROVE CallsSpec => []CountersAsMeant
  OBVIOUS
<1> DEFINE Inv == AnswersInv /\ (by = "demo" => CountersInv)
<1>1. CallsInit => Inv
  BY ConfigBegins, CountersBegin
<1>2. Inv /\ [CallsNext]_callsVars => Inv'
  BY AnswersStep, CountersStep
<1>3. Inv => CountersAsMeant
  BY CountersDone, PulseDone DEF AnswersInv, ConfigInv, CountersAsMeant
<1> HIDE DEF Inv
<1> QED BY <1>1, <1>2, <1>3, PTL DEF CallsSpec

-----------------------------------------------------------------------------
(***************************************************************************)
(* Scxi.  A call is a plan of transfers; how many of them have been made,  *)
(* or left out, says how the chassis stands.                               *)
(***************************************************************************)
\* A transfer, as the plans hold them.
TransferSet ==
  [do : {"SS", "DA"}, v : {0, 1}, skip : Nat] \union [do : {"clock", "shift", "read"}, v : Int, skip : Nat]

\* The plans of scxi_identify, of its second question, and of a register access.
OpenPlan(s) == <<X!Line("DA", 1), X!Line("SS", 1)>> \o X!SlotSelect(s) \o <<X!Transfer("clock", 0, 0), X!Read>>
AgainPlan == <<X!Line("DA", 0), X!Read, X!Line("DA", 1)>>
High(class, r) == IF class = 1 /\ r = 0 THEN <<X!Line("SS", 1)>> ELSE << >>
TransferPlan(class, s, r, n) ==
  X!module_select(s, class, r) \o [k \in 1 .. n |-> X!Shift(k)] \o High(class, r) \o X!module_deselect(class)

Plan ==
  IF call.fn = "open" THEN OpenPlan(call.slot)
  ELSE IF call.fn = "again" THEN AgainPlan
  ELSE IF call.fn = "opened" THEN X!module_deselect(2)
  ELSE IF call.fn = "transfer" THEN TransferPlan(X!ClassOf(call.slot), call.slot, call.reg, call.bytes)
  ELSE << >>

\* Transfers of the plan that are behind.
Behind == Len(Plan) - Len(todo)

\* In a register access: transfers before D/A is lowered, before the last
\* byte has gone, before D/A is raised, and before the slot is given up.
Prepared == IF X!ClassOf(call.slot) = 1 THEN 5 ELSE 6
Filled == Prepared + 1 + call.bytes
Sent == IF X!ClassOf(call.slot) = 1 /\ call.reg = 0 THEN Filled + 1 ELSE Filled
Parked == IF X!ClassOf(call.slot) = 1 THEN Sent + 1 ELSE Sent + 2

\* Every variable of Scxi holds a value of its kind.
CallFields ==
  [fn : {"none", "open", "again", "opened", "transfer"}, slot : X!Slots \union {X!NoSlot}, reg : Nat, bytes : Nat]
ScxiTypes ==
  /\ X!TypeOK
  /\ call \in CallFields /\ (call.fn = "none" => call = X!NoCall) /\ (call.fn # "none" => call.slot \in X!Slots)
  /\ data \in Seq(X!Slots \X Int) /\ id \in {"none", "class 1", "class 2", "unknown", "empty"}

\* What is to be done is the rest of the plan, and a module asked has answered.
ScxiPlaced ==
  /\ Behind \in 0 .. Len(Plan) /\ todo = SubSeq(Plan, Behind + 1, Len(Plan))
  /\ call.fn = "transfer" => handle[call.slot] # "closed"
  /\ call.fn \in {"again", "opened"} \/ (call.fn = "open" /\ Behind = 8) => id # "none"

\* No other slot is selected than s.
Chosen(s) == slot \in {X!NoSlot, s}
\* A data byte that is sent goes nowhere, or where it should.
Aimed ==
  \/ line.SS = 0 \/ slot = X!NoSlot
  \/ slot = call.slot /\ (Modules[slot] = 2 => addr[slot] \in {call.reg, X!REG_PARK})
\* What scxi_identify should answer, and what it never does wrongly.
HandleOf(s) == IF Modules[s] = 1 THEN "class 1" ELSE "class 2"
IdFits == (id = "class 1" => Modules[call.slot] = 1)

\* After one failure that was not to raise D/A: in an opening,
StrayedOpen ==
  /\ Behind >= 1 => line.DA = 1
  /\ Behind \in 3 .. 4 => slot = X!NoSlot \/ line.SS = 0
  /\ Behind >= 5 => Chosen(call.slot)
  /\ Behind = 8 => id # "class 1"
\* in its second question,
StrayedAgain ==
  /\ Behind \in {0, 3} => line.DA = 1
  /\ Behind < 2 => Chosen(call.slot)
  /\ Behind >= 2 => IdFits
\* in a register access,
StrayedTransfer ==
  LET b == Behind
  IN  /\ b <= Prepared \/ b > Sent => line.DA = 1
      /\ b \in 1 .. 2 => slot = X!NoSlot \/ line.SS = 0
      /\ b \in 3 .. 5 => Chosen(call.slot)
      /\ b = 6 /\ Prepared = 6 => Aimed
      /\ b \in Prepared + 1 .. Filled => Aimed \/ line.DA = 1
      /\ b <= Prepared => data = << >>
      /\ \A k \in DOMAIN data : data[k][1] = call.slot /\ data[k][2] \in {call.reg, X!REG_PARK}
\* and at any time.
Strayed ==
  /\ \A s \in X!Slots : handle[s] = "class 1" => Modules[s] = 1
  /\ call.fn = "none" /\ (\E s \in X!Slots : handle[s] # "closed") => line.DA = 1
  /\ call.fn = "open" => StrayedOpen
  /\ call.fn = "again" => StrayedAgain
  /\ call.fn = "opened" => line.DA = 1 /\ IdFits
  /\ call.fn = "transfer" => StrayedTransfer

\* Where nothing failed: the chassis is free between calls, and the modules
\* that no call uses are parked;
Free ==
  call.fn = "none" =>
    /\ slot = X!NoSlot
    /\ (\E s \in X!Slots : handle[s] # "closed") => line = [SS |-> 1, DA |-> 1]
OthersParked ==
  \A s \in X!Slots : s # call.slot /\ handle[s] # "closed" /\ Modules[s] = 2 => addr[s] = X!REG_PARK
\* the lines, the slot and the answer in each part of an opening,
Opening ==
  call.fn = "open" =>
    /\ Behind >= 1 => line.DA = 1
    /\ Behind >= 2 => line.SS = IF Behind \in 3 .. 5 THEN 0 ELSE 1
    /\ slot = IF Behind <= 4 THEN X!NoSlot ELSE call.slot
    /\ Behind = 8 => id = IF Modules[call.slot] = 2 THEN "class 2" ELSE "empty"
\* of its second question,
Asking ==
  call.fn = "again" =>
    /\ Modules[call.slot] = 1 /\ slot = call.slot
    /\ line.SS = 1 /\ line.DA = IF Behind \in 1 .. 2 THEN 0 ELSE 1
    /\ Behind >= 2 => id = "class 1"
\* of the parking that ends it,
Parking ==
  call.fn = "opened" =>
    /\ id = HandleOf(call.slot)
    /\ line.DA = 1 /\ line.SS = IF Behind \in 3 .. 5 THEN 0 ELSE 1
    /\ slot = IF Behind <= 4 THEN call.slot ELSE X!NoSlot
    /\ Behind >= 2 /\ Modules[call.slot] = 2 => addr[call.slot] = X!REG_PARK
\* and of a register access, where the bytes shifted so far have all arrived.
Transferring ==
  LET b == Behind IN
  call.fn = "transfer" =>
    /\ line.SS = IF b \in 1 .. 3 \/ b \in Parked + 1 .. Parked + 3 THEN 0 ELSE 1
    /\ line.DA = IF b \in Prepared + 1 .. Sent THEN 0 ELSE 1
    /\ slot = IF b \in 3 .. Parked + 2 THEN call.slot ELSE X!NoSlot
    /\ Modules[call.slot] = 2 => addr[call.slot] = IF b \in 6 .. Sent + 1 THEN call.reg ELSE X!REG_PARK
    /\ b <= Prepared => data = << >>
    /\ b \in Prepared + 1 .. Filled => Len(data) = b - Prepared - 1
    /\ b > Filled => Len(data) = call.bytes
    /\ \A k \in DOMAIN data : data[k] = <<call.slot, call.reg>>
Untroubled ==
  /\ \A s \in X!Slots : handle[s] \in {"closed", HandleOf(s)}
  /\ Free /\ OthersParked /\ Opening /\ Asking /\ Parking /\ Transferring

\* The inductive invariant: the types and the place in the plan, what one
\* failure leaves, and what holds where there was none.
ScxiInv ==
  by = "scxi" =>
    /\ ScxiTypes /\ ScxiPlaced
    /\ failures <= 1 /\ ~stuck => Strayed
    /\ failures = 0 => ~stuck /\ Untroubled

\* What Line, Shift and Read lay out are transfers.
LEMMA Transfers ==
  /\ \A l \in {"SS", "DA"}, v \in {0, 1} : X!Line(l, v) \in TransferSet
  /\ \A v \in Int : X!Shift(v) \in TransferSet
  /\ \A k \in Nat : X!Transfer("clock", 0, k) \in TransferSet /\ X!Transfer("DA", 1, k) \in TransferSet
  /\ X!Read \in TransferSet
  BY DEF TransferSet, X!Line, X!Shift, X!Read, X!Transfer

\* Two plans, one after the other.
Then(A, B) == A \o B
\* Two sequences that are joined.
LEMMA PlansJoined ==
  ASSUME NEW A \in Seq(TransferSet), NEW B \in Seq(TransferSet)
  PROVE  /\ Then(A, B) \in Seq(TransferSet) /\ Len(Then(A, B)) = Len(A) + Len(B)
         /\ \A k \in 1 .. Len(A) : Then(A, B)[k] = A[k]
         /\ \A k \in 1 .. Len(B) : Then(A, B)[Len(A) + k] = B[k]
<1>1. Then(A, B) \in Seq(TransferSet)
  BY DEF Then
<1>2. Len(Then(A, B)) = Len(A) + Len(B)
  BY DEF Then
<1>3. \A k \in 1 .. Len(A) : Then(A, B)[k] = A[k]
  BY DEF Then
<1>4. \A k \in 1 .. Len(B) : Then(A, B)[Len(A) + k] = B[k]
  BY DEF Then
<1> QED BY <1>1, <1>2, <1>3, <1>4

\* The plan of an opening,
LEMMA PlanOfOpen ==
  ASSUME NEW s \in Nat, NEW P, P = OpenPlan(s)
  PROVE  /\ P \in Seq(TransferSet) /\ Len(P) = 8
         /\ P[1] = X!Line("DA", 1) /\ P[2] = X!Line("SS", 1)
         /\ P[3] = X!Line("SS", 0) /\ P[4] = X!Transfer("clock", 0, 0) /\ P[5] = X!Shift(s)
         /\ P[6] = X!Line("SS", 1) /\ P[7] = X!Transfer("clock", 0, 0) /\ P[8] = X!Read
<1> DEFINE A == <<X!Line("DA", 1), X!Line("SS", 1)>>
           B == X!SlotSelect(s)
           G == <<X!Transfer("clock", 0, 0), X!Read>>
<1>1. A \in Seq(TransferSet) /\ Len(A) = 2 /\ A[1] = X!Line("DA", 1) /\ A[2] = X!Line("SS", 1)
  BY Transfers
<1>2. /\ B \in Seq(TransferSet) /\ Len(B) = 4
      /\ B[1] = X!Line("SS", 0) /\ B[2] = X!Transfer("clock", 0, 0) /\ B[3] = X!Shift(s) /\ B[4] = X!Line("SS", 1)
  BY Transfers DEF X!SlotSelect
<1>3. G \in Seq(TransferSet) /\ Len(G) = 2 /\ G[1] = X!Transfer("clock", 0, 0) /\ G[2] = X!Read
  BY Transfers
<1>4. P = A \o B \o G
  BY DEF OpenPlan
<1> HIDE DEF A, B, G
<1> DEFINE AB == Then(A, B)
<1>20. AB = Then(A, B) /\ P = Then(AB, G)
  BY <1>4 DEF Then
<1> HIDE DEF AB
<1>5. /\ AB \in Seq(TransferSet) /\ Len(AB) = 6
      /\ \A k \in 1 .. 2 : AB[k] = A[k]
      /\ \A k \in 1 .. 4 : AB[2 + k] = B[k]
  <2>6. A \in Seq(TransferSet) /\ B \in Seq(TransferSet)
    BY <1>1, <1>2
  <2>7. /\ AB \in Seq(TransferSet) /\ Len(AB) = Len(A) + Len(B)
        /\ \A k \in 1 .. Len(A) : AB[k] = A[k]
        /\ \A k \in 1 .. Len(B) : AB[Len(A) + k] = B[k]
    BY <2>6, <1>20, PlansJoined, Zenon
  <2> QED BY <1>1, <1>2, <2>7
<1>6. /\ P \in Seq(TransferSet) /\ Len(P) = 8
      /\ \A k \in 1 .. 6 : P[k] = AB[k]
      /\ \A k \in 1 .. 2 : P[6 + k] = G[k]
  <2>6. AB \in Seq(TransferSet) /\ G \in Seq(TransferSet)
    BY <1>3, <1>5
  <2>7. LET J == Then(AB, G)
        IN  /\ J \in Seq(TransferSet) /\ Len(J) = Len(AB) + Len(G)
            /\ \A k \in 1 .. Len(AB) : J[k] = AB[k]
            /\ \A k \in 1 .. Len(G) : J[Len(AB) + k] = G[k]
    BY <2>6, PlansJoined, Zenon
  <2> QED BY <1>3, <1>5, <2>7, <1>20
<1>7. P[1] = A[1] /\ P[2] = A[2] /\ P[3] = B[1] /\ P[4] = B[2] /\ P[5] = B[3] /\ P[6] = B[4] /\ P[7] = G[1] /\ P[8] = G[2]
  <2>1. AB[1] = A[1] /\ AB[2] = A[2] /\ AB[2 + 1] = B[1] /\ AB[2 + 2] = B[2] /\ AB[2 + 3] = B[3] /\ AB[2 + 4] = B[4]
    BY <1>5
  <2>2. P[6 + 1] = G[1] /\ P[6 + 2] = G[2]
    BY <1>6
  <2>3. P[1] = AB[1] /\ P[2] = AB[2] /\ P[3] = AB[3] /\ P[4] = AB[4] /\ P[5] = AB[5] /\ P[6] = AB[6]
    BY <1>6
  <2> QED BY <2>1, <2>2, <2>3
<1> QED BY <1>1, <1>2, <1>3, <1>6, <1>7

\* of the second question,
LEMMA PlanOfAgain ==
  ASSUME NEW P, P = AgainPlan
  PROVE  /\ P \in Seq(TransferSet) /\ Len(P) = 3
         /\ P[1] = X!Line("DA", 0) /\ P[2] = X!Read /\ P[3] = X!Line("DA", 1)
  BY Transfers DEF AgainPlan

\* Giving up the slot,
LEMMA SlotSelected ==
  ASSUME NEW s \in Nat, NEW P, P = X!SlotSelect(s)
  PROVE  /\ P \in Seq(TransferSet) /\ Len(P) = 4
         /\ P[1] = X!Line("SS", 0) /\ P[2] = X!Transfer("clock", 0, 0) /\ P[3] = X!Shift(s) /\ P[4] = X!Line("SS", 1)
  BY Transfers DEF X!SlotSelect

\* and parking the module before it.
LEMMA PlanOfDeselect ==
  ASSUME NEW class \in {1, 2}
  PROVE  LET P == X!module_deselect(class)
             m == IF class = 1 THEN 1 ELSE 2
         IN  /\ P \in Seq(TransferSet) /\ Len(P) = m + 4
             /\ P[1] = X!Transfer("DA", 1, m + 3) /\ (class = 2 => P[2] = X!Shift(X!REG_PARK))
             /\ P[m + 1] = X!Line("SS", 0) /\ P[m + 2] = X!Transfer("clock", 0, 0)
             /\ P[m + 3] = X!Shift(0) /\ P[m + 4] = X!Line("SS", 1)
<1> DEFINE P == X!module_deselect(class)
           m == IF class = 1 THEN 1 ELSE 2
           B == X!SlotSelect(X!NoSlot)
           A == IF class = 2 THEN <<X!Shift(X!REG_PARK)>> ELSE << >>
           R == Then(A, B)
           H == <<X!Transfer("DA", 1, Len(R))>>
<1>1. /\ B \in Seq(TransferSet) /\ Len(B) = 4
      /\ B[1] = X!Line("SS", 0) /\ B[2] = X!Transfer("clock", 0, 0) /\ B[3] = X!Shift(0) /\ B[4] = X!Line("SS", 1)
  BY SlotSelected DEF X!NoSlot
<1>2. A \in Seq(TransferSet) /\ Len(A) = m - 1 /\ (class = 2 => A[1] = X!Shift(X!REG_PARK))
  <2>1. X!Shift(X!REG_PARK) \in TransferSet
    BY Transfers DEF X!REG_PARK
  <2>2. CASE class = 1
    BY <2>2
  <2>3. CASE class = 2
    BY <2>1, <2>3
  <2> QED BY <2>2, <2>3
<1>3. P = Then(H, R)
  BY DEF Then, X!module_deselect, X!Addressed, X!NoSlot
<1>10. m \in Nat /\ (class = 1 => m = 1) /\ (class = 2 => m = 2)
  OBVIOUS
<1> HIDE DEF A, B, P, m
<1>20. R = Then(A, B) /\ m - 1 \in Nat /\ m - 1 + 4 = m + 3 /\ P = Then(H, R)
  BY <1>3, <1>10
<1> HIDE DEF R
<1>4. /\ R \in Seq(TransferSet) /\ Len(R) = m + 3
      /\ \A k \in 1 .. m - 1 : R[k] = A[k]
      /\ \A k \in 1 .. 4 : R[m - 1 + k] = B[k]
  <2>6. A \in Seq(TransferSet) /\ B \in Seq(TransferSet)
    BY <1>1, <1>2
  <2>7. /\ R \in Seq(TransferSet) /\ Len(R) = Len(A) + Len(B)
        /\ \A k \in 1 .. Len(A) : R[k] = A[k]
        /\ \A k \in 1 .. Len(B) : R[Len(A) + k] = B[k]
    BY <2>6, <1>20, PlansJoined, Zenon
  <2> QED BY <1>1, <1>2, <1>20, <2>7
<1>5. /\ class = 2 => R[1] = X!Shift(X!REG_PARK)
      /\ R[m] = X!Line("SS", 0) /\ R[m + 1] = X!Transfer("clock", 0, 0)
      /\ R[m + 2] = X!Shift(0) /\ R[m + 3] = X!Line("SS", 1)
  <2>1. R[m - 1 + 1] = B[1] /\ R[m - 1 + 2] = B[2] /\ R[m - 1 + 3] = B[3] /\ R[m - 1 + 4] = B[4]
    <3>1. \A k \in 1 .. 4 : R[m - 1 + k] = B[k]
      BY <1>4
    <3> QED BY <3>1, 1 \in 1 .. 4, 2 \in 1 .. 4, 3 \in 1 .. 4, 4 \in 1 .. 4, Zenon
  <2>2. m - 1 + 1 = m /\ m - 1 + 2 = m + 1 /\ m - 1 + 3 = m + 2 /\ m - 1 + 4 = m + 3
    BY <1>10
  <2>3. class = 2 => R[1] = A[1]
    BY <1>4, <1>10
  <2> QED BY <1>1, <1>2, <2>1, <2>2, <2>3
<1>6. H \in Seq(TransferSet) /\ Len(H) = 1 /\ H[1] = X!Transfer("DA", 1, m + 3)
  BY <1>4, Transfers
<1> HIDE DEF H
<1>7. /\ P \in Seq(TransferSet) /\ Len(P) = 1 + (m + 3)
      /\ \A k \in 1 .. 1 : P[k] = H[k]
      /\ \A k \in 1 .. m + 3 : P[1 + k] = R[k]
  <2>1. m + 3 \in Nat
    BY <1>10
  <2>6. H \in Seq(TransferSet) /\ R \in Seq(TransferSet)
    BY <1>4, <1>6
  <2>7. LET J == Then(H, R)
        IN  /\ J \in Seq(TransferSet) /\ Len(J) = Len(H) + Len(R)
            /\ \A k \in 1 .. Len(H) : J[k] = H[k]
            /\ \A k \in 1 .. Len(R) : J[Len(H) + k] = R[k]
    BY <2>6, PlansJoined, Zenon
  <2> QED BY <1>4, <1>6, <2>1, <2>7, <1>20
<1>8. P[1] = H[1] /\ P[2] = R[1] /\ P[m + 1] = R[m] /\ P[m + 2] = R[m + 1] /\ P[m + 3] = R[m + 2] /\ P[m + 4] = R[m + 3]
  <2>1. P[1 + 1] = R[1] /\ P[1 + m] = R[m] /\ P[1 + (m + 1)] = R[m + 1] /\ P[1 + (m + 2)] = R[m + 2] /\ P[1 + (m + 3)] = R[m + 3]
    BY <1>7, <1>10
  <2>2. 1 + m = m + 1 /\ 1 + (m + 1) = m + 2 /\ 1 + (m + 2) = m + 3 /\ 1 + (m + 3) = m + 4
    BY <1>10
  <2> QED BY <1>7, <2>1, <2>2
<1>9. 1 + (m + 3) = m + 4
  BY <1>10
<1> QED BY <1>5, <1>6, <1>7, <1>8, <1>9 DEF P, m

\* The preparation of a register access.
LEMMA PlanOfSelect ==
  ASSUME NEW class \in {1, 2}, NEW s \in Nat, NEW r \in Nat
  PROVE  LET P == X!module_select(s, class, r)
             m == IF class = 1 THEN 5 ELSE 6
         IN  /\ P \in Seq(TransferSet) /\ Len(P) = m + 1
             /\ P[1] = X!Line("SS", 0) /\ P[2] = X!Transfer("clock", 0, 0) /\ P[3] = X!Shift(s) /\ P[4] = X!Line("SS", 1)
             /\ P[5] = X!Transfer("clock", 0, m - 4) /\ (class = 2 => P[6] = X!Shift(r))
             /\ P[m + 1] = X!Line("DA", 0)
<1> DEFINE P == X!module_select(s, class, r)
           m == IF class = 1 THEN 5 ELSE 6
           B == X!SlotSelect(s)
           A == IF class = 2 THEN <<X!Shift(r)>> ELSE << >>
           G == <<X!Transfer("clock", 0, Len(A) + 1)>>
           F == <<X!Line("DA", 0)>>
<1>1. /\ B \in Seq(TransferSet) /\ Len(B) = 4
      /\ B[1] = X!Line("SS", 0) /\ B[2] = X!Transfer("clock", 0, 0) /\ B[3] = X!Shift(s) /\ B[4] = X!Line("SS", 1)
  BY SlotSelected
<1>2. A \in Seq(TransferSet) /\ Len(A) = m - 5 /\ (class = 2 => A[1] = X!Shift(r))
  <2>1. X!Shift(r) \in TransferSet
    BY Transfers
  <2>2. CASE class = 1
    BY <2>2
  <2>3. CASE class = 2
    BY <2>1, <2>3
  <2> QED BY <2>2, <2>3
<1>3. P = B \o G \o A \o F
  BY DEF X!module_select, X!Addressed
<1>10. m \in Nat /\ (class = 1 => m = 5) /\ (class = 2 => m = 6)
  OBVIOUS
<1> HIDE DEF A, B, P, m
<1>4. G \in Seq(TransferSet) /\ Len(G) = 1 /\ G[1] = X!Transfer("clock", 0, m - 4)
  BY <1>2, <1>10, Transfers
<1>5. F \in Seq(TransferSet) /\ Len(F) = 1 /\ F[1] = X!Line("DA", 0)
  BY Transfers
<1> HIDE DEF G, F
<1> DEFINE BD == Then(B, G)
           BDA == Then(BD, A)
<1>20. BD = Then(B, G) /\ BDA = Then(BD, A) /\ P = Then(BDA, F)
  BY <1>3 DEF Then
<1> HIDE DEF BD, BDA
<1>6. /\ BD \in Seq(TransferSet) /\ Len(BD) = 5
      /\ \A k \in 1 .. 4 : BD[k] = B[k]
      /\ \A k \in 1 .. 1 : BD[4 + k] = G[k]
  <2>6. B \in Seq(TransferSet) /\ G \in Seq(TransferSet)
    BY <1>1, <1>4
  <2>7. /\ BD \in Seq(TransferSet) /\ Len(BD) = Len(B) + Len(G)
        /\ \A k \in 1 .. Len(B) : BD[k] = B[k]
        /\ \A k \in 1 .. Len(G) : BD[Len(B) + k] = G[k]
    BY <2>6, <1>20, PlansJoined, Zenon
  <2> QED BY <1>1, <1>4, <2>7
<1>7. /\ BDA \in Seq(TransferSet) /\ Len(BDA) = m
      /\ \A k \in 1 .. 5 : BDA[k] = BD[k]
      /\ \A k \in 1 .. m - 5 : BDA[5 + k] = A[k]
  <2>1. m - 5 \in Nat /\ 5 + (m - 5) = m
    BY <1>10
  <2>6. BD \in Seq(TransferSet) /\ A \in Seq(TransferSet)
    BY <1>2, <1>6
  <2>7. /\ BDA \in Seq(TransferSet) /\ Len(BDA) = Len(BD) + Len(A)
        /\ \A k \in 1 .. Len(BD) : BDA[k] = BD[k]
        /\ \A k \in 1 .. Len(A) : BDA[Len(BD) + k] = A[k]
    BY <2>6, <1>20, PlansJoined, ZenonT(30)
  <2> QED BY <1>2, <1>6, <2>1, <2>7
<1>8. /\ P \in Seq(TransferSet) /\ Len(P) = m + 1
      /\ \A k \in 1 .. m : P[k] = BDA[k]
      /\ \A k \in 1 .. 1 : P[m + k] = F[k]
  <2>6. BDA \in Seq(TransferSet) /\ F \in Seq(TransferSet)
    BY <1>5, <1>7
  <2>7. LET J == Then(BDA, F)
        IN  /\ J \in Seq(TransferSet) /\ Len(J) = Len(BDA) + Len(F)
            /\ \A k \in 1 .. Len(BDA) : J[k] = BDA[k]
            /\ \A k \in 1 .. Len(F) : J[Len(BDA) + k] = F[k]
    BY <2>6, PlansJoined, Zenon
  <2> QED BY <1>5, <1>7, <2>7, <1>20
<1>9. P[1] = B[1] /\ P[2] = B[2] /\ P[3] = B[3] /\ P[4] = B[4] /\ P[5] = G[1] /\ (class = 2 => P[6] = A[1]) /\ P[m + 1] = F[1]
  <2>1. P[1] = BDA[1] /\ P[2] = BDA[2] /\ P[3] = BDA[3] /\ P[4] = BDA[4] /\ P[5] = BDA[5] /\ P[m + 1] = F[1]
    BY <1>8, <1>10
  <2>2. BDA[1] = BD[1] /\ BDA[2] = BD[2] /\ BDA[3] = BD[3] /\ BDA[4] = BD[4] /\ BDA[5] = BD[5]
    BY <1>7
  <2>3. BD[1] = B[1] /\ BD[2] = B[2] /\ BD[3] = B[3] /\ BD[4] = B[4] /\ BD[4 + 1] = G[1]
    BY <1>6
  <2>4. class = 2 => P[6] = BDA[6] /\ BDA[5 + 1] = A[1]
    BY <1>7, <1>8, <1>10
  <2> QED BY <2>1, <2>2, <2>3, <2>4
<1> QED BY <1>1, <1>2, <1>4, <1>5, <1>8, <1>9 DEF P, m

\* A register access, from the preparation to the slot given up.
TransferLaidOut(P, class, s, r, n) ==
  LET prep == IF class = 1 THEN 5 ELSE 6
      filled == prep + 1 + n
      sent == IF class = 1 /\ r = 0 THEN filled + 1 ELSE filled
      parked == IF class = 1 THEN sent + 1 ELSE sent + 2
  IN  /\ P \in Seq(TransferSet) /\ Len(P) = parked + 4
      /\ P[1] = X!Line("SS", 0) /\ P[2] = X!Transfer("clock", 0, 0) /\ P[3] = X!Shift(s) /\ P[4] = X!Line("SS", 1)
      /\ P[5] = X!Transfer("clock", 0, prep - 4) /\ (class = 2 => P[6] = X!Shift(r))
      /\ P[prep + 1] = X!Line("DA", 0)
      /\ \A k \in prep + 2 .. filled : P[k] = X!Shift(k - prep - 1)
      /\ class = 1 /\ r = 0 => P[filled + 1] = X!Line("SS", 1)
      /\ P[sent + 1] = X!Transfer("DA", 1, parked - sent + 3)
      /\ class = 2 => P[sent + 2] = X!Shift(X!REG_PARK)
      /\ P[parked + 1] = X!Line("SS", 0) /\ P[parked + 2] = X!Transfer("clock", 0, 0)
      /\ P[parked + 3] = X!Shift(0) /\ P[parked + 4] = X!Line("SS", 1)
\* The parts of a register access follow one another.
LEMMA PlanOfTransfer ==
  ASSUME NEW class \in {1, 2}, NEW s \in Nat, NEW r \in Nat, NEW n \in Nat
  PROVE  TransferLaidOut(TransferPlan(class, s, r, n), class, s, r, n)
<1> DEFINE P == TransferPlan(class, s, r, n)
           prep == IF class = 1 THEN 5 ELSE 6
           filled == prep + 1 + n
           sent == IF class = 1 /\ r = 0 THEN filled + 1 ELSE filled
           parked == IF class = 1 THEN sent + 1 ELSE sent + 2
<1>19. /\ prep = IF class = 1 THEN 5 ELSE 6
       /\ filled = prep + 1 + n
       /\ sent = IF class = 1 /\ r = 0 THEN filled + 1 ELSE filled
       /\ parked = IF class = 1 THEN sent + 1 ELSE sent + 2
       /\ P = TransferPlan(class, s, r, n)
  OBVIOUS
<1> HIDE DEF prep, filled, sent, parked, P
<1>18. prep \in Nat /\ filled \in Nat /\ sent \in Nat /\ parked \in Nat
  BY <1>19
<1> USE <1>18, <1>19
<1> DEFINE A == X!module_select(s, class, r)
           B == [k \in 1 .. n |-> X!Shift(k)]
           H == High(class, r)
           G == X!module_deselect(class)
           m == parked - sent
           h == sent - filled
<1>1. /\ A \in Seq(TransferSet) /\ Len(A) = prep + 1
      /\ A[1] = X!Line("SS", 0) /\ A[2] = X!Transfer("clock", 0, 0) /\ A[3] = X!Shift(s) /\ A[4] = X!Line("SS", 1)
      /\ A[5] = X!Transfer("clock", 0, prep - 4) /\ (class = 2 => A[6] = X!Shift(r))
      /\ A[prep + 1] = X!Line("DA", 0)
  <2>1. class \in {1, 2} /\ s \in Nat /\ r \in Nat
    OBVIOUS
  <2>2. LET Q == X!module_select(s, class, r)
            l == IF class = 1 THEN 5 ELSE 6
        IN  /\ Q \in Seq(TransferSet) /\ Len(Q) = l + 1
            /\ Q[1] = X!Line("SS", 0) /\ Q[2] = X!Transfer("clock", 0, 0) /\ Q[3] = X!Shift(s) /\ Q[4] = X!Line("SS", 1)
            /\ Q[5] = X!Transfer("clock", 0, l - 4) /\ (class = 2 => Q[6] = X!Shift(r))
            /\ Q[l + 1] = X!Line("DA", 0)
    BY ONLY <2>1, PlanOfSelect
  <2> QED BY <2>2
<1>2. B \in Seq(TransferSet) /\ Len(B) = n /\ \A k \in 1 .. n : B[k] = X!Shift(k)
  <2>1. \A k \in 1 .. n : X!Shift(k) \in TransferSet
    BY Transfers
  <2> QED BY <2>1
<1>3. H \in Seq(TransferSet) /\ Len(H) = h /\ (class = 1 /\ r = 0 => H[1] = X!Line("SS", 1))
  <2>1. CASE class = 1 /\ r = 0
    BY <2>1, Transfers DEF High
  <2>2. CASE ~(class = 1 /\ r = 0)
    BY <2>2 DEF High
  <2> QED BY <2>1, <2>2
<1>4. m \in Nat /\ m = (IF class = 1 THEN 1 ELSE 2) /\ parked = sent + m
  OBVIOUS
<1>5. /\ G \in Seq(TransferSet) /\ Len(G) = m + 4
      /\ G[1] = X!Transfer("DA", 1, m + 3) /\ (class = 2 => G[2] = X!Shift(X!REG_PARK))
      /\ G[m + 1] = X!Line("SS", 0) /\ G[m + 2] = X!Transfer("clock", 0, 0)
      /\ G[m + 3] = X!Shift(0) /\ G[m + 4] = X!Line("SS", 1)
  <2> HIDE DEF m
  <2> QED BY <1>4, PlanOfDeselect
<1>6. h \in Nat /\ sent = filled + h /\ (class = 1 /\ r = 0 => h = 1)
  OBVIOUS
<1>7. P = A \o B \o H \o G
  BY DEF TransferPlan
<1> HIDE DEF A, B, H, G, m, h
<1> DEFINE AB == Then(A, B)
           ABH == Then(AB, H)
<1>20. AB = Then(A, B) /\ ABH = Then(AB, H) /\ P = Then(ABH, G) /\ prep + 1 \in Nat
  BY <1>7 DEF Then
<1> HIDE DEF AB, ABH
<1>8. /\ AB \in Seq(TransferSet) /\ Len(AB) = filled
      /\ \A k \in 1 .. prep + 1 : AB[k] = A[k]
      /\ \A k \in 1 .. n : AB[prep + 1 + k] = B[k]
  <2>6. A \in Seq(TransferSet) /\ B \in Seq(TransferSet)
    BY <1>1, <1>2
  <2>7. /\ AB \in Seq(TransferSet) /\ Len(AB) = Len(A) + Len(B)
        /\ \A k \in 1 .. Len(A) : AB[k] = A[k]
        /\ \A k \in 1 .. Len(B) : AB[Len(A) + k] = B[k]
    BY <2>6, <1>20, PlansJoined, Zenon
  <2> QED BY <1>1, <1>2, <1>20, <2>7
<1>9. /\ ABH \in Seq(TransferSet) /\ Len(ABH) = sent
      /\ \A k \in 1 .. filled : ABH[k] = AB[k]
      /\ \A k \in 1 .. h : ABH[filled + k] = H[k]
  <2>6. AB \in Seq(TransferSet) /\ H \in Seq(TransferSet)
    BY <1>3, <1>8
  <2>7. /\ ABH \in Seq(TransferSet) /\ Len(ABH) = Len(AB) + Len(H)
        /\ \A k \in 1 .. Len(AB) : ABH[k] = AB[k]
        /\ \A k \in 1 .. Len(H) : ABH[Len(AB) + k] = H[k]
    BY <2>6, <1>20, PlansJoined, ZenonT(30)
  <2> QED BY <1>3, <1>6, <1>8, <2>7
<1>10. /\ P \in Seq(TransferSet) /\ Len(P) = parked + 4
       /\ \A k \in 1 .. sent : P[k] = ABH[k]
       /\ \A k \in 1 .. m + 4 : P[sent + k] = G[k]
  <2>1. sent + (m + 4) = parked + 4 /\ m + 4 \in Nat
    BY <1>4
  <2>6. ABH \in Seq(TransferSet) /\ G \in Seq(TransferSet)
    BY <1>5, <1>9
  <2>7. LET J == Then(ABH, G)
        IN  /\ J \in Seq(TransferSet) /\ Len(J) = Len(ABH) + Len(G)
            /\ \A k \in 1 .. Len(ABH) : J[k] = ABH[k]
            /\ \A k \in 1 .. Len(G) : J[Len(ABH) + k] = G[k]
    BY <2>6, PlansJoined, Zenon
  <2> QED BY <1>5, <1>9, <2>1, <2>7, <1>20
<1>11. \A k \in 1 .. filled : P[k] = AB[k]
  <2>1. filled <= sent
    BY <1>6
  <2>2. \A k \in 1 .. filled : k \in 1 .. sent
    BY ONLY <2>1, <1>18
  <2> QED BY <2>2, <1>9, <1>10, Zenon
<1>12. prep + 1 <= filled /\ prep >= 5 /\ (class = 2 => prep = 6 /\ m = 2)
  BY <1>4
<1>13. \A k \in 1 .. prep + 1 : P[k] = A[k]
  BY <1>8, <1>11, <1>12
<1>14. /\ P[1] = X!Line("SS", 0) /\ P[2] = X!Transfer("clock", 0, 0) /\ P[3] = X!Shift(s) /\ P[4] = X!Line("SS", 1)
       /\ P[5] = X!Transfer("clock", 0, prep - 4) /\ (class = 2 => P[6] = X!Shift(r))
       /\ P[prep + 1] = X!Line("DA", 0)
  <2>1. /\ A[1] = X!Line("SS", 0) /\ A[2] = X!Transfer("clock", 0, 0) /\ A[3] = X!Shift(s) /\ A[4] = X!Line("SS", 1)
        /\ A[5] = X!Transfer("clock", 0, prep - 4) /\ (class = 2 => A[6] = X!Shift(r))
        /\ A[prep + 1] = X!Line("DA", 0)
    BY <1>1
  <2>2. prep \in Nat /\ prep >= 5 /\ (class = 2 => prep = 6)
    BY <1>12
  <2>3. /\ 1 \in 1 .. prep + 1 /\ 2 \in 1 .. prep + 1 /\ 3 \in 1 .. prep + 1 /\ 4 \in 1 .. prep + 1 /\ 5 \in 1 .. prep + 1
        /\ prep + 1 \in 1 .. prep + 1 /\ (class = 2 => 6 \in 1 .. prep + 1)
    BY ONLY <2>2
  <2>4. /\ P[1] = A[1] /\ P[2] = A[2] /\ P[3] = A[3] /\ P[4] = A[4] /\ P[5] = A[5] /\ P[prep + 1] = A[prep + 1]
        /\ (class = 2 => P[6] = A[6])
    BY <1>13, <2>3, Zenon
  <2> QED BY <2>1, <2>4, Zenon
<1>15. \A k \in prep + 2 .. filled : P[k] = X!Shift(k - prep - 1)
  <2> SUFFICES ASSUME NEW k \in prep + 2 .. filled PROVE P[k] = X!Shift(k - prep - 1)
    OBVIOUS
  <2>1. k - prep - 1 \in 1 .. n /\ prep + 1 + (k - prep - 1) = k /\ k \in 1 .. filled
    BY <1>12
  <2>2. P[k] = AB[k] /\ AB[prep + 1 + (k - prep - 1)] = B[k - prep - 1]
    BY <1>8, <1>11, <2>1
  <2> QED BY <2>1, <2>2, <1>2
<1>16. class = 1 /\ r = 0 => P[filled + 1] = X!Line("SS", 1)
  <2> SUFFICES ASSUME class = 1, r = 0 PROVE P[filled + 1] = X!Line("SS", 1)
    OBVIOUS
  <2>1. filled + 1 \in 1 .. sent /\ 1 \in 1 .. h
    BY <1>6
  <2>2. P[filled + 1] = ABH[filled + 1] /\ ABH[filled + 1] = H[1]
    BY <1>9, <1>10, <2>1
  <2> QED BY <2>2, <1>3
<1>17. /\ P[sent + 1] = G[1] /\ (class = 2 => P[sent + 2] = G[2])
       /\ P[sent + (m + 1)] = G[m + 1] /\ P[sent + (m + 2)] = G[m + 2]
       /\ P[sent + (m + 3)] = G[m + 3] /\ P[sent + (m + 4)] = G[m + 4]
  <2>1. /\ 1 \in 1 .. m + 4 /\ (class = 2 => 2 \in 1 .. m + 4)
        /\ m + 1 \in 1 .. m + 4 /\ m + 2 \in 1 .. m + 4 /\ m + 3 \in 1 .. m + 4 /\ m + 4 \in 1 .. m + 4
    BY <1>4, <1>12
  <2> QED BY <1>10, <2>1
<1>21. /\ P[sent + 1] = X!Transfer("DA", 1, parked - sent + 3)
       /\ class = 2 => P[sent + 2] = X!Shift(X!REG_PARK)
       /\ P[parked + 1] = X!Line("SS", 0) /\ P[parked + 2] = X!Transfer("clock", 0, 0)
       /\ P[parked + 3] = X!Shift(0) /\ P[parked + 4] = X!Line("SS", 1)
  <2>1. /\ sent + (m + 1) = parked + 1 /\ sent + (m + 2) = parked + 2
        /\ sent + (m + 3) = parked + 3 /\ sent + (m + 4) = parked + 4 /\ m + 3 = parked - sent + 3
    BY <1>4
  <2> QED BY <1>5, <1>17, <2>1
<1> QED BY <1>10, <1>14, <1>15, <1>16, <1>21 DEF prep, filled, sent, parked, P, TransferLaidOut

\* Slots are positive numbers, modules are of two classes.
LEMMA ScxiConstants ==
  /\ X!Slots \subseteq Nat /\ 0 \notin X!Slots /\ -1 \notin X!Slots
  /\ \A s \in X!Slots : Modules[s] \in {1, 2}
  /\ Registers \subseteq Nat /\ MaxFailures \in Nat /\ MaxCalls \in Nat
  BY CallsAssumption DEF X!Parameters, X!Slots

\* How long the parts of a register access are.
LEMMA PartSizes ==
  ASSUME ScxiTypes, call.fn = "transfer"
  PROVE  /\ X!ClassOf(call.slot) \in {1, 2} /\ call.slot \in Nat /\ call.slot \in X!Slots /\ call.reg \in Nat /\ call.bytes \in Nat
         /\ Prepared \in Nat /\ Filled \in Nat /\ Sent \in Nat /\ Parked \in Nat
         /\ X!ClassOf(call.slot) = 1 => Prepared = 5 /\ Parked = Sent + 1
         /\ X!ClassOf(call.slot) # 1 => Prepared = 6 /\ Parked = Sent + 2 /\ Sent = Filled
         /\ Filled = Prepared + 1 + call.bytes
         /\ Sent = IF X!ClassOf(call.slot) = 1 /\ call.reg = 0 THEN Filled + 1 ELSE Filled
<1>1. X!ClassOf(call.slot) \in {1, 2}
  BY DEF X!ClassOf
<1>2. call.slot \in Nat /\ call.slot \in X!Slots /\ call.reg \in Nat /\ call.bytes \in Nat
  BY ScxiConstants DEF ScxiTypes, CallFields
<1> QED BY <1>1, <1>2 DEF Prepared, Filled, Sent, Parked

\* The plan of the register access in progress.
LEMMA TransferIs ==
  ASSUME ScxiTypes, call.fn = "transfer"
  PROVE  /\ Plan \in Seq(TransferSet) /\ Len(Plan) = Parked + 4
         /\ Plan[1] = X!Line("SS", 0) /\ Plan[2] = X!Transfer("clock", 0, 0)
         /\ Plan[3] = X!Shift(call.slot) /\ Plan[4] = X!Line("SS", 1)
         /\ Plan[5] = X!Transfer("clock", 0, Prepared - 4) /\ (Prepared = 6 => Plan[6] = X!Shift(call.reg))
         /\ Plan[Prepared + 1] = X!Line("DA", 0)
         /\ \A k \in Prepared + 2 .. Filled : Plan[k] = X!Shift(k - Prepared - 1)
         /\ Sent = Filled + 1 => Plan[Filled + 1] = X!Line("SS", 1)
         /\ Plan[Sent + 1] = X!Transfer("DA", 1, Parked - Sent + 3)
         /\ Prepared = 6 => Plan[Sent + 2] = X!Shift(X!REG_PARK)
         /\ Plan[Parked + 1] = X!Line("SS", 0) /\ Plan[Parked + 2] = X!Transfer("clock", 0, 0)
         /\ Plan[Parked + 3] = X!Shift(0) /\ Plan[Parked + 4] = X!Line("SS", 1)
<1> DEFINE class == X!ClassOf(call.slot)
<1>1. Plan = TransferPlan(class, call.slot, call.reg, call.bytes)
  BY DEF Plan
<1>2. /\ class \in {1, 2} /\ call.slot \in Nat /\ call.reg \in Nat /\ call.bytes \in Nat
      /\ Prepared \in Nat /\ Filled \in Nat /\ Sent \in Nat /\ Parked \in Nat
      /\ class = 2 <=> Prepared = 6
  BY PartSizes
<1>3. /\ Prepared = IF class = 1 THEN 5 ELSE 6
      /\ Filled = Prepared + 1 + call.bytes
      /\ Sent = IF class = 1 /\ call.reg = 0 THEN Filled + 1 ELSE Filled
      /\ Parked = IF class = 1 THEN Sent + 1 ELSE Sent + 2
  BY DEF Prepared, Filled, Sent, Parked
<1>4. class = 1 /\ call.reg = 0 <=> Sent = Filled + 1
  BY <1>2, <1>3
<1> HIDE DEF class
<1>5. /\ Plan \in Seq(TransferSet) /\ Len(Plan) = Parked + 4
      /\ Plan[1] = X!Line("SS", 0) /\ Plan[2] = X!Transfer("clock", 0, 0)
      /\ Plan[3] = X!Shift(call.slot) /\ Plan[4] = X!Line("SS", 1)
      /\ Plan[5] = X!Transfer("clock", 0, Prepared - 4) /\ (class = 2 => Plan[6] = X!Shift(call.reg))
      /\ Plan[Prepared + 1] = X!Line("DA", 0)
      /\ \A k \in Prepared + 2 .. Filled : Plan[k] = X!Shift(k - Prepared - 1)
      /\ class = 1 /\ call.reg = 0 => Plan[Filled + 1] = X!Line("SS", 1)
      /\ Plan[Sent + 1] = X!Transfer("DA", 1, Parked - Sent + 3)
      /\ class = 2 => Plan[Sent + 2] = X!Shift(X!REG_PARK)
      /\ Plan[Parked + 1] = X!Line("SS", 0) /\ Plan[Parked + 2] = X!Transfer("clock", 0, 0)
      /\ Plan[Parked + 3] = X!Shift(0) /\ Plan[Parked + 4] = X!Line("SS", 1)
  <2>1. class \in {1, 2} /\ call.slot \in Nat /\ call.reg \in Nat /\ call.bytes \in Nat
    BY <1>2
  <2>2. TransferLaidOut(Plan, class, call.slot, call.reg, call.bytes)
    BY <2>1, <1>1, PlanOfTransfer, Zenon
  <2> QED BY <2>2, Zenon DEF Prepared, Filled, Sent, Parked, class, TransferLaidOut
<1> QED BY <1>2, <1>4, <1>5

\* The plans of the other calls.
LEMMA OthersAre ==
  ASSUME ScxiTypes
  PROVE  /\ call.fn = "open" =>
              /\ Plan \in Seq(TransferSet) /\ Len(Plan) = 8
              /\ Plan[1] = X!Line("DA", 1) /\ Plan[2] = X!Line("SS", 1)
              /\ Plan[3] = X!Line("SS", 0) /\ Plan[4] = X!Transfer("clock", 0, 0) /\ Plan[5] = X!Shift(call.slot)
              /\ Plan[6] = X!Line("SS", 1) /\ Plan[7] = X!Transfer("clock", 0, 0) /\ Plan[8] = X!Read
         /\ call.fn = "again" =>
              /\ Plan \in Seq(TransferSet) /\ Len(Plan) = 3
              /\ Plan[1] = X!Line("DA", 0) /\ Plan[2] = X!Read /\ Plan[3] = X!Line("DA", 1)
         /\ call.fn = "opened" =>
              /\ Plan \in Seq(TransferSet) /\ Len(Plan) = 6
              /\ Plan[1] = X!Transfer("DA", 1, 5) /\ Plan[2] = X!Shift(X!REG_PARK)
              /\ Plan[3] = X!Line("SS", 0) /\ Plan[4] = X!Transfer("clock", 0, 0)
              /\ Plan[5] = X!Shift(0) /\ Plan[6] = X!Line("SS", 1)
         /\ call.fn = "none" => Plan = << >>
<1>1. call.fn = "open" => Plan = OpenPlan(call.slot) /\ call.slot \in Nat
  BY ScxiConstants DEF Plan, ScxiTypes
<1>2. call.fn = "again" => Plan = AgainPlan
  BY DEF Plan
<1>3. call.fn = "opened" => Plan = X!module_deselect(2)
  BY DEF Plan
<1>4. call.fn = "none" => Plan = << >>
  BY DEF Plan
<1>5. LET P == X!module_deselect(2)
      IN  /\ P \in Seq(TransferSet) /\ Len(P) = 6
          /\ P[1] = X!Transfer("DA", 1, 5) /\ P[2] = X!Shift(X!REG_PARK)
          /\ P[3] = X!Line("SS", 0) /\ P[4] = X!Transfer("clock", 0, 0)
          /\ P[5] = X!Shift(0) /\ P[6] = X!Line("SS", 1)
  BY PlanOfDeselect
<1>6. ASSUME call.fn = "open"
      PROVE  /\ Plan \in Seq(TransferSet) /\ Len(Plan) = 8
             /\ Plan[1] = X!Line("DA", 1) /\ Plan[2] = X!Line("SS", 1)
             /\ Plan[3] = X!Line("SS", 0) /\ Plan[4] = X!Transfer("clock", 0, 0) /\ Plan[5] = X!Shift(call.slot)
             /\ Plan[6] = X!Line("SS", 1) /\ Plan[7] = X!Transfer("clock", 0, 0) /\ Plan[8] = X!Read
  BY <1>1, <1>6, PlanOfOpen
<1>7. ASSUME call.fn = "again"
      PROVE  /\ Plan \in Seq(TransferSet) /\ Len(Plan) = 3
             /\ Plan[1] = X!Line("DA", 0) /\ Plan[2] = X!Read /\ Plan[3] = X!Line("DA", 1)
  BY <1>2, <1>7, PlanOfAgain
<1> QED BY <1>3, <1>4, <1>5, <1>6, <1>7

\* What a failure leaves out in a register access: the rest of the preparation
\* where the clock is refused, everything where D/A cannot be raised.
LEMMA TransferSkips ==
  ASSUME ScxiTypes, call.fn = "transfer", NEW b \in Nat, b < Len(Plan)
  PROVE  /\ Plan \in Seq(TransferSet) /\ Len(Plan) = Parked + 4
         /\ \/ Plan[b + 1].skip = 0 /\ b # 4 /\ b # Sent
            \/ b = 4 /\ Plan[b + 1].skip = Prepared - 4
            \/ b = Sent /\ Plan[b + 1] = X!Transfer("DA", 1, Parked - Sent + 3)
<1>0. /\ \A l, v : X!Line(l, v).skip = 0
      /\ \A v : X!Shift(v).skip = 0
      /\ \A l, v, k : X!Transfer(l, v, k).skip = k
      /\ X!Read.skip = 0
  BY DEF X!Line, X!Shift, X!Read, X!Transfer
<1>1. /\ Plan \in Seq(TransferSet) /\ Len(Plan) = Parked + 4
      /\ Plan[1] = X!Line("SS", 0) /\ Plan[2] = X!Transfer("clock", 0, 0)
      /\ Plan[3] = X!Shift(call.slot) /\ Plan[4] = X!Line("SS", 1)
      /\ Plan[5] = X!Transfer("clock", 0, Prepared - 4) /\ (Prepared = 6 => Plan[6] = X!Shift(call.reg))
      /\ Plan[Prepared + 1] = X!Line("DA", 0)
      /\ \A k \in Prepared + 2 .. Filled : Plan[k] = X!Shift(k - Prepared - 1)
      /\ Sent = Filled + 1 => Plan[Filled + 1] = X!Line("SS", 1)
      /\ Plan[Sent + 1] = X!Transfer("DA", 1, Parked - Sent + 3)
      /\ Prepared = 6 => Plan[Sent + 2] = X!Shift(X!REG_PARK)
      /\ Plan[Parked + 1] = X!Line("SS", 0) /\ Plan[Parked + 2] = X!Transfer("clock", 0, 0)
      /\ Plan[Parked + 3] = X!Shift(0) /\ Plan[Parked + 4] = X!Line("SS", 1)
  BY TransferIs
<1>2. /\ Prepared \in {5, 6} /\ Filled \in Nat /\ Sent \in Nat /\ Parked \in Nat /\ call.bytes \in Nat
      /\ Prepared = 5 => Parked = Sent + 1
      /\ Prepared = 6 => Parked = Sent + 2
      /\ Filled = Prepared + 1 + call.bytes /\ Sent \in {Filled, Filled + 1}
  BY PartSizes
<1>3. CASE b <= Prepared
  <2>1. \/ b = 0 \/ b = 1 \/ b = 2 \/ b = 3 \/ b = 4 \/ (b = 5 /\ Prepared = 6) \/ b = Prepared
    BY <1>2, <1>3
  <2>3. (Plan[b + 1].skip = 0 /\ b # 4) \/ (b = 4 /\ Plan[b + 1].skip = Prepared - 4)
    <3>1. CASE b = 0
      BY <1>0, <1>1, <3>1
    <3>2. CASE b = 1
      BY <1>0, <1>1, <3>2
    <3>3. CASE b = 2
      BY <1>0, <1>1, <3>3
    <3>4. CASE b = 3
      BY <1>0, <1>1, <3>4
    <3>5. CASE b = 4
      BY <1>0, <1>1, <3>5
    <3>6. CASE b = 5 /\ Prepared = 6
      BY <1>0, <1>1, <3>6
    <3>7. CASE b = Prepared
      BY <1>0, <1>1, <3>7
    <3> QED BY <2>1, <3>1, <3>2, <3>3, <3>4, <3>5, <3>6, <3>7
  <2>4. Len(Plan) = Parked + 4 /\ Plan \in Seq(TransferSet)
    BY <1>1
  <2>5. b # Sent
    BY <1>2, <1>3
  <2> QED BY <1>2, <1>3, <2>3, <2>4, <2>5
<1>4. CASE b > Prepared /\ b < Filled
  <2>1. b + 1 \in Prepared + 2 .. Filled
    BY <1>2, <1>4
  <2>2. Plan[b + 1].skip = 0
    BY <1>0, <1>1, <2>1
  <2>3. Len(Plan) = Parked + 4 /\ Plan \in Seq(TransferSet)
    BY <1>1
  <2>4. b # 4 /\ b # Sent
    BY <1>2, <1>4
  <2> QED BY <2>2, <2>3, <2>4
<1>5. CASE b >= Filled
  <2>1. \/ b = Filled /\ Sent = Filled + 1
        \/ b = Sent
        \/ b = Sent + 1 /\ Prepared = 6
        \/ b = Parked \/ b = Parked + 1 \/ b = Parked + 2 \/ b = Parked + 3
    <3>1. Len(Plan) = Parked + 4
      BY <1>1
    <3>2. b < Parked + 4
      BY <3>1
    <3> QED BY <1>2, <1>5, <3>2
  <2>2. /\ Parked + 1 + 1 = Parked + 2 /\ Parked + 2 + 1 = Parked + 3 /\ Parked + 3 + 1 = Parked + 4
        /\ Sent + 1 + 1 = Sent + 2 /\ Parked - Sent + 3 \in Nat /\ Sent + 1 + (Parked - Sent + 3) = Parked + 4
    BY <1>2
  <2>3. (Plan[b + 1].skip = 0 /\ b # Sent) \/ (b = Sent /\ Plan[b + 1] = X!Transfer("DA", 1, Parked - Sent + 3))
    <3>1. CASE b = Filled /\ Sent = Filled + 1
      BY <1>0, <1>1, <3>1
    <3>2. CASE b = Sent
      BY <1>0, <1>1, <3>2
    <3>3. CASE b = Sent + 1 /\ Prepared = 6
      BY <1>0, <1>1, <2>2, <3>3
    <3>4. CASE b = Parked
      BY <1>0, <1>1, <3>4
    <3>5. CASE b = Parked + 1
      BY <1>0, <1>1, <2>2, <3>5
    <3>6. CASE b = Parked + 2
      BY <1>0, <1>1, <2>2, <3>6
    <3>7. CASE b = Parked + 3
      BY <1>0, <1>1, <2>2, <3>7
    <3> QED BY <2>1, <3>1, <3>2, <3>3, <3>4, <3>5, <3>6, <3>7
  <2>4. Len(Plan) = Parked + 4 /\ Plan \in Seq(TransferSet)
    BY <1>1
  <2>5. b # 4
    BY <1>2, <1>5
  <2> QED BY <2>3, <2>4, <2>5
<1> QED BY <1>2, <1>3, <1>4, <1>5

\* Where a failure leads is within the plan.
LEMMA SkipsFit ==
  ASSUME ScxiTypes, NEW b \in Nat, b < Len(Plan)
  PROVE  /\ Plan \in Seq(TransferSet) /\ Len(Plan) \in Nat
         /\ Plan[b + 1].skip \in Nat /\ b + 1 + Plan[b + 1].skip <= Len(Plan)
<1>0. /\ \A l, v : X!Line(l, v).skip = 0
      /\ \A v : X!Shift(v).skip = 0
      /\ \A l, v, k : X!Transfer(l, v, k).skip = k
      /\ X!Read.skip = 0
  BY DEF X!Line, X!Shift, X!Read, X!Transfer
<1>1. CASE call.fn = "transfer"
  <2>1. /\ Plan \in Seq(TransferSet) /\ Len(Plan) = Parked + 4
        /\ \/ Plan[b + 1].skip = 0 /\ b # 4 /\ b # Sent
           \/ b = 4 /\ Plan[b + 1].skip = Prepared - 4
           \/ b = Sent /\ Plan[b + 1] = X!Transfer("DA", 1, Parked - Sent + 3)
    BY <1>1, TransferSkips
  <2>2. /\ Prepared \in {5, 6} /\ Filled \in Nat /\ Sent \in Nat /\ Parked \in Nat /\ call.bytes \in Nat
        /\ Prepared = 5 => Parked = Sent + 1
        /\ Prepared = 6 => Parked = Sent + 2
        /\ Filled = Prepared + 1 + call.bytes /\ Sent \in {Filled, Filled + 1}
    BY <1>1, PartSizes
  <2>3. \/ Plan[b + 1].skip = 0
        \/ b = 4 /\ Plan[b + 1].skip = Prepared - 4
        \/ b = Sent /\ Plan[b + 1].skip = Parked - Sent + 3
    BY <1>0, <2>1
  <2>4. Len(Plan) = Parked + 4 /\ Plan \in Seq(TransferSet)
    BY <2>1
  <2> QED BY <2>2, <2>3, <2>4
<1>2. CASE call.fn = "open"
  <2>2. Plan \in Seq(TransferSet) /\ Len(Plan) = 8
    BY <1>2, OthersAre, Zenon
  <2>1. b \in 0 .. 7
    BY <2>2
  <2> QED BY <1>0, <1>2, <2>1, OthersAre
<1>3. CASE call.fn = "again"
  <2>2. /\ Plan \in Seq(TransferSet) /\ Len(Plan) = 3
        /\ Plan[1] = X!Line("DA", 0) /\ Plan[2] = X!Read /\ Plan[3] = X!Line("DA", 1)
    BY <1>3, OthersAre, Zenon
  <2>1. b = 0 \/ b = 1 \/ b = 2
    BY <2>2
  <2> QED BY <1>0, <2>1, <2>2
<1>4. CASE call.fn = "opened"
  <2>2. /\ Plan \in Seq(TransferSet) /\ Len(Plan) = 6
        /\ Plan[1] = X!Transfer("DA", 1, 5) /\ Plan[2] = X!Shift(X!REG_PARK)
        /\ Plan[3] = X!Line("SS", 0) /\ Plan[4] = X!Transfer("clock", 0, 0)
        /\ Plan[5] = X!Shift(0) /\ Plan[6] = X!Line("SS", 1)
    BY <1>4, OthersAre, Zenon
  <2>1. b = 0 \/ b = 1 \/ b = 2 \/ b = 3 \/ b = 4 \/ b = 5
    BY <2>2
  <2> QED BY <1>0, <2>1, <2>2
<1>5. CASE call.fn = "none"
  <2>1. Len(Plan) = 0
    BY <1>5, OthersAre
  <2> QED BY <2>1
<1> QED BY <1>1, <1>2, <1>3, <1>4, <1>5 DEF ScxiTypes, CallFields

\* What is left of a plan after some of its transfers.
LEMMA RestOfPlan ==
  ASSUME NEW P \in Seq(TransferSet), NEW p \in Nat, p < Len(P), NEW k \in Nat, p + 1 + k <= Len(P),
         todo = SubSeq(P, p + 1, Len(P))
  PROVE  /\ todo # << >> /\ Head(todo) = P[p + 1] /\ Tail(todo) = SubSeq(P, p + 2, Len(P))
         /\ SubSeq(todo, 2 + k, Len(todo)) = SubSeq(P, p + 2 + k, Len(P))
<1>1. Len(P) \in Nat
  OBVIOUS
<1>2. todo \in Seq(TransferSet) /\ Len(todo) = Len(P) - p
  BY <1>1
<1>3. todo # << >> /\ Head(todo) = P[p + 1]
  <2>4. Len(todo) # 0
    BY <1>1, <1>2
  <2>1. todo # << >>
    BY ONLY <2>4
  <2>2. todo[1] = P[p + 1]
    BY <1>1, <1>2
  <2>3. Head(todo) = todo[1]
    BY <1>2
  <2> QED BY <2>1, <2>2, <2>3
<1>4. Tail(todo) = SubSeq(P, p + 2, Len(P))
  BY <1>1, <1>2
<1>5. SubSeq(todo, 2 + k, Len(todo)) = SubSeq(P, p + 2 + k, Len(P))
  BY <1>1, <1>2
<1> QED BY <1>3, <1>4, <1>5

\* Its length.
LEMMA RestLength ==
  ASSUME NEW P \in Seq(TransferSet), NEW p \in Nat, p <= Len(P)
  PROVE  Len(SubSeq(P, p + 1, Len(P))) = Len(P) - p
<1>1. Len(P) \in Nat
  OBVIOUS
<1> QED BY <1>1

\* The plan is a sequence, and empty between calls.
LEMMA PlanIs ==
  ASSUME ScxiTypes
  PROVE  Plan \in Seq(TransferSet) /\ Len(Plan) \in Nat
<1>1. CASE call.fn = "none"
  <2>1. Plan = << >>
    BY <1>1, OthersAre
  <2> QED BY <2>1
<1>2. CASE call.fn = "transfer"
  BY <1>2, TransferIs
<1>3. CASE call.fn \in {"open", "again", "opened"}
  BY <1>3, OthersAre
<1> QED BY <1>1, <1>2, <1>3 DEF ScxiTypes, CallFields

\* The plan of a call stays while the call and the handles do.
LEMMA PlanStays ==
  ASSUME call' = call, handle' = handle
  PROVE  /\ Plan' = Plan /\ Prepared' = Prepared /\ Filled' = Filled /\ Sent' = Sent /\ Parked' = Parked
         /\ X!ClassOf(call.slot)' = X!ClassOf(call.slot)
<1>1. X!ClassOf(call.slot)' = X!ClassOf(call.slot)
  BY DEF X!ClassOf
<1>2. Prepared' = Prepared
  BY <1>1 DEF Prepared
<1>3. Filled' = Filled
  BY <1>2 DEF Filled
<1>4. Sent' = Sent
  BY <1>1, <1>3 DEF Sent
<1>5. Parked' = Parked
  BY <1>1, <1>4 DEF Parked
<1>6. Plan' = Plan
  BY <1>1 DEF Plan
<1> QED BY <1>1, <1>2, <1>3, <1>4, <1>5, <1>6

\* A transfer is the next of the plan, and one more is behind.
LEMMA Onward ==
  ASSUME ScxiTypes, ScxiPlaced, X!Do
  PROVE  /\ Behind \in Nat /\ Behind < Len(Plan) /\ Head(todo) = Plan[Behind + 1]
         /\ Plan' = Plan /\ Behind' = Behind + 1 /\ todo' = SubSeq(Plan, Behind + 2, Len(Plan))
<1>1. Plan \in Seq(TransferSet) /\ Len(Plan) \in Nat
  BY PlanIs
<1>2. Behind \in 0 .. Len(Plan) /\ todo = SubSeq(Plan, Behind + 1, Len(Plan))
  BY DEF ScxiPlaced
<1>3. todo # << >> /\ todo' = Tail(todo) /\ call' = call /\ handle' = handle
  BY DEF X!Do
<1>4. Behind < Len(Plan)
  <2>1. ASSUME Behind = Len(Plan) PROVE FALSE
    <3>1. Len(todo) = 0
      BY <1>1, <2>1 DEF Behind
    <3>2. todo \in Seq(TransferSet)
      BY <1>1, <1>2
    <3> QED BY <1>3, <3>1, <3>2
  <2> QED BY <1>1, <1>2, <2>1
<1>5. Head(todo) = Plan[Behind + 1] /\ Tail(todo) = SubSeq(Plan, Behind + 2, Len(Plan))
  <2>1. Behind \in Nat /\ Behind + 1 + 0 <= Len(Plan)
    BY <1>1, <1>2, <1>4
  <2> QED BY <1>1, <1>2, <1>4, <2>1, RestOfPlan, Zenon
<1>6. Plan' = Plan
  BY <1>3, PlanStays
<1>7. Len(todo') = Len(Plan) - (Behind + 1)
  <2>1. Behind + 1 \in Nat /\ Behind + 1 <= Len(Plan) /\ Behind + 1 + 1 = Behind + 2
    BY <1>1, <1>2, <1>4
  <2>2. Len(SubSeq(Plan, Behind + 1 + 1, Len(Plan))) = Len(Plan) - (Behind + 1)
    BY ONLY <1>1, <2>1, RestLength
  <2> QED BY <1>3, <1>5, <2>1, <2>2
<1>8. Behind' = Len(Plan) - Len(todo')
  BY <1>6 DEF Behind
<1>9. Behind' = Behind + 1
  BY <1>1, <1>2, <1>7, <1>8
<1> QED BY <1>1, <1>2, <1>3, <1>4, <1>5, <1>6, <1>9

\* After one that fails, those it leaves out are behind too.
LEMMA Falling ==
  ASSUME ScxiTypes, ScxiPlaced, X!Fail
  PROVE  /\ Behind \in Nat /\ Behind < Len(Plan) /\ Head(todo) = Plan[Behind + 1] /\ Plan[Behind + 1].skip \in Nat
         /\ Plan' = Plan /\ Behind' = Behind + 1 + Plan[Behind + 1].skip /\ Behind' <= Len(Plan)
         /\ todo' = SubSeq(Plan, Behind' + 1, Len(Plan))
<1>1. Plan \in Seq(TransferSet) /\ Len(Plan) \in Nat
  BY PlanIs
<1>2. Behind \in 0 .. Len(Plan) /\ todo = SubSeq(Plan, Behind + 1, Len(Plan))
  BY DEF ScxiPlaced
<1>3. todo # << >> /\ todo' = SubSeq(todo, 2 + Head(todo).skip, Len(todo)) /\ call' = call /\ handle' = handle
  BY DEF X!Fail
<1>4. Behind < Len(Plan) /\ Behind \in Nat
  <2>1. ASSUME Behind = Len(Plan) PROVE FALSE
    <3>1. Len(todo) = 0
      BY <1>1, <2>1 DEF Behind
    <3>2. todo \in Seq(TransferSet)
      BY <1>1, <1>2
    <3> QED BY <1>3, <3>1, <3>2
  <2> QED BY <1>1, <1>2, <2>1
<1>0. Plan[Behind + 1].skip \in Nat /\ Behind + 1 + Plan[Behind + 1].skip <= Len(Plan)
  BY <1>4, SkipsFit
<1> DEFINE k == Plan[Behind + 1].skip
<1>5. Head(todo) = Plan[Behind + 1] /\ SubSeq(todo, 2 + k, Len(todo)) = SubSeq(Plan, Behind + 2 + k, Len(Plan))
  BY <1>0, <1>1, <1>2, <1>4, RestOfPlan, Zenon
<1>6. Plan' = Plan
  BY <1>3, PlanStays
<1>7. todo' = SubSeq(Plan, Behind + 1 + k + 1, Len(Plan))
  <2>1. Behind + 1 + k + 1 = Behind + 2 + k
    <3>1. k \in Nat
      BY <1>0
    <3> HIDE DEF k
    <3> QED BY <1>4, <3>1
  <2> QED BY <1>3, <1>5, <2>1
<1>8. Len(todo') = Len(Plan) - (Behind + 1 + k)
  <2>1. Behind + 1 + k \in Nat /\ Behind + 1 + k <= Len(Plan)
    <3>1. k \in Nat /\ Behind + 1 + k <= Len(Plan)
      BY <1>0
    <3> HIDE DEF k
    <3> QED BY <1>4, <3>1
  <2>2. Len(SubSeq(Plan, Behind + 1 + k + 1, Len(Plan))) = Len(Plan) - (Behind + 1 + k)
    BY <1>1, <2>1, RestLength, Zenon
  <2> QED BY <1>7, <2>2
<1>9. Behind' = Len(Plan) - Len(todo')
  BY <1>6 DEF Behind
<1>10. Behind' = Behind + 1 + k
  BY <1>0, <1>1, <1>4, <1>8, <1>9
<1> QED BY <1>0, <1>4, <1>5, <1>6, <1>7, <1>10

\* What each transfer does.
LEMMA Performs ==
  ASSUME X!Do, line \in [SS : {0, 1}, DA : {0, 1}], NEW t, t = Head(todo)
  PROVE  /\ \A l \in {"SS", "DA"}, v \in Int, k \in Nat :
              t = X!Transfer(l, v, k) => line' = [line EXCEPT ![l] = v] /\ slot' = slot /\ addr' = addr /\ data' = data /\ id' = id
         /\ \A k \in Nat : t = X!Transfer("clock", 0, k) =>
              line' = line /\ slot' = slot /\ addr' = addr /\ data' = data /\ id' = id
         /\ \A v \in Int : t = X!Shift(v) => X!DoShift(v) /\ id' = id
         /\ t = X!Read => X!DoRead
         /\ handle' = handle /\ call' = call /\ uses' = uses /\ failures' = failures /\ stuck' = stuck
<1>1. /\ \/ t.do \in {"SS", "DA"} /\ line' = [line EXCEPT ![t.do] = t.v] /\ slot' = slot /\ addr' = addr /\ data' = data /\ id' = id
         \/ t.do = "clock" /\ line' = line /\ slot' = slot /\ addr' = addr /\ data' = data /\ id' = id
         \/ t.do = "read" /\ X!DoRead
         \/ t.do = "shift" /\ X!DoShift(t.v) /\ id' = id
      /\ handle' = handle /\ call' = call /\ uses' = uses /\ failures' = failures /\ stuck' = stuck
  BY DEF X!Do, X!chassis
<1>2. ASSUME NEW l \in {"SS", "DA"}, NEW v \in Int, NEW k \in Nat, t = X!Transfer(l, v, k)
      PROVE  line' = [line EXCEPT ![l] = v] /\ slot' = slot /\ addr' = addr /\ data' = data /\ id' = id
  <2>1. t.do = l /\ t.v = v
    BY <1>2 DEF X!Transfer
  <2> QED BY <1>1, <2>1
<1>3. ASSUME NEW k \in Nat, t = X!Transfer("clock", 0, k)
      PROVE  line' = line /\ slot' = slot /\ addr' = addr /\ data' = data /\ id' = id
  <2>1. t.do = "clock"
    BY <1>3 DEF X!Transfer
  <2> QED BY <1>1, <2>1
<1>4. ASSUME NEW v \in Int, t = X!Shift(v)
      PROVE  X!DoShift(v) /\ id' = id
  <2>1. t.do = "shift" /\ t.v = v
    BY <1>4 DEF X!Shift, X!Transfer
  <2> QED BY <1>1, <2>1
<1>5. t = X!Read => X!DoRead
  <2>1. t = X!Read => t.do = "read"
    BY DEF X!Read, X!Transfer
  <2> QED BY <1>1, <2>1
<1> QED BY <1>1, <1>2, <1>3, <1>4, <1>5

\* Where a shifted word goes.
LEMMA Shifted ==
  ASSUME ScxiTypes, NEW v \in Int, X!DoShift(v)
  PROVE  /\ line' = line
         /\ line.SS = 0 => slot' = (IF v \in X!Slots THEN v ELSE X!NoSlot) /\ addr' = addr /\ data' = data
         /\ line.SS = 1 => slot' = slot
         /\ line.SS = 1 /\ slot = X!NoSlot => addr' = addr /\ data' = data
         /\ line.SS = 1 /\ slot # X!NoSlot /\ line.DA = 1 =>
              data' = data /\ addr' = IF Modules[slot] = 2 THEN [addr EXCEPT ![slot] = v] ELSE addr
         /\ line.SS = 1 /\ slot # X!NoSlot /\ line.DA = 0 =>
              addr' = addr /\ data' = Append(data, <<slot, IF Modules[slot] = 2 THEN addr[slot] ELSE call.reg>>)
         /\ slot' \in X!Slots \union {X!NoSlot} /\ addr' \in [X!Slots -> Int] /\ data' \in Seq(X!Slots \X Int)
<1>1. /\ line \in [SS : {0, 1}, DA : {0, 1}] /\ slot \in X!Slots \union {X!NoSlot} /\ addr \in [X!Slots -> Int]
      /\ data \in Seq(X!Slots \X Int) /\ call.reg \in Nat /\ X!NoSlot = 0 /\ X!NoSlot \notin X!Slots
  BY ScxiConstants DEF ScxiTypes, X!TypeOK, CallFields, X!NoSlot
<1>2. CASE line.SS = 0
  BY <1>1, <1>2 DEF X!DoShift
<1>3. CASE line.SS # 0 /\ slot = X!NoSlot
  BY <1>1, <1>3 DEF X!DoShift
<1>4. CASE line.SS # 0 /\ slot # X!NoSlot /\ line.DA = 1
  <2>1. line' = line /\ slot' = slot /\ X!ToModule(v)
    BY <1>4 DEF X!DoShift
  <2>2. data' = data /\ addr' = IF Modules[slot] = 2 THEN [addr EXCEPT ![slot] = v] ELSE addr
    BY <1>4, <2>1 DEF X!ToModule
  <2>3. addr' \in [X!Slots -> Int]
    BY <1>1, <2>2
  <2> QED BY <1>1, <1>4, <2>1, <2>2, <2>3
<1>5. CASE line.SS # 0 /\ slot # X!NoSlot /\ line.DA # 1
  <2>1. line' = line /\ slot' = slot /\ X!ToModule(v)
    BY <1>5 DEF X!DoShift
  <2> DEFINE e == <<slot, IF Modules[slot] = 2 THEN addr[slot] ELSE call.reg>>
  <2>2. addr' = addr /\ data' = Append(data, e)
    BY <1>5, <2>1 DEF X!ToModule
  <2>3. e \in X!Slots \X Int
    BY <1>1, <1>5
  <2>4. data' \in Seq(X!Slots \X Int)
    <3> HIDE DEF e
    <3> QED BY <1>1, <2>2, <2>3
  <2> QED BY <1>1, <1>5, <2>1, <2>2, <2>4
<1>6. line.SS \in {0, 1} /\ line.DA \in {0, 1}
  BY <1>1
<1> QED BY <1>2, <1>3, <1>4, <1>5, <1>6

\* What is known of the bytes is a sequence, and a transfer keeps the types.
LEMMA ScxiTypesDo ==
  ASSUME ScxiTypes, ScxiPlaced, X!Do
  PROVE  ScxiTypes'
<1>1. Head(todo) \in TransferSet
  <2>1. Plan \in Seq(TransferSet) /\ Len(Plan) \in Nat
    BY PlanIs
  <2>2. Behind \in Nat /\ Behind < Len(Plan) /\ Head(todo) = Plan[Behind + 1]
    BY Onward
  <2> QED BY <2>1, <2>2
<1> DEFINE t == Head(todo)
<1>2. /\ line \in [SS : {0, 1}, DA : {0, 1}] /\ slot \in X!Slots \union {X!NoSlot} /\ addr \in [X!Slots -> Int]
      /\ data \in Seq(X!Slots \X Int) /\ id \in {"none", "class 1", "class 2", "unknown", "empty"}
  BY DEF ScxiTypes, X!TypeOK
<1>3. /\ handle' = handle /\ call' = call /\ uses' = uses /\ failures' = failures /\ stuck' = stuck
  BY DEF X!Do
<1>4. /\ line' \in [SS : {0, 1}, DA : {0, 1}] /\ slot' \in X!Slots \union {X!NoSlot} /\ addr' \in [X!Slots -> Int]
      /\ data' \in Seq(X!Slots \X Int) /\ id' \in {"none", "class 1", "class 2", "unknown", "empty"}
  <2>1. \/ t.do \in {"SS", "DA"} /\ line' = [line EXCEPT ![t.do] = t.v] /\ slot' = slot /\ addr' = addr /\ data' = data /\ id' = id
        \/ t.do = "clock" /\ line' = line /\ slot' = slot /\ addr' = addr /\ data' = data /\ id' = id
        \/ t.do = "read" /\ X!DoRead
        \/ t.do = "shift" /\ X!DoShift(t.v) /\ id' = id
    BY DEF X!Do, X!chassis
  <2>2. CASE t.do \in {"SS", "DA"} /\ line' = [line EXCEPT ![t.do] = t.v] /\ slot' = slot /\ addr' = addr /\ data' = data /\ id' = id
    <3>1. t.v \in {0, 1}
      BY <1>1, <2>2 DEF TransferSet
    <3> HIDE DEF t
    <3> QED BY <1>2, <2>2, <3>1
  <2>3. CASE t.do = "clock" /\ line' = line /\ slot' = slot /\ addr' = addr /\ data' = data /\ id' = id
    BY <1>2, <2>3
  <2>4. CASE t.do = "read" /\ X!DoRead
    <3>1. X!DoShift(0) /\ id' \in {"class 1", "class 2", "unknown", "empty"}
      BY <2>4 DEF X!DoRead
    <3>2. 0 \in Int
      OBVIOUS
    <3> QED BY <1>2, <3>1, <3>2, Shifted
  <2>5. CASE t.do = "shift" /\ X!DoShift(t.v) /\ id' = id
    <3>1. t.v \in Int
      BY <1>1 DEF TransferSet
    <3> HIDE DEF t
    <3> QED BY <1>2, <2>5, <3>1, Shifted
  <2> QED BY <2>1, <2>2, <2>3, <2>4, <2>5
<1> QED BY <1>3, <1>4 DEF ScxiTypes, X!TypeOK, CallFields

\* One that fails does too.
LEMMA ScxiTypesFail ==
  ASSUME ScxiTypes, X!Fail
  PROVE  ScxiTypes'
<1>1. /\ line' = line /\ slot' = slot /\ addr' = addr /\ handle' = handle /\ call' = call /\ data' = data /\ uses' = uses
      /\ failures' = failures + 1 /\ failures < MaxFailures /\ stuck' \in BOOLEAN
      /\ id' \in {"none", "class 1", "class 2", "unknown", "empty"}
  BY DEF X!Fail, X!chassis, ScxiTypes, X!TypeOK
<1>2. failures' \in 0 .. MaxFailures
  <2>1. failures \in 0 .. MaxFailures
    BY DEF ScxiTypes, X!TypeOK
  <2>2. MaxFailures \in Nat
    BY ScxiConstants
  <2>3. failures' = failures + 1 /\ failures < MaxFailures
    BY <1>1
  <2> QED BY ONLY <2>1, <2>2, <2>3
<1> QED BY <1>1, <1>2 DEF ScxiTypes, X!TypeOK, CallFields

\* What has to hold of an answer, and how far the call is, stay so.
LEMMA ScxiPlacedDo ==
  ASSUME ScxiTypes, ScxiPlaced, X!Do
  PROVE  ScxiPlaced'
<1>1. /\ Behind \in Nat /\ Behind < Len(Plan) /\ Head(todo) = Plan[Behind + 1] /\ Len(Plan) \in Nat
      /\ Plan' = Plan /\ Behind' = Behind + 1 /\ todo' = SubSeq(Plan, Behind + 2, Len(Plan))
  BY Onward, PlanIs
<1>2. Behind' \in 0 .. Len(Plan') /\ todo' = SubSeq(Plan', Behind' + 1, Len(Plan'))
  BY <1>1
<1>3. handle' = handle /\ call' = call
  BY DEF X!Do
<1>4. call.fn \in {"again", "opened"} \/ (call.fn = "open" /\ Behind' = 8) => id' # "none"
  <2>1. CASE call.fn \in {"again", "opened"}
    <3>1. id # "none"
      BY <2>1 DEF ScxiPlaced
    <3>2. id' = id \/ X!DoRead
      BY DEF X!Do
    <3> QED BY <3>1, <3>2 DEF X!DoRead
  <2>2. CASE call.fn = "open" /\ Behind' = 8
    <3>1. Behind = 7
      BY <1>1, <2>2
    <3>2. Plan[8] = X!Read
      BY <2>2, OthersAre
    <3>3. Head(todo) = X!Read
      BY <1>1, <3>1, <3>2
    <3>4. X!DoRead
      BY <3>3 DEF X!Do, X!Read, X!Transfer
    <3> QED BY <3>4 DEF X!DoRead
  <2> QED BY <2>1, <2>2
<1> QED BY <1>2, <1>3, <1>4 DEF ScxiPlaced

\* The same after a transfer that fails.
LEMMA ScxiPlacedFail ==
  ASSUME ScxiTypes, ScxiPlaced, X!Fail
  PROVE  ScxiPlaced'
<1>1. /\ Behind \in Nat /\ Behind < Len(Plan) /\ Head(todo) = Plan[Behind + 1] /\ Len(Plan) \in Nat /\ Plan[Behind + 1].skip \in Nat
      /\ Plan' = Plan /\ Behind' = Behind + 1 + Plan[Behind + 1].skip /\ Behind' <= Len(Plan)
      /\ todo' = SubSeq(Plan, Behind' + 1, Len(Plan))
  BY Falling, PlanIs
<1>2. Behind' \in 0 .. Len(Plan') /\ todo' = SubSeq(Plan', Behind' + 1, Len(Plan'))
  BY <1>1
<1>3. handle' = handle /\ call' = call /\ (id' = id \/ id' \in {"unknown", "empty"})
  BY DEF X!Fail
<1>4. call.fn \in {"again", "opened"} \/ (call.fn = "open" /\ Behind' = 8) => id' # "none"
  <2>1. CASE call.fn \in {"again", "opened"}
    BY <1>3, <2>1 DEF ScxiPlaced
  <2>2. CASE call.fn = "open" /\ Behind' = 8
    <3>0. /\ Plan[1] = X!Line("DA", 1) /\ Plan[2] = X!Line("SS", 1)
          /\ Plan[3] = X!Line("SS", 0) /\ Plan[4] = X!Transfer("clock", 0, 0) /\ Plan[5] = X!Shift(call.slot)
          /\ Plan[6] = X!Line("SS", 1) /\ Plan[7] = X!Transfer("clock", 0, 0) /\ Plan[8] = X!Read /\ Len(Plan) = 8
      BY <2>2, OthersAre, Zenon
    <3>1. Behind = 7
      <4>1. Behind = 0 \/ Behind = 1 \/ Behind = 2 \/ Behind = 3 \/ Behind = 4 \/ Behind = 5 \/ Behind = 6 \/ Behind = 7
        BY <1>1, <3>0
      <4>2. \A l, v : X!Line(l, v).skip = 0
        BY DEF X!Line, X!Transfer
      <4>3. \A v : X!Shift(v).skip = 0
        BY DEF X!Shift, X!Transfer
      <4>4. X!Transfer("clock", 0, 0).skip = 0
        BY DEF X!Transfer
      <4>5. Behind < 7 => Plan[Behind + 1].skip = 0
        BY <4>1, <4>2, <4>3, <4>4, <3>0
      <4> QED BY <1>1, <2>2, <4>1, <4>5
    <3>3. Head(todo).do = "read"
      BY <1>1, <3>1, <3>0 DEF X!Read, X!Transfer
    <3> QED BY <3>3 DEF X!Fail
  <2> QED BY <2>1, <2>2
<1> QED BY <1>2, <1>3, <1>4 DEF ScxiPlaced

\* What a transfer does: it sets a line, or changes nothing of the chassis.
LineTo(l, v) == line' = [line EXCEPT ![l] = v] /\ slot' = slot /\ addr' = addr /\ data' = data
NothingMoves == line' = line /\ slot' = slot /\ addr' = addr /\ data' = data
\* What each transfer of a register access does.
LEMMA TransferMoves ==
  ASSUME ScxiTypes, ScxiPlaced, call.fn = "transfer", X!Do
  PROVE  LET b == Behind
         IN  /\ Behind' = b + 1 /\ b \in Nat /\ b < Parked + 4
             /\ call' = call /\ handle' = handle /\ id' = id
             /\ Prepared' = Prepared /\ Filled' = Filled /\ Sent' = Sent /\ Parked' = Parked
             /\ b = 0 \/ b = Parked => LineTo("SS", 0)
             /\ b = 3 \/ b = Parked + 3 \/ (b = Filled /\ Sent = Filled + 1) => LineTo("SS", 1)
             /\ b = 1 \/ b = 4 \/ b = Parked + 1 => NothingMoves
             /\ b = 2 => X!DoShift(call.slot)
             /\ b = 5 /\ Prepared = 6 => X!DoShift(call.reg)
             /\ b = Prepared => LineTo("DA", 0)
             /\ b \in Prepared + 1 .. Filled - 1 => X!DoShift(b - Prepared)
             /\ b = Sent => LineTo("DA", 1)
             /\ b = Sent + 1 /\ Prepared = 6 => X!DoShift(X!REG_PARK)
             /\ b = Parked + 2 => X!DoShift(0)
<1> DEFINE b == Behind
           t == Head(todo)
<1>1. /\ b \in Nat /\ b < Len(Plan) /\ t = Plan[b + 1] /\ Behind' = b + 1 /\ Plan' = Plan
  BY Onward
<1>2. /\ Len(Plan) = Parked + 4
      /\ Plan[1] = X!Line("SS", 0) /\ Plan[2] = X!Transfer("clock", 0, 0)
      /\ Plan[3] = X!Shift(call.slot) /\ Plan[4] = X!Line("SS", 1)
      /\ Plan[5] = X!Transfer("clock", 0, Prepared - 4) /\ (Prepared = 6 => Plan[6] = X!Shift(call.reg))
      /\ Plan[Prepared + 1] = X!Line("DA", 0)
      /\ \A k \in Prepared + 2 .. Filled : Plan[k] = X!Shift(k - Prepared - 1)
      /\ Sent = Filled + 1 => Plan[Filled + 1] = X!Line("SS", 1)
      /\ Plan[Sent + 1] = X!Transfer("DA", 1, Parked - Sent + 3)
      /\ Prepared = 6 => Plan[Sent + 2] = X!Shift(X!REG_PARK)
      /\ Plan[Parked + 1] = X!Line("SS", 0) /\ Plan[Parked + 2] = X!Transfer("clock", 0, 0)
      /\ Plan[Parked + 3] = X!Shift(0) /\ Plan[Parked + 4] = X!Line("SS", 1)
  BY TransferIs
<1>3. /\ Prepared \in {5, 6} /\ Filled \in Nat /\ Sent \in Nat /\ Parked \in Nat /\ call.bytes \in Nat
      /\ call.slot \in Int /\ call.reg \in Int /\ Parked - Sent + 3 \in Nat /\ Prepared - 4 \in Nat
  BY PartSizes
<1>4. line \in [SS : {0, 1}, DA : {0, 1}]
  BY DEF ScxiTypes, X!TypeOK
<1> HIDE DEF b, t
<1>5. /\ \A l \in {"SS", "DA"}, v \in {0, 1}, k \in Nat : t = X!Transfer(l, v, k) => LineTo(l, v) /\ id' = id
      /\ \A l \in {"SS", "DA"}, v \in {0, 1} : t = X!Line(l, v) => LineTo(l, v) /\ id' = id
      /\ \A k \in Nat : t = X!Transfer("clock", 0, k) => NothingMoves /\ id' = id
      /\ \A v \in Int : t = X!Shift(v) => X!DoShift(v) /\ id' = id
      /\ handle' = handle /\ call' = call
  BY <1>4, Performs DEF LineTo, NothingMoves, X!Line, t
<1>6. Prepared' = Prepared /\ Filled' = Filled /\ Sent' = Sent /\ Parked' = Parked
  BY <1>5, PlanStays
<1>7. b = 0 => LineTo("SS", 0) /\ id' = id
  BY <1>1, <1>2, <1>5
<1>8. b = Parked => LineTo("SS", 0) /\ id' = id
  BY <1>1, <1>2, <1>5
<1>9. b = 3 => LineTo("SS", 1) /\ id' = id
  BY <1>1, <1>2, <1>5
<1>10. b = Parked + 3 => LineTo("SS", 1) /\ id' = id
  <2>1. Parked + 3 + 1 = Parked + 4
    BY <1>3
  <2> QED BY <1>1, <1>2, <1>5, <2>1
<1>11. b = Filled /\ Sent = Filled + 1 => LineTo("SS", 1) /\ id' = id
  BY <1>1, <1>2, <1>5
<1>12. b = 1 => NothingMoves /\ id' = id
  BY <1>1, <1>2, <1>5
<1>13. b = 4 => NothingMoves /\ id' = id
  <2>1. b = 4 => t = X!Transfer("clock", 0, Prepared - 4)
    BY <1>1, <1>2
  <2> QED BY <2>1, <1>3, <1>5, Zenon
<1>14. b = Parked + 1 => NothingMoves /\ id' = id
  <2>1. Parked + 1 + 1 = Parked + 2
    BY <1>3
  <2> QED BY <1>1, <1>2, <1>5, <2>1
<1>15. b = 2 => X!DoShift(call.slot) /\ id' = id
  <2>1. b = 2 => t = X!Shift(call.slot)
    BY <1>1, <1>2
  <2> QED BY <2>1, <1>3, <1>5, Zenon
<1>16. b = 5 /\ Prepared = 6 => X!DoShift(call.reg) /\ id' = id
  <2>1. b = 5 /\ Prepared = 6 => t = X!Shift(call.reg)
    BY <1>1, <1>2
  <2> QED BY <2>1, <1>3, <1>5, Zenon
<1>17. b = Prepared => LineTo("DA", 0) /\ id' = id
  BY <1>1, <1>2, <1>5
<1>18. b \in Prepared + 1 .. Filled - 1 => X!DoShift(b - Prepared) /\ id' = id
  <2> SUFFICES ASSUME b \in Prepared + 1 .. Filled - 1 PROVE X!DoShift(b - Prepared) /\ id' = id
    OBVIOUS
  <2> DEFINE k == b + 1
  <2>1. k \in Prepared + 2 .. Filled /\ k - Prepared - 1 = b - Prepared /\ b - Prepared \in Int /\ t = Plan[k]
    BY <1>1, <1>3
  <2> HIDE DEF k
  <2>2. Plan[k] = X!Shift(k - Prepared - 1)
    BY <2>1, <1>2
  <2>3. t = X!Shift(b - Prepared)
    BY <2>1, <2>2
  <2> QED BY <2>1, <2>3, <1>5, Zenon
<1>19. b = Sent => LineTo("DA", 1) /\ id' = id
  <2>1. b = Sent => t = X!Transfer("DA", 1, Parked - Sent + 3)
    BY <1>1, <1>2
  <2>2. "DA" \in {"SS", "DA"} /\ 1 \in {0, 1}
    OBVIOUS
  <2> QED BY <2>1, <2>2, <1>3, <1>5, Zenon
<1>20. b = Sent + 1 /\ Prepared = 6 => X!DoShift(X!REG_PARK) /\ id' = id
  <2>1. Sent + 1 + 1 = Sent + 2 /\ X!REG_PARK \in Int
    BY <1>3 DEF X!REG_PARK
  <2>2. b = Sent + 1 /\ Prepared = 6 => t = X!Shift(X!REG_PARK)
    BY <1>1, <1>2, <2>1
  <2> QED BY <2>1, <2>2, <1>5, Zenon
<1>21. b = Parked + 2 => X!DoShift(0) /\ id' = id
  <2>1. Parked + 2 + 1 = Parked + 3 /\ 0 \in Int
    BY <1>3
  <2>2. b = Parked + 2 => t = X!Shift(0)
    BY <1>1, <1>2, <2>1
  <2> QED BY <2>1, <2>2, <1>5, Zenon
<1>22. \/ b = 0 \/ b = Parked \/ b = 3 \/ b = Parked + 3 \/ (b = Filled /\ Sent = Filled + 1)
       \/ b = 1 \/ b = 4 \/ b = Parked + 1 \/ b = 2 \/ (b = 5 /\ Prepared = 6) \/ b = Prepared
       \/ b \in Prepared + 1 .. Filled - 1 \/ b = Sent \/ (b = Sent + 1 /\ Prepared = 6) \/ b = Parked + 2
  <2>1. b < Parked + 4
    BY <1>1, <1>2
  <2>2. /\ Prepared = 5 => Parked = Sent + 1
        /\ Prepared = 6 => Parked = Sent + 2
        /\ Sent = Filled \/ Sent = Filled + 1
        /\ Filled = Prepared + 1 + call.bytes
    BY PartSizes
  <2> QED BY <2>1, <2>2, <1>1, <1>3
<1>23. id' = id
  BY <1>7, <1>8, <1>9, <1>10, <1>11, <1>12, <1>13, <1>14, <1>15, <1>16, <1>17, <1>18, <1>19, <1>20, <1>21, <1>22, Zenon
<1> QED BY <1>1, <1>2, <1>5, <1>6, <1>7, <1>8, <1>9, <1>10, <1>11, <1>12, <1>13, <1>14, <1>15, <1>16, <1>17, <1>18, <1>19, <1>20, <1>21, <1>23 DEF b

\* When a register access shifts a word, and when it moves SS.
Shifting(b) ==
  b = 2 \/ (b = 5 /\ Prepared = 6) \/ b \in Prepared + 1 .. Filled - 1 \/ (b = Sent + 1 /\ Prepared = 6) \/ b = Parked + 2
Raising(b) == b = 3 \/ b = Parked + 3 \/ (b = Filled /\ Sent = Filled + 1)
\* The word shifted.
WordSent(b) ==
  IF b = 2 THEN call.slot ELSE IF b = 5 THEN call.reg ELSE IF b = Parked + 2 THEN 0 ELSE IF b = Sent + 1 THEN X!REG_PARK ELSE b - Prepared

\* A line that is set leaves the other one.
LEMMA LineSet ==
  ASSUME line \in [SS : {0, 1}, DA : {0, 1}], NEW v \in {0, 1}
  PROVE  /\ LineTo("SS", v) => line'.SS = v /\ line'.DA = line.DA /\ slot' = slot /\ addr' = addr /\ data' = data
         /\ LineTo("DA", v) => line'.SS = line.SS /\ line'.DA = v /\ slot' = slot /\ addr' = addr /\ data' = data
  BY DEF LineTo

\* What is the case of a shift does hold of one
ShiftOf(v) ==
  /\ line' = line
  /\ line.SS = 0 => slot' = (IF v \in X!Slots THEN v ELSE X!NoSlot) /\ addr' = addr /\ data' = data
  /\ line.SS = 1 => slot' = slot
  /\ line.SS = 1 /\ slot = X!NoSlot => addr' = addr /\ data' = data
  /\ line.SS = 1 /\ slot # X!NoSlot /\ line.DA = 1 =>
       data' = data /\ addr' = IF Modules[slot] = 2 THEN [addr EXCEPT ![slot] = v] ELSE addr
  /\ line.SS = 1 /\ slot # X!NoSlot /\ line.DA = 0 =>
       addr' = addr /\ data' = Append(data, <<slot, IF Modules[slot] = 2 THEN addr[slot] ELSE call.reg>>)

\* What a transfer of a register access does, once more, by what changes.
LEMMA TransferEffect ==
  ASSUME ScxiTypes, ScxiPlaced, call.fn = "transfer", X!Do
  PROVE  LET b == Behind
         IN  /\ line'.DA = (IF b = Prepared THEN 0 ELSE IF b = Sent THEN 1 ELSE line.DA)
             /\ line'.SS = (IF b = 0 \/ b = Parked THEN 0 ELSE IF Raising(b) THEN 1 ELSE line.SS)
             /\ Shifting(b) => ShiftOf(WordSent(b))
             /\ ~Shifting(b) => slot' = slot /\ addr' = addr /\ data' = data
<1> DEFINE b == Behind
<1>1. b \in Nat /\ b < Parked + 4
  BY TransferMoves
<1>2. /\ b = 0 \/ b = Parked => LineTo("SS", 0)
      /\ b = 3 \/ b = Parked + 3 \/ (b = Filled /\ Sent = Filled + 1) => LineTo("SS", 1)
      /\ b = 1 \/ b = 4 \/ b = Parked + 1 => NothingMoves
      /\ b = 2 => X!DoShift(call.slot)
      /\ b = 5 /\ Prepared = 6 => X!DoShift(call.reg)
      /\ b = Prepared => LineTo("DA", 0)
      /\ b \in Prepared + 1 .. Filled - 1 => X!DoShift(b - Prepared)
      /\ b = Sent => LineTo("DA", 1)
      /\ b = Sent + 1 /\ Prepared = 6 => X!DoShift(X!REG_PARK)
      /\ b = Parked + 2 => X!DoShift(0)
  BY TransferMoves
<1>3. /\ Prepared \in {5, 6} /\ Filled \in Nat /\ Sent \in Nat /\ Parked \in Nat /\ call.bytes \in Nat
      /\ call.slot \in Int /\ call.reg \in Int /\ X!REG_PARK \in Int
      /\ Prepared = 5 => Parked = Sent + 1
      /\ Prepared = 6 => Parked = Sent + 2 /\ Sent = Filled
      /\ Filled = Prepared + 1 + call.bytes
      /\ Sent = Filled \/ Sent = Filled + 1
  BY PartSizes DEF X!REG_PARK
<1>4. line \in [SS : {0, 1}, DA : {0, 1}]
  BY DEF ScxiTypes, X!TypeOK
<1>5. \A v \in Int : X!DoShift(v) => ShiftOf(v)
  BY Shifted DEF ShiftOf
<1> HIDE DEF b
<1>6. /\ LineTo("SS", 0) => line'.SS = 0 /\ line'.DA = line.DA /\ slot' = slot /\ addr' = addr /\ data' = data
      /\ LineTo("SS", 1) => line'.SS = 1 /\ line'.DA = line.DA /\ slot' = slot /\ addr' = addr /\ data' = data
      /\ LineTo("DA", 0) => line'.SS = line.SS /\ line'.DA = 0 /\ slot' = slot /\ addr' = addr /\ data' = data
      /\ LineTo("DA", 1) => line'.SS = line.SS /\ line'.DA = 1 /\ slot' = slot /\ addr' = addr /\ data' = data
  BY <1>4, LineSet
<1>7. WordSent(b) \in Int
  BY <1>1, <1>3 DEF WordSent
<1>8. Shifting(b) => X!DoShift(WordSent(b))
  <2>1. b = 2 => WordSent(b) = call.slot
    BY DEF WordSent
  <2>2. b = 5 /\ Prepared = 6 => WordSent(b) = call.reg
    BY DEF WordSent
  <2>3. b \in Prepared + 1 .. Filled - 1 => WordSent(b) = b - Prepared
    BY <1>1, <1>3 DEF WordSent
  <2>4. b = Sent + 1 /\ Prepared = 6 => WordSent(b) = X!REG_PARK
    BY <1>1, <1>3 DEF WordSent
  <2>5. b = Parked + 2 => WordSent(b) = 0
    BY <1>1, <1>3 DEF WordSent
  <2> QED BY <1>2, <2>1, <2>2, <2>3, <2>4, <2>5, Zenon DEF Shifting
<1>9. Shifting(b) => ShiftOf(WordSent(b))
  BY <1>5, <1>7, <1>8
<1>10. ~Shifting(b) =>
         \/ (b = 0 \/ b = Parked) /\ LineTo("SS", 0)
         \/ Raising(b) /\ LineTo("SS", 1)
         \/ (b = 1 \/ b = 4 \/ b = Parked + 1) /\ NothingMoves
         \/ b = Prepared /\ LineTo("DA", 0)
         \/ b = Sent /\ LineTo("DA", 1)
  <2>1. Shifting(b) \/ b = 0 \/ b = Parked \/ Raising(b) \/ b = 1 \/ b = 4 \/ b = Parked + 1 \/ b = Prepared \/ b = Sent
    BY <1>1, <1>3 DEF Shifting, Raising
  <2> QED BY <1>2, <2>1, Zenon DEF Raising
<1>11. ~Shifting(b) => slot' = slot /\ addr' = addr /\ data' = data
  BY <1>6, <1>10 DEF NothingMoves
<1>12. Shifting(b) => b # 0 /\ b # Parked /\ ~Raising(b) /\ b # Prepared /\ b # Sent
  BY <1>1, <1>3 DEF Shifting, Raising
<1>13. b \in {Prepared, Sent} => b # 0 /\ b # Parked /\ ~Raising(b) /\ b # 1 /\ b # 4 /\ b # Parked + 1
  BY <1>1, <1>3 DEF Raising
<1>14. Raising(b) => b # 0 /\ b # Parked /\ b # 1 /\ b # 4 /\ b # Parked + 1
  BY <1>1, <1>3 DEF Raising
<1>15. Prepared # Sent /\ (b \in {0, Parked} => b # 1 /\ b # 4 /\ b # Parked + 1)
  BY <1>1, <1>3
<1>16. Shifting(b) => line' = line
  BY <1>9 DEF ShiftOf
<1>17. NothingMoves => line' = line
  BY DEF NothingMoves
<1>18. line'.DA = (IF b = Prepared THEN 0 ELSE IF b = Sent THEN 1 ELSE line.DA)
  <2>1. CASE Shifting(b)
    BY <1>12, <1>16, <2>1
  <2>2. CASE b = Prepared
    BY <1>2, <1>6, <2>2
  <2>3. CASE b = Sent
    BY <1>2, <1>6, <1>15, <2>3
  <2>4. CASE ~Shifting(b) /\ b # Prepared /\ b # Sent
    BY <1>6, <1>10, <1>17, <2>4
  <2> QED BY <2>1, <2>2, <2>3, <2>4
<1>19. line'.SS = (IF b = 0 \/ b = Parked THEN 0 ELSE IF Raising(b) THEN 1 ELSE line.SS)
  <2>1. CASE Shifting(b)
    BY <1>12, <1>16, <2>1
  <2>2. CASE b = 0 \/ b = Parked
    BY <1>2, <1>6, <2>2
  <2>3. CASE Raising(b)
    BY <1>2, <1>6, <1>14, <2>3 DEF Raising
  <2>4. CASE ~Shifting(b) /\ ~(b = 0 \/ b = Parked) /\ ~Raising(b)
    BY <1>6, <1>10, <1>17, <2>4
  <2> QED BY <2>1, <2>2, <2>3, <2>4
<1> QED BY <1>9, <1>11, <1>18, <1>19 DEF b

\* A transfer of a register access keeps Strayed
LEMMA TransferStrays ==
  ASSUME ScxiTypes, ScxiPlaced, call.fn = "transfer", X!Do, StrayedTransfer,
         X!ClassOf(call.slot) = 1 => Modules[call.slot] = 1
  PROVE  StrayedTransfer'
<1> DEFINE b == Behind
<1>1. /\ b \in Nat /\ b < Parked + 4 /\ Behind' = b + 1 /\ call' = call
      /\ Prepared' = Prepared /\ Filled' = Filled /\ Sent' = Sent /\ Parked' = Parked
  BY TransferMoves
<1>2. /\ line'.DA = (IF b = Prepared THEN 0 ELSE IF b = Sent THEN 1 ELSE line.DA)
      /\ line'.SS = (IF b = 0 \/ b = Parked THEN 0 ELSE IF Raising(b) THEN 1 ELSE line.SS)
      /\ Shifting(b) => ShiftOf(WordSent(b))
      /\ ~Shifting(b) => slot' = slot /\ addr' = addr /\ data' = data
  BY TransferEffect
<1>3. /\ Prepared \in {5, 6} /\ Filled \in Nat /\ Sent \in Nat /\ Parked \in Nat /\ call.bytes \in Nat
      /\ call.slot \in X!Slots /\ call.reg \in Int
      /\ Prepared = 5 => Parked = Sent + 1 /\ X!ClassOf(call.slot) = 1
      /\ Prepared = 6 => Parked = Sent + 2 /\ Sent = Filled
      /\ Filled = Prepared + 1 + call.bytes
      /\ Sent = Filled \/ Sent = Filled + 1
  BY PartSizes
<1>4. /\ line.SS \in {0, 1} /\ line.DA \in {0, 1} /\ slot \in X!Slots \union {X!NoSlot} /\ addr \in [X!Slots -> Int]
      /\ data \in Seq(X!Slots \X Int) /\ X!NoSlot \notin X!Slots
  BY ScxiConstants DEF ScxiTypes, X!TypeOK, X!NoSlot
<1>6. /\ b <= Prepared \/ b > Sent => line.DA = 1
      /\ b \in 1 .. 2 => slot = X!NoSlot \/ line.SS = 0
      /\ b \in 3 .. 5 => slot \in {X!NoSlot, call.slot}
      /\ b = 6 /\ Prepared = 6 => Aimed
      /\ b \in Prepared + 1 .. Filled => Aimed \/ line.DA = 1
      /\ b <= Prepared => data = << >>
      /\ \A k \in DOMAIN data : data[k][1] = call.slot /\ data[k][2] \in {call.reg, X!REG_PARK}
  BY DEF StrayedTransfer, Chosen
<1> HIDE DEF b
<1>7. /\ Shifting(b) /\ (b < Prepared \/ b > Sent) => line.DA = 1
      /\ Shifting(b) /\ line.DA = 0 => b \in Prepared + 1 .. Filled - 1
      /\ b = 2 => Shifting(b) /\ WordSent(b) = call.slot
      /\ b = 5 /\ Prepared = 6 => Shifting(b) /\ WordSent(b) = call.reg
      /\ b \in {0, 1, 3, 4, Prepared} => ~Shifting(b)
      /\ b \in {1, 2, 4, 5, Prepared} \/ b \in Prepared + 1 .. Filled - 1 => ~Raising(b) /\ b # Parked /\ b # 0
  BY <1>1, <1>3, <1>6 DEF Shifting, Raising, WordSent
<1>8. b + 1 <= Prepared \/ b + 1 > Sent => line'.DA = 1
  BY <1>1, <1>2, <1>3, <1>6, SMTT(30)
<1>9. b + 1 \in 1 .. 2 => slot' = X!NoSlot \/ line'.SS = 0
  <2>1. CASE b = 0
    BY <1>2, <2>1
  <2>2. CASE b = 1
    BY <1>2, <1>6, <1>7, <2>2
  <2> QED BY <1>1, <2>1, <2>2
<1>10. b + 1 \in 3 .. 5 => slot' \in {X!NoSlot, call.slot}
  <2>1. CASE b = 2
    <3>1. ShiftOf(call.slot)
      BY <1>2, <1>7, <2>1
    <3>2. slot = X!NoSlot \/ line.SS = 0
      BY <1>6, <2>1
    <3> QED BY <1>3, <1>4, <3>1, <3>2 DEF ShiftOf
  <2>2. CASE b = 3 \/ b = 4
    BY <1>2, <1>6, <1>7, <2>2
  <2> QED BY <1>1, <2>1, <2>2
<1>11. b + 1 = 6 /\ Prepared = 6 => Aimed'
  <2> SUFFICES ASSUME b = 5, Prepared = 6 PROVE Aimed'
    BY <1>1
  <2>1. ShiftOf(call.reg) /\ slot \in {X!NoSlot, call.slot} /\ line.DA = 1 /\ line'.SS = line.SS
    BY <1>2, <1>3, <1>6, <1>7
  <2>2. CASE line.SS = 0
    BY <2>1, <2>2 DEF Aimed
  <2>3. CASE line.SS = 1 /\ slot = X!NoSlot
    BY <2>1, <2>3 DEF Aimed, ShiftOf
  <2>4. CASE line.SS = 1 /\ slot # X!NoSlot
    <3>1. slot = call.slot /\ slot' = slot /\ addr' = IF Modules[slot] = 2 THEN [addr EXCEPT ![slot] = call.reg] ELSE addr
      BY <2>1, <2>4 DEF ShiftOf
    <3>2. Modules[slot] = 2 => addr'[slot] = call.reg
      BY <1>3, <1>4, <3>1
    <3> QED BY <1>1, <3>1, <3>2 DEF Aimed
  <2> QED BY <1>4, <2>2, <2>3, <2>4
<1>12. b + 1 \in Prepared + 1 .. Filled => Aimed' \/ line'.DA = 1
  <2>1. CASE b = Prepared
    <3>1. slot' = slot /\ addr' = addr /\ line'.SS = line.SS
      BY <1>2, <1>7, <2>1
    <3>2. Aimed
      <4>1. CASE Prepared = 6
        BY <1>6, <2>1, <4>1
      <4>2. CASE Prepared = 5
        <5>1. slot \in {X!NoSlot, call.slot} /\ Modules[call.slot] = 1
          BY <1>3, <1>6, <2>1, <4>2
        <5> QED BY <5>1 DEF Aimed
      <4> QED BY <1>3, <4>1, <4>2
    <3> QED BY <1>1, <3>1, <3>2 DEF Aimed
  <2>2. CASE b \in Prepared + 1 .. Filled - 1
    <3>1. line'.DA = line.DA /\ line'.SS = line.SS /\ Shifting(b) /\ (Aimed \/ line.DA = 1)
      BY <1>1, <1>2, <1>3, <1>6, <1>7, <2>2 DEF Shifting
    <3>2. CASE line.DA = 1
      BY <3>1, <3>2
    <3>3. CASE line.DA = 0 /\ line.SS = 0
      BY <3>1, <3>3 DEF Aimed
    <3>4. CASE line.DA = 0 /\ line.SS = 1
      <4>1. slot' = slot /\ addr' = addr
        BY <1>2, <3>1, <3>4 DEF ShiftOf
      <4> QED BY <1>1, <3>1, <3>4, <4>1 DEF Aimed
    <3> QED BY <1>4, <3>2, <3>3, <3>4
  <2> QED BY <1>1, <1>3, <2>1, <2>2
<1>13. ~(Shifting(b) /\ line.SS = 1 /\ slot # X!NoSlot /\ line.DA = 0) => data' = data
  <2>1. CASE ~Shifting(b)
    BY <1>2, <2>1
  <2>2. CASE Shifting(b)
    BY <1>2, <1>4, <2>2 DEF ShiftOf
  <2> QED BY <2>1, <2>2
<1>14. b + 1 <= Prepared => data' = << >>
  BY <1>1, <1>3, <1>6, <1>7, <1>13
<1>15. \A k \in DOMAIN data' : data'[k][1] = call.slot /\ data'[k][2] \in {call.reg, X!REG_PARK}
  <2>1. CASE Shifting(b) /\ line.SS = 1 /\ slot # X!NoSlot /\ line.DA = 0
    <3>1. Aimed
      BY <1>3, <1>6, <1>7, <2>1
    <3> DEFINE e == <<slot, IF Modules[slot] = 2 THEN addr[slot] ELSE call.reg>>
    <3>2. data' = Append(data, e)
      BY <1>2, <2>1 DEF ShiftOf
    <3>3. e[1] = call.slot /\ e[2] \in {call.reg, X!REG_PARK} /\ e \in X!Slots \X Int
      BY <1>3, <1>4, <2>1, <3>1 DEF Aimed
    <3> HIDE DEF e
    <3> QED BY <1>4, <1>6, <3>2, <3>3, SMTT(30)
  <2>2. CASE ~(Shifting(b) /\ line.SS = 1 /\ slot # X!NoSlot /\ line.DA = 0)
    BY <1>6, <1>13, <2>2
  <2> QED BY <2>1, <2>2
<1> QED BY <1>1, <1>8, <1>9, <1>10, <1>11, <1>12, <1>14, <1>15 DEF StrayedTransfer, Chosen

\* and Untroubled.
LEMMA TransferGoesOn ==
  ASSUME ScxiTypes, ScxiPlaced, call.fn = "transfer", X!Do, Transferring, OthersParked,
         handle[call.slot] = HandleOf(call.slot)
  PROVE  Transferring' /\ OthersParked'
<1> DEFINE b == Behind
<1>1. /\ b \in Nat /\ b < Parked + 4 /\ Behind' = b + 1 /\ call' = call /\ handle' = handle
      /\ Prepared' = Prepared /\ Filled' = Filled /\ Sent' = Sent /\ Parked' = Parked
  BY TransferMoves
<1>2. /\ line'.DA = (IF b = Prepared THEN 0 ELSE IF b = Sent THEN 1 ELSE line.DA)
      /\ line'.SS = (IF b = 0 \/ b = Parked THEN 0 ELSE IF Raising(b) THEN 1 ELSE line.SS)
      /\ Shifting(b) => ShiftOf(WordSent(b))
      /\ ~Shifting(b) => slot' = slot /\ addr' = addr /\ data' = data
  BY TransferEffect
<1>3. /\ Prepared \in {5, 6} /\ Filled \in Nat /\ Sent \in Nat /\ Parked \in Nat /\ call.bytes \in Nat
      /\ call.slot \in X!Slots /\ call.reg \in Int
      /\ Prepared = 5 => Parked = Sent + 1 /\ X!ClassOf(call.slot) = 1
      /\ Prepared = 6 => Parked = Sent + 2 /\ Sent = Filled /\ X!ClassOf(call.slot) # 1
      /\ Filled = Prepared + 1 + call.bytes
      /\ Sent = Filled \/ Sent = Filled + 1
  BY PartSizes
<1>4. /\ slot \in X!Slots \union {X!NoSlot} /\ addr \in [X!Slots -> Int]
      /\ data \in Seq(X!Slots \X Int) /\ X!NoSlot \notin X!Slots
  BY ScxiConstants DEF ScxiTypes, X!TypeOK, X!NoSlot
<1>5. Modules[call.slot] = 2 <=> Prepared = 6
  <2>1. Modules[call.slot] \in {1, 2}
    BY <1>3, ScxiConstants
  <2> QED BY <1>3, <2>1 DEF HandleOf, X!ClassOf
<1>6. /\ line.SS = IF b \in 1 .. 3 \/ b \in Parked + 1 .. Parked + 3 THEN 0 ELSE 1
      /\ line.DA = IF b \in Prepared + 1 .. Sent THEN 0 ELSE 1
      /\ slot = IF b \in 3 .. Parked + 2 THEN call.slot ELSE X!NoSlot
      /\ Modules[call.slot] = 2 => addr[call.slot] = IF b \in 6 .. Sent + 1 THEN call.reg ELSE X!REG_PARK
      /\ b <= Prepared => data = << >>
      /\ b \in Prepared + 1 .. Filled => Len(data) = b - Prepared - 1
      /\ b > Filled => Len(data) = call.bytes
      /\ \A k \in DOMAIN data : data[k] = <<call.slot, call.reg>>
      /\ \A s \in X!Slots : s # call.slot /\ handle[s] # "closed" /\ Modules[s] = 2 => addr[s] = X!REG_PARK
  BY DEF Transferring, OthersParked
<1> HIDE DEF b
<1>7. line'.SS = IF b + 1 \in 1 .. 3 \/ b + 1 \in Parked + 1 .. Parked + 3 THEN 0 ELSE 1
  <2>1. (b + 1 \in 1 .. 3 \/ b + 1 \in Parked + 1 .. Parked + 3)
          <=> ((b = 0 \/ b = Parked) \/ (~Raising(b) /\ (b \in 1 .. 3 \/ b \in Parked + 1 .. Parked + 3)))
    BY <1>1, <1>3 DEF Raising
  <2>2. Raising(b) => ~(b = 0 \/ b = Parked)
    BY <1>1, <1>3 DEF Raising
  <2> QED BY <1>2, <1>6, <2>1, <2>2
<1>8. line'.DA = IF b + 1 \in Prepared + 1 .. Sent THEN 0 ELSE 1
  BY <1>1, <1>2, <1>3, <1>6
<1>9. /\ b = 2 => Shifting(b) /\ WordSent(b) = call.slot
      /\ b = 5 /\ Prepared = 6 => Shifting(b) /\ WordSent(b) = call.reg
      /\ b = Sent + 1 /\ Prepared = 6 => Shifting(b) /\ WordSent(b) = X!REG_PARK
      /\ b = Parked + 2 => Shifting(b) /\ WordSent(b) = 0
      /\ b \in Prepared + 1 .. Filled - 1 => Shifting(b)
      /\ Shifting(b) => b = 2 \/ (b = 5 /\ Prepared = 6) \/ (b = Sent + 1 /\ Prepared = 6) \/ b = Parked + 2 \/ b \in Prepared + 1 .. Filled - 1
  BY <1>1, <1>3 DEF Shifting, WordSent
<1>11. b \in Prepared + 1 .. Filled - 1 =>
         /\ b \notin 1 .. 3 /\ b \notin Parked + 1 .. Parked + 3 /\ b \in Prepared + 1 .. Sent
         /\ b \in 3 .. Parked + 2 /\ b + 1 \in 3 .. Parked + 2 /\ b \in 6 .. Sent + 1 /\ b + 1 \in 6 .. Sent + 1
  BY <1>1, <1>3
<1>12. b = Sent + 1 /\ Prepared = 6 =>
         /\ b \notin 1 .. 3 /\ b \notin Parked + 1 .. Parked + 3 /\ b \notin Prepared + 1 .. Sent
         /\ b \in 3 .. Parked + 2 /\ b + 1 \in 3 .. Parked + 2 /\ b + 1 \notin 6 .. Sent + 1
         /\ b > Filled /\ b + 1 > Filled /\ b + 1 \notin Prepared + 1 .. Filled /\ ~(b + 1 <= Prepared)
  BY <1>1, <1>3
<1>13. b \in 3 .. Parked + 2 => slot = call.slot /\ slot # X!NoSlot
  BY <1>3, <1>4, <1>6
<1> DEFINE Done == /\ slot' = IF b + 1 \in 3 .. Parked + 2 THEN call.slot ELSE X!NoSlot
                   /\ Modules[call.slot] = 2 => addr'[call.slot] = IF b + 1 \in 6 .. Sent + 1 THEN call.reg ELSE X!REG_PARK
                   /\ \A s \in X!Slots : s # call.slot => addr'[s] = addr[s]
                   /\ b + 1 <= Prepared => data' = << >>
                   /\ b + 1 \in Prepared + 1 .. Filled => Len(data') = b + 1 - Prepared - 1
                   /\ b + 1 > Filled => Len(data') = call.bytes
                   /\ \A k \in DOMAIN data' : data'[k] = <<call.slot, call.reg>>
<1>10. Done
  <2>1. CASE ~Shifting(b)
    <3>1. slot' = slot /\ addr' = addr /\ data' = data
      BY <1>2, <2>1
    <3>2. b + 1 \in 3 .. Parked + 2 <=> b \in 3 .. Parked + 2
      BY <1>1, <1>3, <1>9, <2>1
    <3>3. Prepared = 6 => (b + 1 \in 6 .. Sent + 1 <=> b \in 6 .. Sent + 1)
      BY <1>1, <1>3, <1>9, <2>1
    <3>4. /\ b + 1 <= Prepared => data' = << >>
          /\ b + 1 \in Prepared + 1 .. Filled => Len(data') = b + 1 - Prepared - 1
          /\ b + 1 > Filled => Len(data') = call.bytes
      <4>1. b + 1 <= Prepared => b <= Prepared
        BY <1>1, <1>3
      <4>2. b + 1 \in Prepared + 1 .. Filled => b = Prepared /\ b + 1 - Prepared - 1 = 0
        BY <1>1, <1>3, <1>9, <2>1
      <4>3. b + 1 > Filled => b > Filled \/ (b = Filled /\ b \in Prepared + 1 .. Filled /\ b - Prepared - 1 = call.bytes)
        BY <1>1, <1>3
      <4>4. b + 1 \in Prepared + 1 .. Filled => Len(data) = 0
        BY <1>6, <1>3, <4>2
      <4> QED BY <1>6, <3>1, <4>1, <4>2, <4>3, <4>4
    <3> QED BY <1>5, <1>6, <3>1, <3>2, <3>3, <3>4
  <2>2. CASE b = 2
    <3>1. slot' = call.slot /\ addr' = addr /\ data' = data
      BY <1>2, <1>3, <1>6, <1>9, <2>2 DEF ShiftOf
    <3> QED BY <1>3, <1>6, <3>1, <2>2
  <2>3. CASE b = 5 /\ Prepared = 6
    <3>1. ShiftOf(call.reg) /\ line.SS = 1 /\ slot = call.slot /\ line.DA = 1 /\ slot # X!NoSlot
      BY <1>2, <1>3, <1>4, <1>6, <1>9, <2>3
    <3>2. slot' = call.slot /\ addr' = [addr EXCEPT ![call.slot] = call.reg] /\ data' = data
      BY <1>5, <3>1, <2>3 DEF ShiftOf
    <3> QED BY <1>3, <1>4, <1>6, <3>2, <2>3
  <2>4. CASE b = Sent + 1 /\ Prepared = 6
    <3>1. ShiftOf(X!REG_PARK) /\ line.SS = 1 /\ slot = call.slot /\ line.DA = 1 /\ slot # X!NoSlot
      <4>1. ShiftOf(X!REG_PARK) /\ slot = call.slot /\ slot # X!NoSlot
        BY <1>2, <1>9, <1>12, <1>13, <2>4
      <4>2. line.SS = 1 /\ line.DA = 1
        BY <1>6, <1>12, <2>4
      <4> QED BY <4>1, <4>2
    <3>2. slot' = call.slot /\ addr' = [addr EXCEPT ![call.slot] = X!REG_PARK] /\ data' = data
      BY <1>5, <3>1, <2>4 DEF ShiftOf
    <3>3. addr'[call.slot] = X!REG_PARK /\ \A s \in X!Slots : s # call.slot => addr'[s] = addr[s]
      BY <1>3, <1>4, <3>2
    <3> QED BY <1>6, <1>12, <3>2, <3>3, <2>4
  <2>5. CASE b = Parked + 2
    <3>1. ShiftOf(0) /\ line.SS = 0
      BY <1>2, <1>3, <1>6, <1>9, <2>5
    <3>2. slot' = X!NoSlot /\ addr' = addr /\ data' = data
      BY <3>1, <1>4 DEF ShiftOf, X!NoSlot
    <3> QED BY <1>3, <1>5, <1>6, <3>2, <2>5
  <2>6. CASE b \in Prepared + 1 .. Filled - 1
    <3>1. ShiftOf(WordSent(b)) /\ line.SS = 1 /\ slot = call.slot /\ line.DA = 0 /\ slot # X!NoSlot
      <4>1. ShiftOf(WordSent(b)) /\ slot = call.slot /\ slot # X!NoSlot
        BY <1>2, <1>9, <1>11, <1>13, <2>6
      <4>2. line.SS = 1 /\ line.DA = 0
        BY <1>6, <1>11, <2>6
      <4> QED BY <4>1, <4>2
    <3> DEFINE e == <<slot, IF Modules[slot] = 2 THEN addr[slot] ELSE call.reg>>
    <3>2. slot' = slot /\ addr' = addr /\ data' = Append(data, e)
      BY <3>1 DEF ShiftOf
    <3>3. Modules[call.slot] = 2 => addr[call.slot] = call.reg
      BY <1>6, <1>11, <2>6
    <3>4. e = <<call.slot, call.reg>> /\ e \in X!Slots \X Int
      BY <1>3, <3>1, <3>3
    <3> HIDE DEF e
    <3>5. Len(data') = Len(data) + 1 /\ \A k \in DOMAIN data' : data'[k] = <<call.slot, call.reg>>
      BY <1>4, <1>6, <3>2, <3>4, SMTT(30)
    <3>6. Len(data) = b - Prepared - 1
      BY <1>1, <1>3, <1>6, <2>6
    <3>7. slot' = IF b + 1 \in 3 .. Parked + 2 THEN call.slot ELSE X!NoSlot
      BY <1>11, <3>1, <3>2, <2>6
    <3>8. Modules[call.slot] = 2 => addr'[call.slot] = IF b + 1 \in 6 .. Sent + 1 THEN call.reg ELSE X!REG_PARK
      BY <1>11, <3>2, <3>3, <2>6
    <3>9. /\ b + 1 <= Prepared => data' = << >>
          /\ b + 1 \in Prepared + 1 .. Filled => Len(data') = b + 1 - Prepared - 1
          /\ b + 1 > Filled => Len(data') = call.bytes
      <4>1. ~(b + 1 <= Prepared) /\ ~(b + 1 > Filled) /\ b - Prepared - 1 + 1 = b + 1 - Prepared - 1
        BY <1>1, <1>3, <2>6
      <4> QED BY <3>5, <3>6, <4>1
    <3> QED BY <3>2, <3>5, <3>7, <3>8, <3>9
  <2> QED BY <1>9, <2>1, <2>2, <2>3, <2>4, <2>5, <2>6
<1>14. OthersParked'
  BY <1>1, <1>6, <1>10 DEF OthersParked
<1>15. Transferring'
  <2> USE <1>1
  <2>9. Modules[call.slot] = 2 => addr'[call.slot] = IF b + 1 \in 6 .. Sent + 1 THEN call.reg ELSE X!REG_PARK
    BY ONLY <1>10, Zenon
  <2>1. (Modules[call.slot] = 2 => addr[call.slot] = IF Behind \in 6 .. Sent + 1 THEN call.reg ELSE X!REG_PARK)'
    BY ONLY <1>1, <2>9
  <2>2. (Behind <= Prepared => data = << >>)'
    BY <1>10
  <2>10. b + 1 \in Prepared + 1 .. Filled => Len(data') = b + 1 - Prepared - 1
    BY ONLY <1>10, Zenon
  <2>7. (Behind \in Prepared + 1 .. Filled => Len(data) = Behind - Prepared - 1)'
    BY ONLY <1>1, <1>3, <2>10
  <2>8. (Behind > Filled => Len(data) = call.bytes)'
    BY <1>10
  <2>3. (\A k \in DOMAIN data : data[k] = <<call.slot, call.reg>>)'
    BY <1>10
  <2>4. (slot = IF Behind \in 3 .. Parked + 2 THEN call.slot ELSE X!NoSlot)'
    BY <1>10
  <2>5. (line.SS = IF Behind \in 1 .. 3 \/ Behind \in Parked + 1 .. Parked + 3 THEN 0 ELSE 1)'
    BY <1>7
  <2>6. (line.DA = IF Behind \in Prepared + 1 .. Sent THEN 0 ELSE 1)'
    BY <1>8
  <2> QED BY <2>1, <2>2, <2>3, <2>4, <2>5, <2>6, <2>7, <2>8, Zenon DEF Transferring
<1> QED BY <1>14, <1>15

\* A transfer that fails where nothing did before.
LEMMA TransferFails ==
  ASSUME ScxiTypes, ScxiPlaced, call.fn = "transfer", X!Fail, Transferring,
         handle[call.slot] = HandleOf(call.slot), ~stuck'
  PROVE  StrayedTransfer'
<1> DEFINE b == Behind
<1>1. /\ b \in Nat /\ b < Len(Plan) /\ Head(todo) = Plan[b + 1] /\ Behind' = b + 1 + Plan[b + 1].skip
  BY Falling
<1>2. /\ call' = call /\ handle' = handle /\ line' = line /\ slot' = slot /\ addr' = addr /\ data' = data
      /\ stuck' = (stuck \/ (Head(todo).do = "DA" /\ Head(todo).v = 1))
  BY DEF X!Fail, X!chassis
<1>3. Prepared' = Prepared /\ Filled' = Filled /\ Sent' = Sent /\ Parked' = Parked
  BY <1>2, PlanStays
<1>4. /\ Len(Plan) = Parked + 4
      /\ \/ Plan[b + 1].skip = 0 /\ b # 4 /\ b # Sent
         \/ b = 4 /\ Plan[b + 1].skip = Prepared - 4
         \/ b = Sent /\ Plan[b + 1] = X!Transfer("DA", 1, Parked - Sent + 3)
  BY <1>1, TransferSkips
<1>5. b # Sent
  <2>1. b = Sent => Plan[b + 1] = X!Transfer("DA", 1, Parked - Sent + 3)
    BY <1>1, TransferIs
  <2>2. X!Transfer("DA", 1, Parked - Sent + 3).do = "DA" /\ X!Transfer("DA", 1, Parked - Sent + 3).v = 1
    BY DEF X!Transfer
  <2> QED BY <1>1, <1>2, <2>1, <2>2
<1>6. /\ Prepared \in {5, 6} /\ Filled \in Nat /\ Sent \in Nat /\ Parked \in Nat /\ call.bytes \in Nat
      /\ call.slot \in X!Slots /\ call.reg \in Int
      /\ Prepared = 5 => Parked = Sent + 1 /\ X!ClassOf(call.slot) = 1
      /\ Prepared = 6 => Parked = Sent + 2 /\ Sent = Filled /\ X!ClassOf(call.slot) # 1
      /\ Filled = Prepared + 1 + call.bytes
      /\ Sent = Filled \/ Sent = Filled + 1
  BY PartSizes
<1>7. (Behind' = b + 1 /\ b # 4) \/ (b = 4 /\ Behind' = Prepared + 1)
  <2>1. (Plan[b + 1].skip = 0 /\ b # 4) \/ (b = 4 /\ Plan[b + 1].skip = Prepared - 4)
    BY <1>4, <1>5
  <2>2. b + 1 + 0 = b + 1 /\ 4 + 1 + (Prepared - 4) = Prepared + 1
    BY <1>1, <1>6
  <2>3. Behind' = b + 1 + Plan[b + 1].skip
    BY <1>1
  <2>4. CASE Plan[b + 1].skip = 0 /\ b # 4
    <3>1. Behind' = b + 1 + 0
      BY <2>3, <2>4
    <3>2. b \in Nat
      BY <1>1
    <3> HIDE DEF b
    <3> QED BY <2>4, <3>1, <3>2
  <2>5. CASE b = 4 /\ Plan[b + 1].skip = Prepared - 4
    <3>1. Behind' = 4 + 1 + (Prepared - 4)
      BY <2>3, <2>5
    <3> QED BY <2>2, <2>5, <3>1
  <2> QED BY <2>1, <2>4, <2>5
<1>8. Modules[call.slot] = 2 <=> Prepared = 6
  <2>1. Modules[call.slot] \in {1, 2}
    BY <1>6, ScxiConstants
  <2> QED BY <1>6, <2>1 DEF HandleOf, X!ClassOf
<1>9. /\ line.SS = IF b \in 1 .. 3 \/ b \in Parked + 1 .. Parked + 3 THEN 0 ELSE 1
      /\ line.DA = IF b \in Prepared + 1 .. Sent THEN 0 ELSE 1
      /\ slot = IF b \in 3 .. Parked + 2 THEN call.slot ELSE X!NoSlot
      /\ Modules[call.slot] = 2 => addr[call.slot] = IF b \in 6 .. Sent + 1 THEN call.reg ELSE X!REG_PARK
      /\ b <= Prepared => data = << >>
      /\ \A k \in DOMAIN data : data[k] = <<call.slot, call.reg>>
  BY DEF Transferring
<1> HIDE DEF b
<1>10. Behind' \in Nat /\ b < Parked + 4
  BY <1>1, <1>4, <1>6, <1>7
<1>11. Behind' <= Prepared \/ Behind' > Sent => line.DA = 1
  BY <1>1, <1>5, <1>6, <1>7, <1>9
<1>12. Behind' \in 1 .. 2 => slot = X!NoSlot
  BY <1>1, <1>6, <1>7, <1>9
<1>13. Behind' \in 3 .. 5 => slot \in {X!NoSlot, call.slot}
  BY <1>9
<1>14. Behind' = 6 /\ Prepared = 6 => slot = call.slot /\ addr[call.slot] = X!REG_PARK
  BY <1>1, <1>6, <1>7, <1>8, <1>9, SMTT(30)
<1>15. Aimed' = Aimed
  BY <1>2 DEF Aimed
<1>16. Behind' = 6 /\ Prepared = 6 => Aimed
  BY <1>14 DEF Aimed
<1>17. Behind' \in Prepared + 1 .. Filled => Aimed \/ line.DA = 1
  <2>1. CASE b \in Prepared + 1 .. Sent
    <3>1. b \in 3 .. Parked + 2 /\ b \in 6 .. Sent + 1
      BY <1>1, <1>6, <2>1
    <3>2. slot = call.slot /\ (Modules[call.slot] = 2 => addr[call.slot] = call.reg)
      BY <1>9, <3>1
    <3> QED BY <3>2 DEF Aimed
  <2>2. CASE b \notin Prepared + 1 .. Sent
    BY <1>9, <2>2
  <2> QED BY <2>1, <2>2
<1>18. Behind' <= Prepared => data = << >>
  BY <1>1, <1>6, <1>7, <1>9
<1>19. \A k \in DOMAIN data : data[k][1] = call.slot /\ data[k][2] \in {call.reg, X!REG_PARK}
  BY <1>9
<1> QED BY <1>2, <1>3, <1>11, <1>12, <1>13, <1>15, <1>16, <1>17, <1>18, <1>19 DEF StrayedTransfer, Chosen

\* What is known of lines, slot and modules, apart from the rest.
LEMMA ChassisTypes ==
  ASSUME ScxiTypes
  PROVE  /\ line \in [SS : {0, 1}, DA : {0, 1}] /\ line.SS \in {0, 1} /\ line.DA \in {0, 1}
         /\ slot \in X!Slots \union {X!NoSlot} /\ addr \in [X!Slots -> Int] /\ data \in Seq(X!Slots \X Int)
         /\ X!NoSlot \notin X!Slots /\ X!NoSlot = 0
         /\ call.fn # "none" => call.slot \in X!Slots
         /\ \A s \in X!Slots : Modules[s] \in {1, 2}
  BY ScxiConstants DEF ScxiTypes, X!TypeOK, X!NoSlot

\* What a read brings, besides the word that is shifted.
LEMMA Reads ==
  ASSUME ScxiTypes, X!DoRead
  PROVE  /\ ShiftOf(0)
         /\ slot = X!NoSlot => id' = "empty"
         /\ slot # X!NoSlot /\ line.DA = 1 => id' = IF Modules[slot] = 2 THEN "class 2" ELSE "empty"
         /\ slot # X!NoSlot /\ line.DA # 1 /\ Modules[slot] = 1 => id' = "class 1"
         /\ id' = "class 1" => slot # X!NoSlot /\ line.DA # 1 /\ Modules[slot] = 1
<1>1. X!DoShift(0)
  BY Zenon DEF X!DoRead
<1>4. 0 \in Int
  OBVIOUS
<1>2. ShiftOf(0)
  BY <1>1, <1>4, Shifted DEF ShiftOf
<1>3. id' = (IF slot = X!NoSlot THEN "empty"
             ELSE IF line.DA = 1 THEN (IF Modules[slot] = 2 THEN "class 2" ELSE "empty")
             ELSE IF Modules[slot] = 1 THEN "class 1" ELSE "unknown")
  BY DEF X!DoRead
<1> QED BY <1>2, <1>3

\* The transfers of an opening,
LEMMA OpenMoves ==
  ASSUME ScxiTypes, ScxiPlaced, call.fn = "open", X!Do
  PROVE  /\ Behind \in 0 .. 7 /\ Behind' = Behind + 1 /\ call' = call /\ handle' = handle
         /\ Behind = 0 => LineTo("DA", 1)
         /\ Behind \in {1, 5} => LineTo("SS", 1)
         /\ Behind = 2 => LineTo("SS", 0)
         /\ Behind \in {3, 6} => NothingMoves
         /\ Behind = 4 => X!DoShift(call.slot)
         /\ Behind = 7 => X!DoRead
<1> DEFINE t == Head(todo)
<1>1. /\ Behind \in Nat /\ Behind < Len(Plan) /\ t = Plan[Behind + 1] /\ Behind' = Behind + 1
  BY Onward
<1>2. /\ Len(Plan) = 8
      /\ Plan[1] = X!Line("DA", 1) /\ Plan[2] = X!Line("SS", 1)
      /\ Plan[3] = X!Line("SS", 0) /\ Plan[4] = X!Transfer("clock", 0, 0) /\ Plan[5] = X!Shift(call.slot)
      /\ Plan[6] = X!Line("SS", 1) /\ Plan[7] = X!Transfer("clock", 0, 0) /\ Plan[8] = X!Read
  BY OthersAre, Zenon
<1>3. line \in [SS : {0, 1}, DA : {0, 1}] /\ call.slot \in Int
  <2>1. line \in [SS : {0, 1}, DA : {0, 1}] /\ call.slot \in X!Slots
    BY ChassisTypes
  <2>2. call.slot \in Int
    <3>1. X!Slots \subseteq Nat
      BY ScxiConstants
    <3>2. call.slot \in Nat
      BY <2>1, <3>1
    <3> QED BY ONLY <3>2
  <2> QED BY <2>1, <2>2
<1> HIDE DEF t
<1>4. /\ \A l \in {"SS", "DA"}, v \in {0, 1} : t = X!Line(l, v) => LineTo(l, v)
      /\ t = X!Transfer("clock", 0, 0) => NothingMoves
      /\ t = X!Shift(call.slot) => X!DoShift(call.slot)
      /\ t = X!Read => X!DoRead
      /\ handle' = handle /\ call' = call
  BY <1>3, Performs DEF LineTo, NothingMoves, X!Line, t
<1>5. Behind \in 0 .. 7
  BY <1>1, <1>2
<1> QED BY <1>1, <1>2, <1>4, <1>5

\* of the second question,
LEMMA AgainMoves ==
  ASSUME ScxiTypes, ScxiPlaced, call.fn = "again", X!Do
  PROVE  /\ Behind \in 0 .. 2 /\ Behind' = Behind + 1 /\ call' = call /\ handle' = handle
         /\ Behind = 0 => LineTo("DA", 0) /\ id' = id
         /\ Behind = 1 => X!DoRead
         /\ Behind = 2 => LineTo("DA", 1) /\ id' = id
<1> DEFINE t == Head(todo)
<1>1. /\ Behind \in Nat /\ Behind < Len(Plan) /\ t = Plan[Behind + 1] /\ Behind' = Behind + 1
  BY Onward
<1>2. Len(Plan) = 3 /\ Plan[1] = X!Line("DA", 0) /\ Plan[2] = X!Read /\ Plan[3] = X!Line("DA", 1)
  BY OthersAre, Zenon
<1>3. line \in [SS : {0, 1}, DA : {0, 1}]
  BY ChassisTypes
<1> HIDE DEF t
<1>4. /\ \A l \in {"SS", "DA"}, v \in {0, 1} : t = X!Line(l, v) => LineTo(l, v) /\ id' = id
      /\ t = X!Read => X!DoRead
      /\ handle' = handle /\ call' = call
  BY <1>3, Performs DEF LineTo, X!Line, t
<1>5. Behind \in 0 .. 2
  BY <1>1, <1>2
<1> QED BY <1>1, <1>2, <1>4, <1>5

\* and those that park what was opened.
LEMMA ParkMoves ==
  ASSUME ScxiTypes, ScxiPlaced, call.fn = "opened", X!Do
  PROVE  /\ Behind \in 0 .. 5 /\ Behind' = Behind + 1 /\ call' = call /\ handle' = handle /\ id' = id
         /\ Behind = 0 => LineTo("DA", 1)
         /\ Behind = 1 => X!DoShift(X!REG_PARK)
         /\ Behind = 2 => LineTo("SS", 0)
         /\ Behind = 3 => NothingMoves
         /\ Behind = 4 => X!DoShift(0)
         /\ Behind = 5 => LineTo("SS", 1)
<1> DEFINE t == Head(todo)
<1>1. /\ Behind \in Nat /\ Behind < Len(Plan) /\ t = Plan[Behind + 1] /\ Behind' = Behind + 1
  BY Onward
<1>2. /\ Len(Plan) = 6
      /\ Plan[1] = X!Transfer("DA", 1, 5) /\ Plan[2] = X!Shift(X!REG_PARK)
      /\ Plan[3] = X!Line("SS", 0) /\ Plan[4] = X!Transfer("clock", 0, 0)
      /\ Plan[5] = X!Shift(0) /\ Plan[6] = X!Line("SS", 1)
  BY OthersAre, Zenon
<1>3. line \in [SS : {0, 1}, DA : {0, 1}] /\ X!REG_PARK \in Int
  BY ChassisTypes DEF X!REG_PARK
<1> HIDE DEF t
<1>4. /\ \A l \in {"SS", "DA"}, v \in {0, 1} : t = X!Line(l, v) => LineTo(l, v) /\ id' = id
      /\ t = X!Transfer("DA", 1, 5) => LineTo("DA", 1) /\ id' = id
      /\ t = X!Transfer("clock", 0, 0) => NothingMoves /\ id' = id
      /\ t = X!Shift(X!REG_PARK) => X!DoShift(X!REG_PARK) /\ id' = id
      /\ t = X!Shift(0) => X!DoShift(0) /\ id' = id
      /\ handle' = handle /\ call' = call
  BY <1>3, Performs DEF LineTo, NothingMoves, X!Line, t
<1>5. Behind = 0 \/ Behind = 1 \/ Behind = 2 \/ Behind = 3 \/ Behind = 4 \/ Behind = 5
  BY <1>1, <1>2
<1>6. id' = id
  BY <1>1, <1>2, <1>4, <1>5
<1> QED BY <1>1, <1>2, <1>4, <1>5, <1>6

\* A transfer of an opening keeps what holds after a failure,
LEMMA OpenStrays ==
  ASSUME ScxiTypes, ScxiPlaced, call.fn = "open", X!Do, StrayedOpen
  PROVE  StrayedOpen'
<1> DEFINE b == Behind
<1>1. /\ b \in 0 .. 7 /\ Behind' = b + 1 /\ call' = call
      /\ b = 0 => LineTo("DA", 1)
      /\ b \in {1, 5} => LineTo("SS", 1)
      /\ b = 2 => LineTo("SS", 0)
      /\ b \in {3, 6} => NothingMoves
      /\ b = 4 => X!DoShift(call.slot)
      /\ b = 7 => X!DoRead
  BY OpenMoves
<1>2. /\ line \in [SS : {0, 1}, DA : {0, 1}] /\ line.SS \in {0, 1} /\ line.DA \in {0, 1}
      /\ X!NoSlot \notin X!Slots /\ X!NoSlot = 0 /\ call.slot \in X!Slots /\ call.slot \in Int
  <2>1. /\ line \in [SS : {0, 1}, DA : {0, 1}] /\ line.SS \in {0, 1} /\ line.DA \in {0, 1}
        /\ X!NoSlot \notin X!Slots /\ X!NoSlot = 0 /\ call.slot \in X!Slots
    BY ChassisTypes
  <2>2. call.slot \in Int
    <3>1. X!Slots \subseteq Nat
      BY ScxiConstants
    <3>2. call.slot \in Nat
      BY <2>1, <3>1
    <3> QED BY ONLY <3>2
  <2> QED BY <2>1, <2>2
<1>3. \A v \in Int : X!DoShift(v) => ShiftOf(v)
  BY Shifted DEF ShiftOf
<1>4. /\ \A v \in {0, 1} : LineTo("SS", v) => line'.SS = v /\ line'.DA = line.DA /\ slot' = slot
      /\ \A v \in {0, 1} : LineTo("DA", v) => line'.SS = line.SS /\ line'.DA = v /\ slot' = slot
  BY <1>2, LineSet
<1>5. /\ b >= 1 => line.DA = 1
      /\ b \in 3 .. 4 => slot = X!NoSlot \/ line.SS = 0
      /\ b >= 5 => slot \in {X!NoSlot, call.slot}
  BY DEF StrayedOpen, Chosen
<1> HIDE DEF b
<1>11. b = 7 => ShiftOf(0) /\ (id' = "class 1" => line.DA # 1)
  BY <1>1, Reads
<1>6. line'.DA = 1
  <2>1. b \in {1, 2, 5} => line'.DA = line.DA
    BY <1>1, <1>4
  <2>2. b = 0 => line'.DA = 1
    BY <1>1, <1>4
  <2>3. b \in {3, 6} => line' = line
    BY <1>1 DEF NothingMoves
  <2>4. b = 4 => line' = line
    BY <1>1, <1>2, <1>3 DEF ShiftOf
  <2>5. b = 7 => line' = line
    BY <1>11 DEF ShiftOf
  <2> QED BY <1>1, <1>5, <2>1, <2>2, <2>3, <2>4, <2>5
<1>7. b + 1 \in 3 .. 4 => slot' = X!NoSlot \/ line'.SS = 0
  BY <1>1, <1>4, <1>5 DEF NothingMoves
<1>8. b + 1 >= 5 => slot' \in {X!NoSlot, call.slot}
  <2>1. CASE b = 4
    <3>1. ShiftOf(call.slot)
      BY <1>1, <1>2, <1>3, <2>1
    <3> QED BY <1>2, <1>5, <2>1, <3>1 DEF ShiftOf
  <2>2. CASE b = 5 \/ b = 6
    BY <1>1, <1>4, <1>5, <2>2 DEF NothingMoves
  <2>3. CASE b = 7
    <3>1. ShiftOf(0)
      BY <1>11, <2>3
    <3> QED BY <1>2, <1>5, <2>3, <3>1 DEF ShiftOf
  <2> QED BY <1>1, <2>1, <2>2, <2>3
<1>9. b = 7 => id' # "class 1"
  <2>1. b = 7 => line.DA = 1
    BY <1>5
  <2> QED BY <1>11, <2>1
<1>10. b + 1 = 8 => id' # "class 1"
  <2>1. b + 1 = 8 => b = 7
    BY <1>1
  <2> QED BY <1>9, <2>1
<1> QED BY <1>1, <1>6, <1>7, <1>8, <1>10 DEF StrayedOpen, Chosen

\* and so does one of its second question.
LEMMA AgainStrays ==
  ASSUME ScxiTypes, ScxiPlaced, call.fn = "again", X!Do, StrayedAgain
  PROVE  StrayedAgain'
<1> DEFINE b == Behind
<1>1. /\ b \in 0 .. 2 /\ Behind' = b + 1 /\ call' = call
      /\ b = 0 => LineTo("DA", 0) /\ id' = id
      /\ b = 1 => X!DoRead
      /\ b = 2 => LineTo("DA", 1) /\ id' = id
  BY AgainMoves
<1>2. /\ line \in [SS : {0, 1}, DA : {0, 1}] /\ slot \in X!Slots \union {X!NoSlot}
  BY ChassisTypes
<1>4. \A v \in {0, 1} : LineTo("DA", v) => line'.DA = v /\ slot' = slot
  BY <1>2, LineSet
<1>5. /\ b < 2 => slot \in {X!NoSlot, call.slot}
      /\ b >= 2 => IdFits
  BY DEF StrayedAgain, Chosen
<1> HIDE DEF b
<1>6. b = 2 => line'.DA = 1
  BY <1>1, <1>4
<1>7. b = 0 => slot' \in {X!NoSlot, call.slot}
  BY <1>1, <1>4, <1>5
<1>10. b = 1 => slot \in {X!NoSlot, call.slot}
  <2>1. b = 1 => b < 2
    OBVIOUS
  <2>2. b < 2 => slot \in {X!NoSlot, call.slot}
    BY <1>5
  <2> QED BY ONLY <2>1, <2>2
<1>8. b = 1 => IdFits'
  <2> SUFFICES ASSUME b = 1, id' = "class 1" PROVE Modules[call.slot] = 1
    BY <1>1 DEF IdFits
  <2>1. slot # X!NoSlot /\ Modules[slot] = 1
    BY <1>1, Reads
  <2>2. slot \in {X!NoSlot, call.slot}
    BY <1>10
  <2>3. slot = call.slot
    BY <2>1, <2>2
  <2> QED BY <2>1, <2>3
<1>9. b = 2 => IdFits'
  <2>1. b = 2 => id' = id /\ call' = call /\ IdFits
    BY <1>1, <1>5
  <2> QED BY <2>1 DEF IdFits
<1> QED BY <1>1, <1>6, <1>7, <1>8, <1>9 DEF StrayedAgain, Chosen

\* Where nothing failed an opening goes on as it should,
LEMMA OpenGoesOn ==
  ASSUME ScxiTypes, ScxiPlaced, call.fn = "open", X!Do, Opening, OthersParked
  PROVE  Opening' /\ OthersParked'
<1> DEFINE b == Behind
<1>1. /\ b \in 0 .. 7 /\ Behind' = b + 1 /\ call' = call /\ handle' = handle
      /\ b = 0 => LineTo("DA", 1)
      /\ b \in {1, 5} => LineTo("SS", 1)
      /\ b = 2 => LineTo("SS", 0)
      /\ b \in {3, 6} => NothingMoves
      /\ b = 4 => X!DoShift(call.slot)
      /\ b = 7 => X!DoRead
  BY OpenMoves
<1>2. /\ line \in [SS : {0, 1}, DA : {0, 1}] /\ addr \in [X!Slots -> Int]
      /\ X!NoSlot \notin X!Slots /\ call.slot \in X!Slots
  BY ChassisTypes
<1>3. call.slot \in Int
  <2>1. call.slot \in Nat
    BY <1>2, ScxiConstants
  <2> QED BY ONLY <2>1
<1>4. /\ \A v \in {0, 1} : LineTo("SS", v) => line'.SS = v /\ line'.DA = line.DA /\ slot' = slot /\ addr' = addr
      /\ \A v \in {0, 1} : LineTo("DA", v) => line'.SS = line.SS /\ line'.DA = v /\ slot' = slot /\ addr' = addr
  BY <1>2, LineSet
<1>5. /\ b >= 1 => line.DA = 1
      /\ b >= 2 => line.SS = IF b \in 3 .. 5 THEN 0 ELSE 1
      /\ slot = IF b <= 4 THEN X!NoSlot ELSE call.slot
      /\ \A s \in X!Slots : s # call.slot /\ handle[s] # "closed" /\ Modules[s] = 2 => addr[s] = X!REG_PARK
  BY DEF Opening, OthersParked
<1>6. b = 4 => ShiftOf(call.slot)
  BY <1>1, <1>3, Shifted DEF ShiftOf
<1>7. /\ b = 7 => ShiftOf(0)
      /\ b = 7 /\ slot # X!NoSlot /\ line.DA = 1 => id' = IF Modules[slot] = 2 THEN "class 2" ELSE "empty"
  BY <1>1, Reads
<1> HIDE DEF b
<1> DEFINE Done == /\ line'.DA = 1
                   /\ b + 1 >= 2 => line'.SS = IF b + 1 \in 3 .. 5 THEN 0 ELSE 1
                   /\ slot' = IF b + 1 <= 4 THEN X!NoSlot ELSE call.slot
                   /\ \A s \in X!Slots : s # call.slot => addr'[s] = addr[s]
<1>8. Done
  <2>1. CASE b = 0
    BY <1>1, <1>4, <1>5, <2>1
  <2>2. CASE b = 1
    BY <1>1, <1>4, <1>5, <2>2
  <2>3. CASE b = 2
    BY <1>1, <1>4, <1>5, <2>3
  <2>4. CASE b = 3
    BY <1>1, <1>5, <2>4 DEF NothingMoves
  <2>5. CASE b = 4
    <3>1. line' = line /\ slot' = call.slot /\ addr' = addr
      BY <1>2, <1>5, <1>6, <2>5 DEF ShiftOf
    <3> QED BY <1>5, <2>5, <3>1
  <2>6. CASE b = 5
    BY <1>1, <1>4, <1>5, <2>6
  <2>7. CASE b = 6
    BY <1>1, <1>5, <2>7 DEF NothingMoves
  <2>8. CASE b = 7
    <3>1. line.DA = 1 /\ line.SS = 1 /\ slot = call.slot /\ slot # X!NoSlot
      BY <1>2, <1>5, <2>8
    <3>2. line' = line /\ slot' = slot /\ addr' = IF Modules[slot] = 2 THEN [addr EXCEPT ![slot] = 0] ELSE addr
      BY <1>7, <2>8, <3>1 DEF ShiftOf
    <3>4. \A s \in X!Slots : s # call.slot => addr'[s] = addr[s]
      BY <1>2, <3>1, <3>2
    <3> QED BY <2>8, <3>1, <3>2, <3>4
  <2> QED BY <1>1, <2>1, <2>2, <2>3, <2>4, <2>5, <2>6, <2>7, <2>8
<1>9. OthersParked'
  BY <1>1, <1>5, <1>8 DEF OthersParked
<1>11. b + 1 = 8 => id' = IF Modules[call.slot] = 2 THEN "class 2" ELSE "empty"
  <2>1. b + 1 = 8 => b = 7
    BY <1>1
  <2>2. b = 7 => line.DA = 1 /\ slot = call.slot /\ slot # X!NoSlot
    BY <1>2, <1>5
  <2> QED BY <1>7, <2>1, <2>2
<1>10. Opening'
  <2>1. (line.SS = IF Behind \in 3 .. 5 THEN 0 ELSE 1)' \/ b + 1 < 2
    BY <1>1, <1>8
  <2>2. (slot = IF Behind <= 4 THEN X!NoSlot ELSE call.slot)'
    BY <1>1, <1>8
  <2>3. (Behind = 8 => id = IF Modules[call.slot] = 2 THEN "class 2" ELSE "empty")'
    BY <1>1, <1>11
  <2> QED BY <1>1, <1>8, <2>1, <2>2, <2>3 DEF Opening
<1> QED BY <1>9, <1>10

\* so does its second question,
LEMMA AgainGoesOn ==
  ASSUME ScxiTypes, ScxiPlaced, call.fn = "again", X!Do, Asking, OthersParked
  PROVE  Asking' /\ OthersParked'
<1> DEFINE b == Behind
<1>1. /\ b \in 0 .. 2 /\ Behind' = b + 1 /\ call' = call /\ handle' = handle
      /\ b = 0 => LineTo("DA", 0) /\ id' = id
      /\ b = 1 => X!DoRead
      /\ b = 2 => LineTo("DA", 1) /\ id' = id
  BY AgainMoves
<1>2. /\ line \in [SS : {0, 1}, DA : {0, 1}] /\ X!NoSlot \notin X!Slots /\ call.slot \in X!Slots
  BY ChassisTypes
<1>4. \A v \in {0, 1} : LineTo("DA", v) => line'.SS = line.SS /\ line'.DA = v /\ slot' = slot /\ addr' = addr
  BY <1>2, LineSet
<1>5. /\ Modules[call.slot] = 1 /\ slot = call.slot
      /\ line.SS = 1 /\ line.DA = IF b \in 1 .. 2 THEN 0 ELSE 1
      /\ b >= 2 => id = "class 1"
  BY DEF Asking
<1>6. b = 1 => ShiftOf(0) /\ (slot # X!NoSlot /\ line.DA # 1 /\ Modules[slot] = 1 => id' = "class 1")
  BY <1>1, Reads
<1> HIDE DEF b
<1>7. slot' = call.slot /\ line'.SS = 1 /\ line'.DA = (IF b + 1 \in 1 .. 2 THEN 0 ELSE 1) /\ addr' = addr
  <2>1. CASE b = 0
    BY <1>1, <1>4, <1>5, <2>1
  <2>2. CASE b = 1
    <3>1. line.DA = 0 /\ line.SS = 1 /\ slot = call.slot /\ slot # X!NoSlot
      BY <1>2, <1>5, <2>2
    <3>2. line' = line /\ slot' = slot /\ addr' = addr
      BY <1>6, <2>2, <3>1 DEF ShiftOf
    <3> QED BY <2>2, <3>1, <3>2
  <2>3. CASE b = 2
    <3>1. slot' = slot /\ addr' = addr /\ line'.SS = line.SS /\ line'.DA = 1
      BY <1>1, <1>4, <2>3
    <3>2. slot = call.slot /\ line.SS = 1
      BY <1>5
    <3> QED BY <2>3, <3>1, <3>2
  <2> QED BY <1>1, <2>1, <2>2, <2>3
<1>10. b + 1 >= 2 => id' = "class 1"
  <2>1. b + 1 >= 2 => b = 1 \/ b = 2
    BY <1>1
  <2>2. b = 1 => line.DA # 1 /\ Modules[slot] = 1 /\ slot # X!NoSlot
    BY <1>2, <1>5
  <2>3. b = 1 => id' = "class 1"
    BY <1>6, <2>2, Zenon
  <2>6. b = 2 => b >= 2
    OBVIOUS
  <2>7. b >= 2 => id = "class 1"
    BY <1>5, Zenon
  <2>4. b = 2 => id = "class 1"
    BY ONLY <2>6, <2>7, Zenon
  <2>5. b = 2 => id' = id
    BY <1>1
  <2> QED BY <2>1, <2>3, <2>4, <2>5, Zenon
<1>8. OthersParked'
  BY <1>1, <1>7 DEF OthersParked
<1>9. Asking'
  <2>1. (line.DA = IF Behind \in 1 .. 2 THEN 0 ELSE 1)'
    BY <1>1, <1>7
  <2>2. (Behind >= 2 => id = "class 1")'
    BY <1>1, <1>10
  <2>3. Modules[call.slot] = 1
    BY <1>5
  <2>4. slot' = call.slot /\ line'.SS = 1
    BY <1>7
  <2> QED BY <1>1, <2>1, <2>2, <2>3, <2>4, Zenon DEF Asking
<1> QED BY <1>8, <1>9

\* and the parking.
LEMMA ParkGoesOn ==
  ASSUME ScxiTypes, ScxiPlaced, call.fn = "opened", X!Do, Parking, OthersParked
  PROVE  Parking' /\ OthersParked'
<1> DEFINE b == Behind
<1>1. /\ b \in 0 .. 5 /\ Behind' = b + 1 /\ call' = call /\ handle' = handle /\ id' = id
      /\ b = 0 => LineTo("DA", 1)
      /\ b = 1 => X!DoShift(X!REG_PARK)
      /\ b = 2 => LineTo("SS", 0)
      /\ b = 3 => NothingMoves
      /\ b = 4 => X!DoShift(0)
      /\ b = 5 => LineTo("SS", 1)
  BY ParkMoves
<1>2. /\ line \in [SS : {0, 1}, DA : {0, 1}] /\ addr \in [X!Slots -> Int]
      /\ X!NoSlot \notin X!Slots /\ X!NoSlot = 0 /\ call.slot \in X!Slots
  BY ChassisTypes
<1>4. /\ \A v \in {0, 1} : LineTo("SS", v) => line'.SS = v /\ line'.DA = line.DA /\ slot' = slot /\ addr' = addr
      /\ \A v \in {0, 1} : LineTo("DA", v) => line'.SS = line.SS /\ line'.DA = v /\ slot' = slot /\ addr' = addr
  BY <1>2, LineSet
<1>5. /\ id = HandleOf(call.slot)
      /\ line.DA = 1 /\ line.SS = IF b \in 3 .. 5 THEN 0 ELSE 1
      /\ slot = IF b <= 4 THEN call.slot ELSE X!NoSlot
      /\ b >= 2 /\ Modules[call.slot] = 2 => addr[call.slot] = X!REG_PARK
      /\ \A s \in X!Slots : s # call.slot /\ handle[s] # "closed" /\ Modules[s] = 2 => addr[s] = X!REG_PARK
  BY DEF Parking, OthersParked
<1>6. (b = 1 => ShiftOf(X!REG_PARK)) /\ (b = 4 => ShiftOf(0))
  <2>1. X!REG_PARK \in Int /\ 0 \in Int
    BY DEF X!REG_PARK
  <2> QED BY <1>1, <2>1, Shifted DEF ShiftOf
<1> HIDE DEF b
<1> DEFINE Done == /\ line'.DA = 1 /\ line'.SS = (IF b + 1 \in 3 .. 5 THEN 0 ELSE 1)
                   /\ slot' = (IF b + 1 <= 4 THEN call.slot ELSE X!NoSlot)
                   /\ \A s \in X!Slots : s # call.slot => addr'[s] = addr[s]
                   /\ b + 1 >= 2 /\ Modules[call.slot] = 2 => addr'[call.slot] = X!REG_PARK
<1>7. Done
  <2>1. CASE b = 0
    BY <1>1, <1>4, <1>5, <2>1
  <2>2. CASE b = 1
    <3>1. line.DA = 1 /\ line.SS = 1 /\ slot = call.slot /\ slot # X!NoSlot
      BY <1>2, <1>5, <2>2
    <3>2. line' = line /\ slot' = slot /\ addr' = IF Modules[slot] = 2 THEN [addr EXCEPT ![slot] = X!REG_PARK] ELSE addr
      BY <1>6, <2>2, <3>1 DEF ShiftOf
    <3>3. \A s \in X!Slots : s # call.slot => addr'[s] = addr[s]
      BY <1>2, <3>1, <3>2
    <3>4. Modules[call.slot] = 2 => addr'[call.slot] = X!REG_PARK
      BY <1>2, <3>1, <3>2
    <3> QED BY <2>2, <3>1, <3>2, <3>3, <3>4
  <2>3. CASE b = 2
    BY <1>1, <1>4, <1>5, <2>3
  <2>4. CASE b = 3
    BY <1>1, <1>5, <2>4 DEF NothingMoves
  <2>5. CASE b = 4
    <3>1. line' = line /\ slot' = X!NoSlot /\ addr' = addr
      BY <1>2, <1>5, <1>6, <2>5 DEF ShiftOf
    <3> QED BY <1>5, <2>5, <3>1
  <2>6. CASE b = 5
    BY <1>1, <1>4, <1>5, <2>6
  <2> QED BY <1>1, <2>1, <2>2, <2>3, <2>4, <2>5, <2>6
<1>8. OthersParked'
  BY <1>1, <1>5, <1>7 DEF OthersParked
<1>9. Parking'
  <2>1. (line.SS = IF Behind \in 3 .. 5 THEN 0 ELSE 1)'
    BY <1>1, <1>7
  <2>2. (slot = IF Behind <= 4 THEN call.slot ELSE X!NoSlot)'
    BY <1>1, <1>7
  <2>3. id' = HandleOf(call.slot)'
    BY <1>1, <1>5 DEF HandleOf
  <2>4. (Behind >= 2 /\ Modules[call.slot] = 2 => addr[call.slot] = X!REG_PARK)'
    BY <1>1, <1>7
  <2>5. line'.DA = 1
    BY <1>7
  <2> QED BY <1>1, <2>1, <2>2, <2>3, <2>4, <2>5, Zenon DEF Parking
<1> QED BY <1>8, <1>9

\* What a first failure leaves, in an opening,
LEMMA OpenFails ==
  ASSUME ScxiTypes, ScxiPlaced, call.fn = "open", X!Fail, Opening, ~stuck'
  PROVE  StrayedOpen'
<1> DEFINE b == Behind
<1>1. /\ b \in Nat /\ b < Len(Plan) /\ Head(todo) = Plan[b + 1] /\ Behind' = b + 1 + Plan[b + 1].skip
  BY Falling
<1>2. /\ call' = call /\ line' = line /\ slot' = slot
      /\ stuck' = (stuck \/ (Head(todo).do = "DA" /\ Head(todo).v = 1))
      /\ Head(todo).do = "read" => id' \in {"unknown", "empty"}
  BY DEF X!Fail, X!chassis
<1>3. /\ Len(Plan) = 8
      /\ Plan[1] = X!Line("DA", 1) /\ Plan[2] = X!Line("SS", 1)
      /\ Plan[3] = X!Line("SS", 0) /\ Plan[4] = X!Transfer("clock", 0, 0) /\ Plan[5] = X!Shift(call.slot)
      /\ Plan[6] = X!Line("SS", 1) /\ Plan[7] = X!Transfer("clock", 0, 0) /\ Plan[8] = X!Read
  BY OthersAre, Zenon
<1>4. /\ \A l, v : X!Line(l, v).skip = 0 /\ X!Line(l, v).do = l /\ X!Line(l, v).v = v
      /\ \A v : X!Shift(v).skip = 0
      /\ X!Transfer("clock", 0, 0).skip = 0
      /\ X!Read.skip = 0 /\ X!Read.do = "read"
  BY DEF X!Line, X!Shift, X!Read, X!Transfer
<1>5. /\ b >= 1 => line.DA = 1
      /\ slot = IF b <= 4 THEN X!NoSlot ELSE call.slot
  BY DEF Opening
<1> HIDE DEF b
<1>6. b = 0 \/ b = 1 \/ b = 2 \/ b = 3 \/ b = 4 \/ b = 5 \/ b = 6 \/ b = 7
  BY <1>1, <1>3
<1>7. b # 0
  <2>1. b = 0 => Head(todo) = X!Line("DA", 1)
    BY <1>1, <1>3
  <2>2. b = 0 => Head(todo).do = "DA" /\ Head(todo).v = 1
    BY <1>4, <2>1
  <2> QED BY <1>2, <2>2, Zenon
<1>8. Plan[b + 1].skip = 0
  BY <1>3, <1>4, <1>6
<1>9. Behind' = b + 1
  BY <1>1, <1>8
<1>10. b = 7 => id' # "class 1"
  <2>1. b = 7 => Head(todo) = X!Read
    BY <1>1, <1>3
  <2>2. b = 7 => Head(todo).do = "read"
    BY <1>4, <2>1
  <2>3. b = 7 => id' \in {"unknown", "empty"}
    BY <1>2, <2>2
  <2> QED BY ONLY <2>3
<1>11. line'.DA = 1
  BY <1>1, <1>2, <1>5, <1>7
<1>12. b + 1 \in 3 .. 4 => slot' = X!NoSlot
  BY <1>2, <1>5, <1>6
<1>13. slot' \in {X!NoSlot, call.slot}
  BY <1>2, <1>5
<1>14. b + 1 = 8 => id' # "class 1"
  <2>1. b + 1 = 8 => b = 7
    BY <1>6
  <2> QED BY <1>10, <2>1
<1> QED BY <1>2, <1>9, <1>11, <1>12, <1>13, <1>14 DEF StrayedOpen, Chosen

\* in its second question.
LEMMA AgainFails ==
  ASSUME ScxiTypes, ScxiPlaced, call.fn = "again", X!Fail, Asking, ~stuck'
  PROVE  StrayedAgain'
<1> DEFINE b == Behind
<1>1. /\ b \in Nat /\ b < Len(Plan) /\ Head(todo) = Plan[b + 1] /\ Behind' = b + 1 + Plan[b + 1].skip
  BY Falling
<1>2. /\ call' = call /\ line' = line /\ slot' = slot
      /\ stuck' = (stuck \/ (Head(todo).do = "DA" /\ Head(todo).v = 1))
      /\ Head(todo).do = "read" => id' \in {"unknown", "empty"}
  BY DEF X!Fail, X!chassis
<1>3. Len(Plan) = 3 /\ Plan[1] = X!Line("DA", 0) /\ Plan[2] = X!Read /\ Plan[3] = X!Line("DA", 1)
  BY OthersAre, Zenon
<1>4. /\ \A l, v : X!Line(l, v).skip = 0 /\ X!Line(l, v).do = l /\ X!Line(l, v).v = v
      /\ X!Read.skip = 0 /\ X!Read.do = "read"
  BY DEF X!Line, X!Read, X!Transfer
<1>5. slot = call.slot
  BY DEF Asking
<1> HIDE DEF b
<1>6. b = 0 \/ b = 1 \/ b = 2
  BY <1>1, <1>3
<1>7. b # 2
  <2>1. b = 2 => Head(todo) = X!Line("DA", 1)
    BY <1>1, <1>3
  <2>2. b = 2 => Head(todo).do = "DA" /\ Head(todo).v = 1
    BY <1>4, <2>1
  <2> QED BY <1>2, <2>2, Zenon
<1>8. Plan[b + 1].skip = 0
  BY <1>3, <1>4, <1>6
<1>9. Behind' = b + 1
  BY <1>1, <1>8
<1>10. b = 1 => id' # "class 1"
  <2>1. b = 1 => Head(todo) = X!Read
    BY <1>1, <1>3
  <2>2. b = 1 => Head(todo).do = "read"
    BY <1>4, <2>1
  <2>3. b = 1 => id' \in {"unknown", "empty"}
    BY <1>2, <2>2
  <2> QED BY ONLY <2>3
<1>11. b + 1 >= 2 => IdFits'
  <2>1. b + 1 >= 2 => b = 1
    BY <1>6, <1>7
  <2> QED BY <1>10, <2>1 DEF IdFits
<1>12. b + 1 \notin {0, 3}
  BY <1>6, <1>7
<1> QED BY <1>2, <1>5, <1>9, <1>11, <1>12 DEF StrayedAgain, Chosen

\* Each transfer keeps what holds after a failure, and what holds without one.
LEMMA ScxiDoes ==
  ASSUME ScxiTypes, ScxiPlaced, X!Do
  PROVE  (Strayed => Strayed') /\ (Untroubled => Untroubled')
<1>1. call.fn \in {"open", "again", "opened", "transfer"}
  <2>1. call.fn # "none"
    <3>1. Behind \in Nat /\ Behind < Len(Plan)
      BY Onward
    <3>2. call.fn = "none" => Len(Plan) = 0
      BY OthersAre
    <3> QED BY <3>1, <3>2
  <2> QED BY <2>1 DEF ScxiTypes, CallFields
<1>2. call' = call /\ handle' = handle
  BY DEF X!Do
<1>3. call.fn = "transfer" => handle[call.slot] # "closed" /\ call.slot \in X!Slots
  BY DEF ScxiPlaced, ScxiTypes
<1>4. ASSUME Strayed PROVE Strayed'
  <2>1. \A s \in X!Slots : handle[s] = "class 1" => Modules[s] = 1
    BY <1>4 DEF Strayed
  <2>2. call.fn = "open" => StrayedOpen'
    BY <1>4, OpenStrays DEF Strayed
  <2>3. call.fn = "again" => StrayedAgain'
    BY <1>4, AgainStrays DEF Strayed
  <2>4. call.fn = "transfer" => StrayedTransfer'
    <3>1. call.fn = "transfer" => (X!ClassOf(call.slot) = 1 => Modules[call.slot] = 1)
      <4>1. X!ClassOf(call.slot) = 1 => handle[call.slot] = "class 1"
        <5>1. handle[call.slot] # "class 1" => X!ClassOf(call.slot) = 2
          BY Zenon DEF X!ClassOf
        <5>2. 1 # 2
          OBVIOUS
        <5> QED BY ONLY <5>1, <5>2, Zenon
      <4> QED BY <1>3, <2>1, <4>1
    <3> QED BY <1>4, <3>1, TransferStrays DEF Strayed
  <2>5. call.fn = "opened" => line'.DA = 1 /\ IdFits'
    <3> SUFFICES ASSUME call.fn = "opened" PROVE line'.DA = 1 /\ IdFits'
      OBVIOUS
    <3>1. /\ Behind \in 0 .. 5 /\ id' = id
          /\ Behind = 0 => LineTo("DA", 1)
          /\ Behind = 1 => X!DoShift(X!REG_PARK)
          /\ Behind = 2 => LineTo("SS", 0)
          /\ Behind = 3 => NothingMoves
          /\ Behind = 4 => X!DoShift(0)
          /\ Behind = 5 => LineTo("SS", 1)
      BY ParkMoves
    <3>2. /\ \A v \in {0, 1} : LineTo("SS", v) => line'.DA = line.DA
          /\ \A v \in {0, 1} : LineTo("DA", v) => line'.DA = v
      BY ChassisTypes, LineSet
    <3>3. \A v \in Int : X!DoShift(v) => line' = line
      BY Shifted
    <3>4. line.DA = 1 /\ IdFits
      BY <1>4 DEF Strayed
    <3>5. Behind \in {1, 4} => line' = line
      BY <3>1, <3>3 DEF X!REG_PARK
    <3>6. Behind = 3 => line' = line
      BY <3>1 DEF NothingMoves
    <3>7. Behind = 0 \/ Behind \in {2, 5} => line'.DA = 1
      BY <3>1, <3>2, <3>4
    <3>8. line'.DA = 1
      BY <3>1, <3>4, <3>5, <3>6, <3>7
    <3>9. IdFits'
      BY <1>2, <3>1, <3>4 DEF IdFits
    <3> QED BY <3>8, <3>9
  <2> QED BY <1>1, <1>2, <2>1, <2>2, <2>3, <2>4, <2>5 DEF Strayed
<1>5. ASSUME Untroubled PROVE Untroubled'
  <2>1. /\ \A s \in X!Slots : handle[s] \in {"closed", HandleOf(s)}
        /\ Free /\ OthersParked /\ Opening /\ Asking /\ Parking /\ Transferring
    BY <1>5 DEF Untroubled
  <2>2. \A s \in X!Slots : handle'[s] \in {"closed", HandleOf(s)'}
    BY <1>2, <2>1 DEF HandleOf
  <2>3. Free' /\ (call.fn # "open" => Opening') /\ (call.fn # "again" => Asking')
          /\ (call.fn # "opened" => Parking') /\ (call.fn # "transfer" => Transferring')
    BY <1>1, <1>2 DEF Free, Opening, Asking, Parking, Transferring
  <2>4. call.fn = "open" => Opening' /\ OthersParked'
    BY <2>1, OpenGoesOn
  <2>5. call.fn = "again" => Asking' /\ OthersParked'
    BY <2>1, AgainGoesOn
  <2>6. call.fn = "opened" => Parking' /\ OthersParked'
    BY <2>1, ParkGoesOn
  <2>7. call.fn = "transfer" => Transferring' /\ OthersParked'
    <3>1. call.fn = "transfer" => handle[call.slot] = HandleOf(call.slot)
      BY <1>3, <2>1
    <3> QED BY <2>1, <3>1, TransferGoesOn
  <2> QED BY <1>1, <2>2, <2>3, <2>4, <2>5, <2>6, <2>7, Zenon DEF Untroubled
<1> QED BY <1>4, <1>5

\* A first failure leaves what holds after one, unless D/A was to be raised.
LEMMA ScxiFails ==
  ASSUME ScxiTypes, ScxiPlaced, X!Fail, Untroubled, ~stuck'
  PROVE  Strayed'
<1>1. call.fn \in {"open", "again", "opened", "transfer"}
  <2>1. call.fn # "none"
    <3>1. Behind \in Nat /\ Behind < Len(Plan)
      BY Falling
    <3>2. call.fn = "none" => Len(Plan) = 0
      BY OthersAre
    <3> QED BY <3>1, <3>2
  <2> QED BY <2>1 DEF ScxiTypes, CallFields
<1>2. call' = call /\ handle' = handle /\ line' = line
  BY DEF X!Fail, X!chassis
<1>3. call.fn = "transfer" => handle[call.slot] # "closed" /\ call.slot \in X!Slots
  BY DEF ScxiPlaced, ScxiTypes
<1>4. /\ \A s \in X!Slots : handle[s] \in {"closed", HandleOf(s)}
      /\ Opening /\ Asking /\ Parking /\ Transferring
  BY DEF Untroubled
<1>5. \A s \in X!Slots : handle'[s] = "class 1" => Modules[s] = 1
  BY <1>2, <1>4 DEF HandleOf
<1>6. call.fn = "open" => StrayedOpen'
  BY <1>4, OpenFails
<1>7. call.fn = "again" => StrayedAgain'
  BY <1>4, AgainFails
<1>8. call.fn = "transfer" => StrayedTransfer'
  <2>1. call.fn = "transfer" => handle[call.slot] = HandleOf(call.slot)
    BY <1>3, <1>4
  <2> QED BY <1>4, <2>1, TransferFails
<1>9. call.fn = "opened" => line'.DA = 1 /\ IdFits'
  <2> SUFFICES ASSUME call.fn = "opened" PROVE line'.DA = 1 /\ IdFits'
    OBVIOUS
  <2>1. line.DA = 1 /\ id = HandleOf(call.slot)
    BY <1>4 DEF Parking
  <2>2. id' = id \/ id' \in {"unknown", "empty"}
    BY DEF X!Fail
  <2>3. IdFits'
    BY <1>2, <2>1, <2>2 DEF IdFits, HandleOf
  <2> QED BY <1>2, <2>1, <2>3
<1> QED BY <1>1, <1>2, <1>5, <1>6, <1>7, <1>8, <1>9 DEF Strayed

\* A call that begins, and one that is done.
LEMMA FromTheStart ==
  ASSUME NEW P \in Seq(TransferSet), Plan' = P, todo' = P
  PROVE  Behind' = 0 /\ Behind' \in 0 .. Len(Plan') /\ todo' = SubSeq(Plan', Behind' + 1, Len(Plan'))
<1>1. Len(P) \in Nat /\ SubSeq(P, 1, Len(P)) = P
  OBVIOUS
<1>2. Behind' = Len(P) - Len(P)
  BY DEF Behind
<1>3. Behind' = 0
  BY <1>1, <1>2
<1> QED BY <1>1, <1>3

\* When nothing is left to do, the whole plan is behind.
LEMMA AtTheEnd ==
  ASSUME ScxiTypes, todo = << >>
  PROVE  /\ Behind = Len(Plan)
         /\ call.fn = "open" => Behind = 8
         /\ call.fn = "again" => Behind = 3
         /\ call.fn = "opened" => Behind = 6
         /\ call.fn = "transfer" => Behind = Parked + 4
<1>1. Behind = Len(Plan)
  <2>1. Len(todo) = 0
    OBVIOUS
  <2>2. Len(Plan) \in Nat
    BY PlanIs
  <2> QED BY <2>1, <2>2 DEF Behind
<1> QED BY <1>1, OthersAre, TransferIs

\* Between calls there is no plan.
LEMMA NoPlan ==
  ASSUME call' = X!NoCall, todo' = << >>
  PROVE  /\ Behind' = 0 /\ Behind' \in 0 .. Len(Plan') /\ todo' = SubSeq(Plan', Behind' + 1, Len(Plan'))
<1>1. call'.fn = "none"
  BY DEF X!NoCall
<1>2. Plan' = << >>
  BY <1>1 DEF Plan
<1>3. << >> \in Seq(TransferSet)
  OBVIOUS
<1> QED BY <1>2, <1>3, FromTheStart

\* What no call touches.
LEMMA ScxiTypesCall ==
  ASSUME ScxiTypes, X!Open \/ X!AskAgain \/ X!Identified \/ X!Opened \/ X!RegisterReadwrite \/ X!Transferred \/ X!Close
  PROVE  /\ line' = line /\ slot' = slot /\ addr' = addr /\ failures' = failures /\ stuck' = stuck
         /\ line' \in [SS : {0, 1}, DA : {0, 1}] /\ slot' \in X!Slots \union {X!NoSlot} /\ addr' \in [X!Slots -> Int]
         /\ failures' \in 0 .. MaxFailures /\ stuck' \in BOOLEAN
<1>1. /\ line' = line /\ slot' = slot /\ addr' = addr /\ failures' = failures /\ stuck' = stuck
  BY DEF X!Open, X!AskAgain, X!Identified, X!Opened, X!RegisterReadwrite, X!Transferred, X!Close, X!chassis
<1> QED BY <1>1 DEF ScxiTypes, X!TypeOK

\* comedi_scxi_open.
LEMMA OpenStep ==
  ASSUME ScxiTypes, ScxiPlaced, X!Open
  PROVE  ScxiTypes' /\ ScxiPlaced' /\ (Strayed => Strayed') /\ (Untroubled => Untroubled')
<1>0. PICK s \in X!Slots :
         /\ handle[s] = "closed"
         /\ call' = [X!NoCall EXCEPT !.fn = "open", !.slot = s]
         /\ todo' = <<X!Line("DA", 1), X!Line("SS", 1)>> \o X!SlotSelect(s) \o <<X!Transfer("clock", 0, 0), X!Read>>
  BY DEF X!Open
<1>1. call = X!NoCall /\ data' = << >> /\ id' = "none" /\ handle' = handle /\ uses' = uses
  BY DEF X!Open
<1>2. call.fn = "none" /\ call.slot = X!NoSlot
  BY <1>1 DEF X!NoCall
<1>3. call'.fn = "open" /\ call'.slot = s /\ call' \in CallFields
  BY <1>0 DEF X!NoCall, CallFields
<1>4. s \in Nat
  BY ScxiConstants
<1>5. todo' = OpenPlan(s)
  BY <1>0 DEF OpenPlan
<1>6. Plan' = OpenPlan(s)
  BY <1>3 DEF Plan
<1>7. /\ Behind' = 0 /\ Behind' \in 0 .. Len(Plan') /\ todo' = SubSeq(Plan', Behind' + 1, Len(Plan'))
  <2>1. OpenPlan(s) \in Seq(TransferSet)
    BY <1>4, PlanOfOpen
  <2> QED BY <1>5, <1>6, <2>1, FromTheStart
<1>8. /\ line' = line /\ slot' = slot /\ addr' = addr /\ failures' = failures /\ stuck' = stuck
      /\ line' \in [SS : {0, 1}, DA : {0, 1}] /\ slot' \in X!Slots \union {X!NoSlot} /\ addr' \in [X!Slots -> Int]
      /\ failures' \in 0 .. MaxFailures /\ stuck' \in BOOLEAN
  BY ScxiTypesCall
<1>9. ScxiTypes'
  <2>1. data' \in Seq(X!Slots \X Int) /\ id' = "none"
    BY <1>1
  <2>2. call'.fn \in {"none", "open", "again", "opened", "transfer"} /\ call'.fn # "none" /\ call'.slot \in X!Slots /\ call' \in CallFields
    BY <1>3
  <2>3. uses' \in 0 .. MaxCalls /\ handle' \in [X!Slots -> {"closed", "class 1", "class 2", "unknown", "empty"}]
    BY <1>1 DEF ScxiTypes, X!TypeOK
  <2> QED BY <1>8, <2>1, <2>2, <2>3 DEF ScxiTypes, X!TypeOK
<1>10. ScxiPlaced'
  BY <1>3, <1>7 DEF ScxiPlaced
<1>11. Strayed => Strayed'
  <2> SUFFICES ASSUME Strayed PROVE Strayed'
    OBVIOUS
  <2>1. \A k \in X!Slots : handle'[k] = "class 1" => Modules[k] = 1
    BY <1>1 DEF Strayed
  <2>2. StrayedOpen'
    BY <1>7 DEF StrayedOpen
  <2> QED BY <1>3, <2>1, <2>2 DEF Strayed
<1>12. Untroubled => Untroubled'
  <2> SUFFICES ASSUME Untroubled PROVE Untroubled'
    OBVIOUS
  <2>1. (\A k \in X!Slots : handle[k] \in {"closed", HandleOf(k)}) /\ Free /\ OthersParked
    BY DEF Untroubled
  <2>2. \A k \in X!Slots : handle'[k] \in {"closed", HandleOf(k)'}
    BY <1>1, <2>1 DEF HandleOf
  <2>3. Free' /\ Asking' /\ Parking' /\ Transferring'
    BY <1>3 DEF Free, Asking, Parking, Transferring
  <2>4. OthersParked'
    <3>1. X!NoSlot \notin X!Slots
      BY ChassisTypes
    <3> QED BY <1>1, <1>2, <1>8, <2>1, <3>1 DEF OthersParked
  <2>5. Opening'
    <3>1. slot = X!NoSlot
      BY <1>2, <2>1 DEF Free
    <3> QED BY <1>7, <1>8, <3>1 DEF Opening
  <2> QED BY <2>2, <2>3, <2>4, <2>5 DEF Untroubled
<1> QED BY <1>9, <1>10, <1>11, <1>12

\* Its second question.
LEMMA AskAgainStep ==
  ASSUME ScxiTypes, ScxiPlaced, X!AskAgain
  PROVE  ScxiTypes' /\ ScxiPlaced' /\ (Strayed => Strayed') /\ (Untroubled => Untroubled')
<1>1. /\ call.fn = "open" /\ todo = << >> /\ id = "empty" /\ call' = [call EXCEPT !.fn = "again"]
      /\ todo' = AgainPlan /\ handle' = handle /\ id' = id /\ data' = data /\ uses' = uses
  BY DEF X!AskAgain, AgainPlan
<1>2. call \in CallFields /\ call.slot \in X!Slots /\ Modules[call.slot] \in {1, 2}
  BY <1>1, ScxiConstants DEF ScxiTypes
<1>3. call'.fn = "again" /\ call'.slot = call.slot /\ call' \in CallFields
  BY <1>1, <1>2 DEF CallFields
<1>4. Behind = 8
  BY <1>1, AtTheEnd
<1>6. Plan' = AgainPlan
  BY <1>3 DEF Plan
<1>7. /\ Behind' = 0 /\ Behind' \in 0 .. Len(Plan') /\ todo' = SubSeq(Plan', Behind' + 1, Len(Plan'))
  <2>1. AgainPlan \in Seq(TransferSet)
    BY PlanOfAgain
  <2> QED BY <1>1, <1>6, <2>1, FromTheStart
<1>8. /\ line' = line /\ slot' = slot /\ addr' = addr /\ failures' = failures /\ stuck' = stuck
      /\ line' \in [SS : {0, 1}, DA : {0, 1}] /\ slot' \in X!Slots \union {X!NoSlot} /\ addr' \in [X!Slots -> Int]
      /\ failures' \in 0 .. MaxFailures /\ stuck' \in BOOLEAN
  BY ScxiTypesCall
<1>9. ScxiTypes'
  BY <1>1, <1>2, <1>3, <1>8 DEF ScxiTypes, X!TypeOK
<1>10. ScxiPlaced'
  BY <1>1, <1>3, <1>7 DEF ScxiPlaced
<1>11. Strayed => Strayed'
  <2> SUFFICES ASSUME Strayed PROVE Strayed'
    OBVIOUS
  <2>1. line.DA = 1 /\ slot \in {X!NoSlot, call.slot}
    <3>1. StrayedOpen
      BY <1>1 DEF Strayed
    <3>2. (Behind >= 1 => line.DA = 1) /\ (Behind >= 5 => slot \in {X!NoSlot, call.slot})
      BY <3>1, Zenon DEF StrayedOpen, Chosen
    <3> QED BY ONLY <1>4, <3>2
  <2>2. StrayedAgain'
    BY <1>3, <1>7, <1>8, <2>1 DEF StrayedAgain, Chosen
  <2> QED BY <1>1, <1>3, <2>2 DEF Strayed
<1>12. Untroubled => Untroubled'
  <2> SUFFICES ASSUME Untroubled PROVE Untroubled'
    OBVIOUS
  <2>1. (\A k \in X!Slots : handle[k] \in {"closed", HandleOf(k)}) /\ Opening /\ OthersParked
    BY DEF Untroubled
  <2>2. \A k \in X!Slots : handle'[k] \in {"closed", HandleOf(k)'}
    BY <1>1, <2>1 DEF HandleOf
  <2>3. Free' /\ Opening' /\ Parking' /\ Transferring'
    BY <1>3 DEF Free, Opening, Parking, Transferring
  <2>4. OthersParked'
    BY <1>1, <1>3, <1>8, <2>1 DEF OthersParked
  <2>5. line.DA = 1 /\ line.SS = 1 /\ slot = call.slot
    BY <1>1, <1>4, <2>1 DEF Opening
  <2>6. Modules[call.slot] = 1
    <3>1. Modules[call.slot] # 2
      <4>1. id = IF Modules[call.slot] = 2 THEN "class 2" ELSE "empty"
        BY <1>1, <1>4, <2>1 DEF Opening
      <4> QED BY <1>1, <4>1
    <3> QED BY <1>2, <3>1
  <2>7. Asking'
    BY <1>3, <1>7, <1>8, <2>5, <2>6 DEF Asking
  <2> QED BY <2>2, <2>3, <2>4, <2>7 DEF Untroubled
<1> QED BY <1>9, <1>10, <1>11, <1>12

\* scxi_identify knows what it asked.
LEMMA IdentifiedStep ==
  ASSUME ScxiTypes, ScxiPlaced, X!Identified
  PROVE  ScxiTypes' /\ ScxiPlaced' /\ (Strayed => Strayed') /\ (Untroubled => Untroubled')
<1>1. /\ call.fn \in {"open", "again"} /\ todo = << >> /\ (call.fn = "open" => id # "empty")
      /\ call' = [call EXCEPT !.fn = "opened"]
      /\ todo' = X!module_deselect(2) /\ handle' = handle /\ id' = id /\ data' = data /\ uses' = uses
  BY DEF X!Identified
<1>2. call \in CallFields /\ call.slot \in X!Slots /\ Modules[call.slot] \in {1, 2}
  BY <1>1, ScxiConstants DEF ScxiTypes
<1>3. call'.fn = "opened" /\ call'.slot = call.slot /\ call' \in CallFields
  BY <1>1, <1>2 DEF CallFields
<1>4. (call.fn = "open" => Behind = 8) /\ (call.fn = "again" => Behind = 3)
  BY <1>1, AtTheEnd
<1>5. id # "none"
  BY <1>1, <1>4 DEF ScxiPlaced
<1>6. Plan' = X!module_deselect(2)
  BY <1>3 DEF Plan
<1>7. /\ Behind' = 0 /\ Behind' \in 0 .. Len(Plan') /\ todo' = SubSeq(Plan', Behind' + 1, Len(Plan'))
  <2>1. X!module_deselect(2) \in Seq(TransferSet)
    BY PlanOfDeselect
  <2> QED BY <1>1, <1>6, <2>1, FromTheStart
<1>8. /\ line' = line /\ slot' = slot /\ addr' = addr /\ failures' = failures /\ stuck' = stuck
      /\ line' \in [SS : {0, 1}, DA : {0, 1}] /\ slot' \in X!Slots \union {X!NoSlot} /\ addr' \in [X!Slots -> Int]
      /\ failures' \in 0 .. MaxFailures /\ stuck' \in BOOLEAN
  BY ScxiTypesCall
<1>9. ScxiTypes'
  BY <1>1, <1>2, <1>3, <1>8 DEF ScxiTypes, X!TypeOK
<1>10. ScxiPlaced'
  BY <1>1, <1>3, <1>5, <1>7 DEF ScxiPlaced
<1>11. Strayed => Strayed'
  <2> SUFFICES ASSUME Strayed PROVE Strayed'
    OBVIOUS
  <2>1. call.fn = "open" => line.DA = 1 /\ IdFits
    <3>1. call.fn = "open" => StrayedOpen
      BY DEF Strayed
    <3>2. StrayedOpen => (Behind >= 1 => line.DA = 1) /\ (Behind = 8 => id # "class 1")
      BY Zenon DEF StrayedOpen
    <3>3. Behind = 8 => Behind >= 1
      OBVIOUS
    <3> QED BY <1>4, <3>1, <3>2, <3>3, Zenon DEF IdFits
  <2>2. call.fn = "again" => line.DA = 1 /\ IdFits
    <3>1. call.fn = "again" => StrayedAgain
      BY DEF Strayed
    <3>2. StrayedAgain => (Behind \in {0, 3} => line.DA = 1) /\ (Behind >= 2 => IdFits)
      BY Zenon DEF StrayedAgain
    <3>3. Behind = 3 => Behind >= 2 /\ Behind \in {0, 3}
      OBVIOUS
    <3> QED BY <1>4, <3>1, <3>2, <3>3, Zenon
  <2>3. line'.DA = 1 /\ IdFits'
    BY <1>1, <1>3, <1>8, <2>1, <2>2 DEF IdFits
  <2>4. \A k \in X!Slots : handle'[k] = "class 1" => Modules[k] = 1
    BY <1>1 DEF Strayed
  <2> QED BY <1>3, <2>3, <2>4 DEF Strayed
<1>12. Untroubled => Untroubled'
  <2> SUFFICES ASSUME Untroubled PROVE Untroubled'
    OBVIOUS
  <2>1. (\A k \in X!Slots : handle[k] \in {"closed", HandleOf(k)}) /\ Opening /\ Asking /\ OthersParked
    BY DEF Untroubled
  <2>2. \A k \in X!Slots : handle'[k] \in {"closed", HandleOf(k)'}
    BY <1>1, <2>1 DEF HandleOf
  <2>3. Free' /\ Opening' /\ Asking' /\ Transferring'
    BY <1>3 DEF Free, Opening, Asking, Transferring
  <2>4. OthersParked'
    BY <1>1, <1>3, <1>8, <2>1 DEF OthersParked
  <2>5. call.fn = "open" => line.DA = 1 /\ line.SS = 1 /\ slot = call.slot /\ id = HandleOf(call.slot)
    <3> SUFFICES ASSUME call.fn = "open" PROVE line.DA = 1 /\ line.SS = 1 /\ slot = call.slot /\ id = HandleOf(call.slot)
      OBVIOUS
    <3>1. line.DA = 1 /\ line.SS = 1 /\ slot = call.slot
      <4>1. /\ Behind >= 1 => line.DA = 1
            /\ Behind >= 2 => line.SS = IF Behind \in 3 .. 5 THEN 0 ELSE 1
            /\ slot = IF Behind <= 4 THEN X!NoSlot ELSE call.slot
        BY <2>1, Zenon DEF Opening
      <4>2. Behind = 8
        BY <1>4
      <4> QED BY ONLY <4>1, <4>2
    <3>2. Behind = 8 => id = IF Modules[call.slot] = 2 THEN "class 2" ELSE "empty"
      BY <2>1, Zenon DEF Opening
    <3>3. id # "empty" /\ Behind = 8
      BY <1>1, <1>4
    <3>4. Modules[call.slot] = 2 /\ id = "class 2"
      BY ONLY <3>2, <3>3
    <3>5. HandleOf(call.slot) = "class 2"
      <4>1. 1 # 2
        OBVIOUS
      <4>2. Modules[call.slot] # 1
        BY <3>4, <4>1, Zenon
      <4> QED BY <4>2 DEF HandleOf
    <3> QED BY ONLY <3>1, <3>4, <3>5
  <2>6. call.fn = "again" => line.DA = 1 /\ line.SS = 1 /\ slot = call.slot /\ id = HandleOf(call.slot)
    <3> SUFFICES ASSUME call.fn = "again" PROVE line.DA = 1 /\ line.SS = 1 /\ slot = call.slot /\ id = HandleOf(call.slot)
      OBVIOUS
    <3>0. Behind = 3 /\ Behind >= 2 /\ ~(Behind \in 1 .. 2)
      <4>1. Behind = 3
        BY <1>4
      <4> QED BY ONLY <4>1
    <3>1. line.DA = 1 /\ line.SS = 1 /\ slot = call.slot /\ Modules[call.slot] = 1
      <4>1. /\ Modules[call.slot] = 1 /\ slot = call.slot /\ line.SS = 1
            /\ line.DA = IF Behind \in 1 .. 2 THEN 0 ELSE 1
        BY <2>1, Zenon DEF Asking
      <4> QED BY ONLY <3>0, <4>1
    <3>2. id = "class 1"
      <4>1. Behind >= 2 => id = "class 1"
        BY <2>1, Zenon DEF Asking
      <4> QED BY ONLY <3>0, <4>1
    <3> QED BY <3>1, <3>2 DEF HandleOf
  <2>7. line.DA = 1 /\ line.SS = 1 /\ slot = call.slot /\ id = HandleOf(call.slot)
    BY <1>1, <2>5, <2>6
  <2>8. id' = HandleOf(call.slot)'
    BY <1>1, <1>3, <2>7 DEF HandleOf
  <2>9. Parking'
    BY <1>3, <1>7, <1>8, <2>7, <2>8 DEF Parking
  <2> QED BY <2>2, <2>3, <2>4, <2>9 DEF Untroubled
<1> QED BY <1>9, <1>10, <1>11, <1>12

\* comedi_scxi_open answers.
LEMMA OpenedStep ==
  ASSUME ScxiTypes, ScxiPlaced, X!Opened
  PROVE  ScxiTypes' /\ ScxiPlaced' /\ (Strayed => Strayed') /\ (Untroubled => Untroubled')
<1>1. /\ call.fn = "opened" /\ todo = << >>
      /\ handle' = [handle EXCEPT ![call.slot] = id] /\ call' = X!NoCall
      /\ todo' = todo /\ id' = id /\ data' = data /\ uses' = uses
  BY DEF X!Opened
<1>2. /\ call.slot \in X!Slots /\ X!NoSlot \notin X!Slots
      /\ handle \in [X!Slots -> {"closed", "class 1", "class 2", "unknown", "empty"}]
      /\ id \in {"none", "class 1", "class 2", "unknown", "empty"}
  BY <1>1, ChassisTypes DEF ScxiTypes, X!TypeOK
<1>3. call'.fn = "none" /\ call'.slot = X!NoSlot /\ call' \in CallFields
  BY <1>1 DEF X!NoCall, CallFields
<1>4. Behind = 6
  BY <1>1, AtTheEnd
<1>5. id # "none"
  BY <1>1 DEF ScxiPlaced
<1>7. /\ Behind' \in 0 .. Len(Plan') /\ todo' = SubSeq(Plan', Behind' + 1, Len(Plan'))
  BY <1>1, NoPlan
<1>8. /\ line' = line /\ slot' = slot /\ addr' = addr /\ failures' = failures /\ stuck' = stuck
      /\ line' \in [SS : {0, 1}, DA : {0, 1}] /\ slot' \in X!Slots \union {X!NoSlot} /\ addr' \in [X!Slots -> Int]
      /\ failures' \in 0 .. MaxFailures /\ stuck' \in BOOLEAN
  BY ScxiTypesCall
<1>9. ScxiTypes'
  <2>1. handle' \in [X!Slots -> {"closed", "class 1", "class 2", "unknown", "empty"}]
    BY <1>1, <1>2, <1>5
  <2>2. data' \in Seq(X!Slots \X Int) /\ id' \in {"none", "class 1", "class 2", "unknown", "empty"} /\ uses' \in 0 .. MaxCalls
    BY <1>1 DEF ScxiTypes, X!TypeOK
  <2> QED BY <1>1, <1>3, <1>8, <2>1, <2>2 DEF ScxiTypes, X!TypeOK
<1>10. ScxiPlaced'
  BY <1>3, <1>7 DEF ScxiPlaced
<1>11. Strayed => Strayed'
  <2> SUFFICES ASSUME Strayed PROVE Strayed'
    OBVIOUS
  <2>1. line.DA = 1 /\ IdFits /\ \A k \in X!Slots : handle[k] = "class 1" => Modules[k] = 1
    BY <1>1 DEF Strayed
  <2>2. \A k \in X!Slots : handle'[k] = "class 1" => Modules[k] = 1
    BY <1>1, <1>2, <2>1 DEF IdFits
  <2> QED BY <1>3, <1>8, <2>1, <2>2 DEF Strayed
<1>12. Untroubled => Untroubled'
  <2> SUFFICES ASSUME Untroubled PROVE Untroubled'
    OBVIOUS
  <2>1. (\A k \in X!Slots : handle[k] \in {"closed", HandleOf(k)}) /\ Parking /\ OthersParked
    BY DEF Untroubled
  <2>2. /\ id = HandleOf(call.slot) /\ line.DA = 1 /\ line.SS = 1 /\ slot = X!NoSlot
        /\ Modules[call.slot] = 2 => addr[call.slot] = X!REG_PARK
    BY <1>1, <1>4, <2>1 DEF Parking
  <2>3. \A k \in X!Slots : handle'[k] \in {"closed", HandleOf(k)'}
    BY <1>1, <1>2, <2>1, <2>2 DEF HandleOf
  <2>4. Opening' /\ Asking' /\ Parking' /\ Transferring'
    BY <1>3 DEF Opening, Asking, Parking, Transferring
  <2>5. OthersParked'
    <3>1. ASSUME NEW k \in X!Slots, handle'[k] # "closed", Modules[k] = 2 PROVE addr[k] = X!REG_PARK
      <4>1. CASE k = call.slot
        BY <2>2, <3>1, <4>1
      <4>2. CASE k # call.slot
        <5>1. handle[k] # "closed"
          BY <1>1, <1>2, <3>1, <4>2
        <5> QED BY <2>1, <3>1, <4>2, <5>1 DEF OthersParked
      <4> QED BY <4>1, <4>2
    <3> QED BY <1>8, <3>1 DEF OthersParked
  <2>6. line = [SS |-> 1, DA |-> 1]
    <3>1. line \in [SS : {0, 1}, DA : {0, 1}]
      BY ChassisTypes
    <3> QED BY <2>2, <3>1
  <2>7. Free'
    BY <1>8, <2>2, <2>6 DEF Free
  <2> QED BY <2>3, <2>4, <2>5, <2>7 DEF Untroubled
<1> QED BY <1>9, <1>10, <1>11, <1>12

\* At the start of a plan none of its parts is behind.
LEMMA NothingBehind ==
  ASSUME NEW b, b = 0, NEW prepared \in Nat, NEW filled \in Nat, NEW sent \in Nat, NEW parked \in Nat
  PROVE  /\ ~(b \in 1 .. 2) /\ ~(b \in 3 .. 5) /\ b # 6 /\ ~(b \in prepared + 1 .. filled)
         /\ ~(b \in 1 .. 3 \/ b \in parked + 1 .. parked + 3)
         /\ ~(b \in prepared + 1 .. sent) /\ ~(b \in 3 .. parked + 2) /\ ~(b \in 6 .. sent + 1)
         /\ ~(b > filled)
  OBVIOUS

\* comedi_scxi_register_readwrite.
LEMMA RegisterStep ==
  ASSUME ScxiTypes, ScxiPlaced, X!RegisterReadwrite
  PROVE  ScxiTypes' /\ ScxiPlaced' /\ (Strayed => Strayed') /\ (Untroubled => Untroubled')
<1>0. PICK s \in X!Slots, r \in Registers, n \in 0 .. MaxBytes :
         /\ handle[s] # "closed"
         /\ call' = [fn |-> "transfer", slot |-> s, reg |-> r, bytes |-> n]
         /\ todo' = TransferPlan(X!ClassOf(s), s, r, n)
  BY DEF X!RegisterReadwrite, TransferPlan, High
<1>1. call = X!NoCall /\ data' = << >> /\ handle' = handle /\ id' = id /\ uses < MaxCalls /\ uses' = uses + 1
  BY DEF X!RegisterReadwrite
<1>2. call.fn = "none" /\ call.slot = X!NoSlot
  BY <1>1 DEF X!NoCall
<1>4. s \in Nat /\ r \in Nat /\ n \in Nat /\ X!NoSlot \notin X!Slots /\ X!ClassOf(s) \in {1, 2}
  BY ScxiConstants, ChassisTypes DEF X!ClassOf
<1>3. call'.fn = "transfer" /\ call'.slot = s /\ call'.reg = r /\ call'.bytes = n /\ call' \in CallFields
  BY <1>0, <1>4 DEF CallFields
<1>6. Plan' = TransferPlan(X!ClassOf(s), s, r, n)
  <2>1. X!ClassOf(s)' = X!ClassOf(s)
    BY <1>1 DEF X!ClassOf
  <2>2. X!ClassOf(call.slot)' = X!ClassOf(s)
    BY <1>1, <1>3 DEF X!ClassOf
  <2> QED BY <1>3, <2>2 DEF Plan
<1>7. /\ Behind' = 0 /\ Behind' \in 0 .. Len(Plan') /\ todo' = SubSeq(Plan', Behind' + 1, Len(Plan'))
  <2>1. TransferPlan(X!ClassOf(s), s, r, n) \in Seq(TransferSet)
    <3>1. TransferLaidOut(TransferPlan(X!ClassOf(s), s, r, n), X!ClassOf(s), s, r, n)
      BY <1>4, PlanOfTransfer, Zenon
    <3> QED BY <3>1, Zenon DEF TransferLaidOut
  <2> QED BY <1>0, <1>6, <2>1, FromTheStart
<1>8. /\ line' = line /\ slot' = slot /\ addr' = addr /\ failures' = failures /\ stuck' = stuck
      /\ line' \in [SS : {0, 1}, DA : {0, 1}] /\ slot' \in X!Slots \union {X!NoSlot} /\ addr' \in [X!Slots -> Int]
      /\ failures' \in 0 .. MaxFailures /\ stuck' \in BOOLEAN
  BY ScxiTypesCall
<1>9. ScxiTypes'
  <2>1. data' \in Seq(X!Slots \X Int) /\ id' \in {"none", "class 1", "class 2", "unknown", "empty"}
    <3>1. id \in {"none", "class 1", "class 2", "unknown", "empty"} /\ id' = id /\ data' = << >>
      BY <1>1 DEF ScxiTypes
    <3>2. << >> \in Seq(X!Slots \X Int)
      OBVIOUS
    <3> QED BY ONLY <3>1, <3>2
  <2>2. call'.fn \in {"none", "open", "again", "opened", "transfer"} /\ call'.fn # "none" /\ call'.slot \in X!Slots /\ call' \in CallFields
    BY <1>3
  <2>3. handle' \in [X!Slots -> {"closed", "class 1", "class 2", "unknown", "empty"}]
    BY <1>1 DEF ScxiTypes, X!TypeOK
  <2>4. uses' \in 0 .. MaxCalls
    <3>1. uses \in 0 .. MaxCalls /\ MaxCalls \in Nat
      BY ScxiConstants DEF ScxiTypes, X!TypeOK
    <3>2. uses < MaxCalls /\ uses' = uses + 1
      BY <1>1
    <3> QED BY ONLY <3>1, <3>2
  <2> QED BY <1>8, <2>1, <2>2, <2>3, <2>4 DEF ScxiTypes, X!TypeOK
<1>10. ScxiPlaced'
  BY <1>0, <1>1, <1>3, <1>7 DEF ScxiPlaced
<1>11. Prepared' \in {5, 6} /\ Parked' \in Nat /\ Sent' \in Nat /\ Filled' \in Nat
  <2>1. X!ClassOf(call.slot)' \in {1, 2} /\ call'.bytes \in Nat
    BY <1>3, <1>4 DEF X!ClassOf
  <2>2. Prepared' \in {5, 6}
    BY DEF Prepared
  <2>3. Filled' \in Nat
    BY <2>1, <2>2 DEF Filled
  <2>4. Sent' \in Nat
    <3>1. Sent' = (IF X!ClassOf(call.slot) = 1 /\ call.reg = 0 THEN Filled + 1 ELSE Filled)'
      BY DEF Sent
    <3>2. Sent' = Filled' + 1 \/ Sent' = Filled'
      BY <3>1
    <3> QED BY ONLY <2>3, <3>2
  <2>5. Parked' \in Nat
    <3>1. Parked' = (IF X!ClassOf(call.slot) = 1 THEN Sent + 1 ELSE Sent + 2)'
      BY DEF Parked
    <3>2. Parked' = Sent' + 1 \/ Parked' = Sent' + 2
      BY <3>1
    <3> QED BY ONLY <2>4, <3>2
  <2> QED BY <2>2, <2>3, <2>4, <2>5
<1>12. Strayed => Strayed'
  <2> SUFFICES ASSUME Strayed PROVE Strayed'
    OBVIOUS
  <2>1. line.DA = 1 /\ \A k \in X!Slots : handle[k] = "class 1" => Modules[k] = 1
    BY <1>0, <1>2 DEF Strayed
  <2>2. StrayedTransfer'
    <3>1. Behind' = 0 /\ line'.DA = 1 /\ data' = << >>
      BY <1>1, <1>7, <1>8, <2>1
    <3>2. ~(Behind' \in 1 .. 2) /\ ~(Behind' \in 3 .. 5) /\ Behind' # 6 /\ ~(Behind' \in Prepared' + 1 .. Filled')
      <4>1. Behind' = 0
        BY <3>1
      <4>2. Prepared' \in Nat /\ Prepared' >= 5
        BY ONLY <1>11
      <4> QED BY <1>11, <4>1, <4>2, NothingBehind, Zenon
    <3>3. \A k \in DOMAIN data' : FALSE
      BY <3>1
    <3> QED BY <3>1, <3>2, <3>3 DEF StrayedTransfer
  <2> QED BY <1>1, <1>3, <2>1, <2>2 DEF Strayed
<1>13. Untroubled => Untroubled'
  <2> SUFFICES ASSUME Untroubled PROVE Untroubled'
    OBVIOUS
  <2>1. (\A k \in X!Slots : handle[k] \in {"closed", HandleOf(k)}) /\ Free /\ OthersParked
    BY DEF Untroubled
  <2>2. slot = X!NoSlot /\ line.SS = 1 /\ line.DA = 1
    BY <1>0, <1>2, <2>1 DEF Free
  <2>3. \A k \in X!Slots : handle'[k] \in {"closed", HandleOf(k)'}
    BY <1>1, <2>1 DEF HandleOf
  <2>4. Free' /\ Opening' /\ Asking' /\ Parking'
    BY <1>3 DEF Free, Opening, Asking, Parking
  <2>5. \A k \in X!Slots : handle[k] # "closed" /\ Modules[k] = 2 => addr[k] = X!REG_PARK
    BY <1>2, <1>4, <2>1 DEF OthersParked
  <2>6. OthersParked'
    BY <1>1, <1>8, <2>5 DEF OthersParked
  <2>7. Transferring'
    <3>1. Behind' = 0 /\ line'.DA = 1 /\ line'.SS = 1 /\ slot' = X!NoSlot /\ data' = << >>
      BY <1>1, <1>7, <1>8, <2>2
    <3>2. /\ ~(Behind' \in 1 .. 3 \/ Behind' \in Parked' + 1 .. Parked' + 3)
          /\ ~(Behind' \in Prepared' + 1 .. Sent') /\ ~(Behind' \in 3 .. Parked' + 2) /\ ~(Behind' \in 6 .. Sent' + 1)
          /\ ~(Behind' \in Prepared' + 1 .. Filled') /\ ~(Behind' > Filled')
      <4>1. Behind' = 0
        BY <3>1
      <4>2. Prepared' \in Nat /\ Prepared' >= 5
        BY ONLY <1>11
      <4> QED BY <1>11, <4>1, <4>2, NothingBehind, ZenonT(30)
    <3>3. Modules[s] = 2 => addr'[s] = X!REG_PARK
      BY <1>0, <1>8, <2>5
    <3>4. \A k \in DOMAIN data' : FALSE
      BY <3>1
    <3> QED BY <1>3, <3>1, <3>2, <3>3, <3>4 DEF Transferring
  <2> QED BY <2>3, <2>4, <2>6, <2>7 DEF Untroubled
<1> QED BY <1>9, <1>10, <1>12, <1>13

\* It answers.
LEMMA TransferredStep ==
  ASSUME ScxiTypes, ScxiPlaced, X!Transferred
  PROVE  ScxiTypes' /\ ScxiPlaced' /\ (Strayed => Strayed') /\ (Untroubled => Untroubled')
<1>1. /\ call.fn = "transfer" /\ todo = << >> /\ call' = X!NoCall
      /\ handle' = handle /\ todo' = todo /\ id' = id /\ data' = data /\ uses' = uses
  BY DEF X!Transferred
<1>2. /\ call.slot \in X!Slots /\ X!NoSlot \notin X!Slots /\ line \in [SS : {0, 1}, DA : {0, 1}]
  BY <1>1, ChassisTypes
<1>3. call'.fn = "none" /\ call'.slot = X!NoSlot /\ call' \in CallFields
  BY <1>1 DEF X!NoCall, CallFields
<1>4. Behind = Parked + 4
  BY <1>1, AtTheEnd
<1>5. /\ Prepared \in {5, 6} /\ Filled \in Nat /\ Sent \in Nat /\ Parked \in Nat /\ Parked > Sent /\ Sent >= Filled /\ Filled > Prepared
  BY <1>1, PartSizes
<1>7. /\ Behind' \in 0 .. Len(Plan') /\ todo' = SubSeq(Plan', Behind' + 1, Len(Plan'))
  BY <1>1, NoPlan
<1>8. /\ line' = line /\ slot' = slot /\ addr' = addr /\ failures' = failures /\ stuck' = stuck
      /\ line' \in [SS : {0, 1}, DA : {0, 1}] /\ slot' \in X!Slots \union {X!NoSlot} /\ addr' \in [X!Slots -> Int]
      /\ failures' \in 0 .. MaxFailures /\ stuck' \in BOOLEAN
  BY ScxiTypesCall
<1>9. ScxiTypes'
  BY <1>1, <1>3, <1>8 DEF ScxiTypes, X!TypeOK
<1>10. ScxiPlaced'
  BY <1>3, <1>7 DEF ScxiPlaced
<1>11. /\ Behind > Sent /\ ~(Behind \in 1 .. 3 \/ Behind \in Parked + 1 .. Parked + 3)
       /\ ~(Behind \in Prepared + 1 .. Sent) /\ ~(Behind \in 3 .. Parked + 2) /\ ~(Behind \in 6 .. Sent + 1)
  BY ONLY <1>4, <1>5
<1>12. Strayed => Strayed'
  <2> SUFFICES ASSUME Strayed PROVE Strayed'
    OBVIOUS
  <2>1. StrayedTransfer /\ \A k \in X!Slots : handle[k] = "class 1" => Modules[k] = 1
    BY <1>1 DEF Strayed
  <2>2. line.DA = 1
    BY <1>11, <2>1, Zenon DEF StrayedTransfer
  <2> QED BY <1>1, <1>3, <1>8, <2>1, <2>2 DEF Strayed
<1>13. Untroubled => Untroubled'
  <2> SUFFICES ASSUME Untroubled PROVE Untroubled'
    OBVIOUS
  <2>1. (\A k \in X!Slots : handle[k] \in {"closed", HandleOf(k)}) /\ Transferring /\ OthersParked
    BY DEF Untroubled
  <2>2. /\ line.DA = 1 /\ line.SS = 1 /\ slot = X!NoSlot
        /\ Modules[call.slot] = 2 => addr[call.slot] = X!REG_PARK
    BY <1>1, <1>11, <2>1, Zenon DEF Transferring
  <2>3. \A k \in X!Slots : handle'[k] \in {"closed", HandleOf(k)'}
    BY <1>1, <2>1 DEF HandleOf
  <2>4. Opening' /\ Asking' /\ Parking' /\ Transferring'
    BY <1>3 DEF Opening, Asking, Parking, Transferring
  <2>5. OthersParked'
    BY <1>1, <1>8, <2>1, <2>2 DEF OthersParked
  <2>6. line = [SS |-> 1, DA |-> 1]
    BY <1>2, <2>2
  <2>7. Free'
    BY <1>8, <2>2, <2>6 DEF Free
  <2> QED BY <2>3, <2>4, <2>5, <2>7 DEF Untroubled
<1> QED BY <1>9, <1>10, <1>12, <1>13

\* comedi_scxi_close.
LEMMA CloseStep ==
  ASSUME ScxiTypes, ScxiPlaced, X!Close
  PROVE  ScxiTypes' /\ ScxiPlaced' /\ (Strayed => Strayed') /\ (Untroubled => Untroubled')
<1>0. PICK s \in X!Slots : handle[s] # "closed" /\ handle' = [handle EXCEPT ![s] = "closed"]
  BY DEF X!Close
<1>1. call = X!NoCall /\ call' = call /\ todo' = todo /\ id' = id /\ data' = data /\ uses' = uses
  BY DEF X!Close
<1>2. call.fn = "none" /\ call'.fn = "none" /\ handle \in [X!Slots -> {"closed", "class 1", "class 2", "unknown", "empty"}]
  BY <1>1 DEF X!NoCall, ScxiTypes, X!TypeOK
<1>3. todo = << >>
  <2>1. Plan = << >> /\ Behind \in 0 .. Len(Plan) /\ todo = SubSeq(Plan, Behind + 1, Len(Plan))
    BY <1>2, OthersAre DEF ScxiPlaced
  <2> QED BY <2>1
<1>7. /\ Behind' \in 0 .. Len(Plan') /\ todo' = SubSeq(Plan', Behind' + 1, Len(Plan'))
  BY <1>1, <1>3, NoPlan
<1>8. /\ line' = line /\ slot' = slot /\ addr' = addr /\ failures' = failures /\ stuck' = stuck
      /\ line' \in [SS : {0, 1}, DA : {0, 1}] /\ slot' \in X!Slots \union {X!NoSlot} /\ addr' \in [X!Slots -> Int]
      /\ failures' \in 0 .. MaxFailures /\ stuck' \in BOOLEAN
  BY ScxiTypesCall
<1>4. \A k \in X!Slots : handle'[k] = handle[k] \/ handle'[k] = "closed"
  BY <1>0, <1>2
<1>9. ScxiTypes'
  <2>1. handle' \in [X!Slots -> {"closed", "class 1", "class 2", "unknown", "empty"}]
    BY <1>0, <1>2
  <2> QED BY <1>1, <1>8, <2>1 DEF ScxiTypes, X!TypeOK
<1>10. ScxiPlaced'
  BY <1>2, <1>7 DEF ScxiPlaced
<1>11. Strayed => Strayed'
  <2> SUFFICES ASSUME Strayed PROVE Strayed'
    OBVIOUS
  <2>1. line.DA = 1 /\ \A k \in X!Slots : handle[k] = "class 1" => Modules[k] = 1
    BY <1>0, <1>2 DEF Strayed
  <2>2. \A k \in X!Slots : handle'[k] = "class 1" => Modules[k] = 1
    BY <1>4, <2>1
  <2> QED BY <1>2, <1>8, <2>1, <2>2 DEF Strayed
<1>12. Untroubled => Untroubled'
  <2> SUFFICES ASSUME Untroubled PROVE Untroubled'
    OBVIOUS
  <2>1. (\A k \in X!Slots : handle[k] \in {"closed", HandleOf(k)}) /\ Free /\ OthersParked
    BY DEF Untroubled
  <2>2. \A k \in X!Slots : handle'[k] \in {"closed", HandleOf(k)'}
    BY <1>4, <2>1 DEF HandleOf
  <2>3. Opening' /\ Asking' /\ Parking' /\ Transferring'
    BY <1>2 DEF Opening, Asking, Parking, Transferring
  <2>4. OthersParked'
    BY <1>1, <1>4, <1>8, <2>1 DEF OthersParked
  <2>5. Free'
    BY <1>0, <1>2, <1>8, <2>1 DEF Free
  <2> QED BY <2>2, <2>3, <2>4, <2>5 DEF Untroubled
<1> QED BY <1>9, <1>10, <1>11, <1>12

\* Each step of the program and of the chassis.
LEMMA ScxiStep ==
  ASSUME ScxiTypes, ScxiPlaced, failures <= 1 /\ ~stuck => Strayed, failures = 0 => ~stuck /\ Untroubled, X!Next
  PROVE  /\ ScxiTypes' /\ ScxiPlaced'
         /\ failures' <= 1 /\ ~stuck' => Strayed'
         /\ failures' = 0 => ~stuck' /\ Untroubled'
<1>1. CASE X!Fail
  <2>1. failures' = failures + 1 /\ stuck' \in BOOLEAN /\ (stuck => stuck') /\ failures \in Nat
    <3>1. failures \in Nat
      <4>1. failures \in 0 .. MaxFailures
        BY DEF ScxiTypes, X!TypeOK
      <4> QED BY ONLY <4>1
    <3> QED BY <1>1, <3>1 DEF X!Fail
  <2>2. failures' # 0 /\ (failures' <= 1 => failures = 0)
    BY ONLY <2>1
  <2>3. ScxiTypes' /\ ScxiPlaced'
    BY <1>1, ScxiTypesFail, ScxiPlacedFail
  <2>4. failures' <= 1 /\ ~stuck' => Strayed'
    BY <1>1, <2>2, ScxiFails
  <2> QED BY <2>2, <2>3, <2>4
<1>2. ASSUME failures' = failures /\ stuck' = stuck, ScxiTypes' /\ ScxiPlaced', Strayed => Strayed', Untroubled => Untroubled'
      PROVE  /\ ScxiTypes' /\ ScxiPlaced'
             /\ failures' <= 1 /\ ~stuck' => Strayed'
             /\ failures' = 0 => ~stuck' /\ Untroubled'
  <2>1. (failures' <= 1 <=> failures <= 1) /\ (failures' = 0 <=> failures = 0) /\ (stuck' <=> stuck)
    BY <1>2
  <2> QED BY <1>2, <2>1, Zenon
<1>3. CASE X!Do
  <2>1. failures' = failures /\ stuck' = stuck
    BY <1>3 DEF X!Do
  <2> QED BY <1>2, <1>3, <2>1, ScxiTypesDo, ScxiPlacedDo, ScxiDoes
<1>4. CASE X!Open \/ X!AskAgain \/ X!Identified \/ X!Opened \/ X!RegisterReadwrite \/ X!Transferred \/ X!Close
  <2>1. failures' = failures /\ stuck' = stuck
    BY <1>4, ScxiTypesCall
  <2>2. ScxiTypes' /\ ScxiPlaced' /\ (Strayed => Strayed') /\ (Untroubled => Untroubled')
    BY <1>4, OpenStep, AskAgainStep, IdentifiedStep, OpenedStep, RegisterStep, TransferredStep, CloseStep, Zenon
  <2> QED BY <1>2, <2>1, <2>2, Zenon
<1> QED BY <1>1, <1>3, <1>4 DEF X!Next

\* A program that uses the chassis finds its lines as they are.
LEMMA ScxiBegins ==
  ASSUME CallsInit
  PROVE  ScxiInv
<1> SUFFICES ASSUME by = "scxi" PROVE ScxiInv
  BY DEF ScxiInv
<1>1. X!Init
  BY DEF CallsInit
<1>2. /\ line \in [SS : {0, 1}, DA : {0, 1}] /\ slot = X!NoSlot /\ addr = [s \in X!Slots |-> 0]
      /\ handle = [s \in X!Slots |-> "closed"] /\ todo = << >> /\ call = X!NoCall /\ id = "none"
      /\ data = << >> /\ uses = 0 /\ failures = 0 /\ stuck = FALSE
  BY <1>1 DEF X!Init
<1>3. call.fn = "none" /\ call.slot = X!NoSlot /\ call \in CallFields
  BY <1>2 DEF X!NoCall, CallFields
<1>4. ScxiTypes
  <2>1. MaxCalls \in Nat /\ MaxFailures \in Nat
    BY ScxiConstants
  <2>2. X!TypeOK
    <3>1. stuck \in BOOLEAN
      BY <1>2, Zenon
    <3>2. uses \in 0 .. MaxCalls /\ failures \in 0 .. MaxFailures
      BY <1>2, <2>1
    <3>3. addr \in [X!Slots -> Int] /\ handle \in [X!Slots -> {"closed", "class 1", "class 2", "unknown", "empty"}]
      BY <1>2
    <3> QED BY <1>2, <1>3, <3>1, <3>2, <3>3 DEF X!TypeOK
  <2>3. data \in Seq(X!Slots \X Int) /\ id \in {"none", "class 1", "class 2", "unknown", "empty"}
    BY <1>2
  <2> QED BY <1>2, <1>3, <2>2, <2>3 DEF ScxiTypes
<1>5. ScxiPlaced
  <2>1. Plan = << >>
    BY <1>3 DEF Plan
  <2>2. Behind = 0 /\ Len(Plan) = 0
    BY <1>2, <2>1 DEF Behind
  <2>3. todo = SubSeq(Plan, Behind + 1, Len(Plan))
    BY <1>2, <2>1, <2>2
  <2> QED BY <1>3, <2>2, <2>3 DEF ScxiPlaced
<1>6. \A s \in X!Slots : handle[s] = "closed"
  BY <1>2
<1>7. Strayed
  BY <1>3, <1>6 DEF Strayed
<1>8. Untroubled
  <2>1. Free
    BY <1>2, <1>6 DEF Free
  <2>2. Opening /\ Asking /\ Parking /\ Transferring
    BY <1>3 DEF Opening, Asking, Parking, Transferring
  <2>3. OthersParked
    BY <1>6 DEF OthersParked
  <2> QED BY <1>6, <2>1, <2>2, <2>3 DEF Untroubled
<1> QED BY <1>2, <1>4, <1>5, <1>7, <1>8 DEF ScxiInv

\* Where nothing failed, every byte of a call is where it should be.
LEMMA TransferDone ==
  ASSUME ScxiTypes, ScxiPlaced, Untroubled
  PROVE  /\ call.fn = "transfer" /\ todo = << >> => data = [k \in 1 .. call.bytes |-> <<call.slot, call.reg>>]
         /\ \A s \in X!Slots : handle[s] \in {"closed", IF Modules[s] = 1 THEN "class 1" ELSE "class 2"}
<1>1. \A s \in X!Slots : handle[s] \in {"closed", IF Modules[s] = 1 THEN "class 1" ELSE "class 2"}
  BY DEF Untroubled, HandleOf
<1>2. ASSUME call.fn = "transfer" /\ todo = << >>
      PROVE  data = [k \in 1 .. call.bytes |-> <<call.slot, call.reg>>]
  <2>1. Behind = Parked + 4
    BY <1>2, AtTheEnd
  <2>2. /\ Prepared \in {5, 6} /\ Filled \in Nat /\ Sent \in Nat /\ Parked \in Nat /\ Parked > Sent /\ Sent >= Filled /\ Filled > Prepared
    BY <1>2, PartSizes
  <2>3. Behind > Filled
    BY ONLY <2>1, <2>2
  <2>4. Transferring
    BY DEF Untroubled
  <2>5. /\ Behind > Filled => Len(data) = call.bytes
        /\ \A k \in DOMAIN data : data[k] = <<call.slot, call.reg>>
    BY <1>2, <2>4, Zenon DEF Transferring
  <2>6. data \in Seq(X!Slots \X Int) /\ Len(data) = call.bytes
    BY <2>3, <2>5 DEF ScxiTypes
  <2>7. DOMAIN data = 1 .. call.bytes /\ data = [k \in DOMAIN data |-> data[k]]
    BY ONLY <2>6
  <2> QED BY ONLY <2>5, <2>7
<1> QED BY <1>1, <1>2

\* What the invariant says of a state.
LEMMA ScxiSays ==
  ASSUME ScxiInv
  PROVE  RightRegister
<1> SUFFICES ASSUME by = "scxi" PROVE X!RightRegister /\ X!LostNotStray /\ X!Released
  BY DEF RightRegister
<1>1. /\ ScxiTypes /\ ScxiPlaced
      /\ failures <= 1 /\ ~stuck => Strayed
      /\ failures = 0 => ~stuck /\ Untroubled
  BY DEF ScxiInv
<1>2. X!RightRegister
  BY <1>1, TransferDone DEF X!RightRegister
<1>3. X!LostNotStray
  <2> SUFFICES ASSUME failures <= 1 /\ ~stuck /\ call.fn = "transfer", NEW k \in DOMAIN data
               PROVE  data[k][1] = call.slot /\ data[k][2] \in {call.reg, X!REG_PARK}
    BY DEF X!LostNotStray
  <2>1. StrayedTransfer
    BY <1>1 DEF Strayed
  <2> QED BY <2>1, Zenon DEF StrayedTransfer
<1>4. X!Released
  <2> SUFFICES ASSUME failures = 0, call = X!NoCall, \E s \in X!Slots : handle[s] # "closed"
               PROVE  /\ line = [SS |-> 1, DA |-> 1] /\ slot = X!NoSlot
                      /\ \A s \in X!Slots : handle[s] # "closed" /\ Modules[s] = 2 => addr[s] = X!REG_PARK
    BY DEF X!Released
  <2>1. Untroubled
    BY <1>1
  <2>2. call.fn = "none" /\ call.slot = X!NoSlot
    BY DEF X!NoCall
  <2>3. X!NoSlot \notin X!Slots
    BY <1>1, ChassisTypes
  <2>4. line = [SS |-> 1, DA |-> 1] /\ slot = X!NoSlot
    BY <2>1, <2>2 DEF Untroubled, Free
  <2>5. \A s \in X!Slots : handle[s] # "closed" /\ Modules[s] = 2 => addr[s] = X!REG_PARK
    BY <2>1, <2>2, <2>3 DEF Untroubled, OthersParked
  <2> QED BY <2>4, <2>5
<1> QED BY <1>2, <1>3, <1>4

\* The invariant holds in every state.
LEMMA ScxiRuns == CallsSpec => []ScxiInv
<1>1. CallsInit => ScxiInv
  BY ScxiBegins
<1>2. ScxiInv /\ [CallsNext]_callsVars => ScxiInv'
  <2> SUFFICES ASSUME ScxiInv, [CallsNext]_callsVars, by' = "scxi" PROVE ScxiInv'
    BY DEF ScxiInv
  <2>1. by' = by /\ (by = "scxi" => X!Next \/ UNCHANGED scxiOnly)
    BY DEF CallsNext, callsVars, builtOnly, Configures, Demonstrates, Bitfields, Chooses, AccessesModules, Transmits
  <2>2. /\ ScxiTypes /\ ScxiPlaced
        /\ failures <= 1 /\ ~stuck => Strayed
        /\ failures = 0 => ~stuck /\ Untroubled
    BY <2>1 DEF ScxiInv
  <2>3. CASE X!Next
    BY <2>2, <2>3, ScxiStep DEF ScxiInv
  <2>4. CASE UNCHANGED scxiOnly
    <3>1. /\ line' = line /\ slot' = slot /\ addr' = addr /\ handle' = handle /\ todo' = todo /\ call' = call /\ id' = id
          /\ data' = data /\ uses' = uses /\ failures' = failures /\ stuck' = stuck
      BY <2>4 DEF scxiOnly
    <3>2. /\ Plan' = Plan /\ Behind' = Behind /\ Prepared' = Prepared /\ Filled' = Filled /\ Sent' = Sent /\ Parked' = Parked
      BY ONLY <3>1 DEF Plan, Behind, Prepared, Filled, Sent, Parked, X!ClassOf
    <3>3. ScxiTypes'
      BY <2>2, <3>1, Zenon DEF ScxiTypes, X!TypeOK
    <3>4. ScxiPlaced'
      BY <2>2, <3>1, <3>2, Zenon DEF ScxiPlaced
    <3>5. Strayed => Strayed'
      BY ONLY <3>1, <3>2, Zenon DEF Strayed, StrayedOpen, StrayedAgain, StrayedTransfer, Chosen, Aimed, IdFits
    <3>6. Untroubled => Untroubled'
      <4>1. Free => Free'
        BY ONLY <3>1, Zenon DEF Free
      <4>2. OthersParked => OthersParked'
        BY ONLY <3>1, Zenon DEF OthersParked
      <4>3. (Opening => Opening') /\ (Asking => Asking')
        BY ONLY <3>1, <3>2, Zenon DEF Opening, Asking
      <4>4. Parking => Parking'
        BY ONLY <3>1, <3>2, Zenon DEF Parking, HandleOf
      <4>5. Transferring => Transferring'
        BY ONLY <3>1, <3>2, Zenon DEF Transferring
      <4>6. (\A s \in X!Slots : handle[s] \in {"closed", HandleOf(s)})
              => (\A s \in X!Slots : handle'[s] \in {"closed", HandleOf(s)})
        BY ONLY <3>1, Zenon
      <4> QED BY ONLY <4>1, <4>2, <4>3, <4>4, <4>5, <4>6, Zenon DEF Untroubled
    <3> QED BY <2>2, <3>1, <3>3, <3>4, <3>5, <3>6, Zenon DEF ScxiInv
  <2> QED BY <2>1, <2>3, <2>4
<1> QED BY <1>1, <1>2, PTL DEF CallsSpec

\* Registers are reached where they are, whichever transfers fail: all bytes
\* of a call and nothing else when none does; after one failure that was not to
\* raise D/A, no byte but to the module and register meant, or to the parked
\* one; and a chassis that was used without failure is left free.
THEOREM RegistersRight == CallsSpec => []RightRegister
<1>1. ScxiInv => RightRegister
  BY ScxiSays
<1> QED BY <1>1, ScxiRuns, PTL

-----------------------------------------------------------------------------
(***************************************************************************)
(* BitLink.  What the receiver has is what was sent; a list that fails     *)
(* leaves the clock as it is, and the next instruction may lower it.       *)
(***************************************************************************)

\* The lines in the course of a list: low before the clock is raised, high
\* after, and high between lists only where a list failed, whose sample is
\* still to come.
LinkLines ==
  /\ insn = 2 => lines.clk = 0
  /\ insn = 3 => lines.clk = 1
  /\ insn = 1 /\ lines.clk = 1 => failed # {} /\ Len(L!Received) + 1 <= next - 1
LinkSent == L!Received \in Seq({0, 1}) /\ failed \subseteq 1 .. next - 1 /\ LinkLines /\ L!BitsArrive
LinkRows == L!RowsFull
\* With the types, and what the property says, this is inductive.
LinkInv == by = "link" => L!TypeOK /\ LinkSent /\ LinkRows

\* The bits are to be proved about; there is a row, and a read brings some.
LEMMA LinkConstants ==
  /\ Message \in Seq({0, 1}) /\ Len(Message) \in Nat /\ (\A k \in 1 .. Len(Message) : Message[k] \in {0, 1})
  /\ Row \in Nat /\ Row > 0 /\ BufSize \in Nat /\ BufSize > 0 /\ MaxPauses \in Nat
<1>1. L!Parameters
  BY CallsAssumption
<1> QED BY <1>1 DEF L!Parameters

\* The instance counts as we do.
LEMMA SameCount == ASSUME NEW T PROVE L!Cardinality(T) = Cardinality(T)
  BY Zenon DEF L!Cardinality, Cardinality

\* What is sampled comes after what was received;
LEMMA SampleIsLast ==
  ASSUME NEW A \in Seq({0, 1}), NEW B \in Seq({0, 1}), NEW E \in Seq({0, 1}), NEW x \in {0, 1}
  PROVE  (A \o B) \o Append(E, x) = Append((A \o B) \o E, x)
<1>1. A \o B \in Seq({0, 1})
  BY ConcatProperties
<1>2. <<x>> \in Seq({0, 1}) /\ Append(E, x) = E \o <<x>>
  BY AppendIsConcat
<1>3. (A \o B) \o E \in Seq({0, 1})
  BY <1>1, ConcatProperties
<1>4. Append((A \o B) \o E, x) = ((A \o B) \o E) \o <<x>>
  BY <1>3, AppendIsConcat
<1>5. ((A \o B) \o E) \o <<x>> = (A \o B) \o (E \o <<x>>)
  BY <1>1, <1>2, ConcatAssociative, SMTT(30)
<1> QED BY <1>2, <1>4, <1>5

\* reading moves it.
LEMMA ReadMoves ==
  ASSUME NEW A \in Seq({0, 1}), NEW E \in Seq({0, 1}), NEW n \in 0 .. Len(E)
  PROVE  /\ SubSeq(E, 1, n) \in Seq({0, 1}) /\ SubSeq(E, n + 1, Len(E)) \in Seq({0, 1})
         /\ (A \o SubSeq(E, 1, n)) \o SubSeq(E, n + 1, Len(E)) = (A \o << >>) \o E
<1>1. SubSeq(E, 1, n) \in Seq({0, 1}) /\ SubSeq(E, n + 1, Len(E)) \in Seq({0, 1})
  OBVIOUS
<1>2. SubSeq(E, 1, n) \o SubSeq(E, n + 1, Len(E)) = E
  <2>1. 1 \in 1 .. Len(E) + 1 /\ n \in 1 - 1 .. Len(E) /\ Len(E) \in n .. Len(E)
    OBVIOUS
  <2>2. SubSeq(E, 1, n) \o SubSeq(E, n + 1, Len(E)) = SubSeq(E, 1, Len(E))
    BY <2>1, ConcatAdjacentSubSeq, Zenon
  <2> QED BY <2>2, SubSeqFull
<1>3. A \o << >> = A
  BY ConcatEmptySeq
<1>4. (A \o SubSeq(E, 1, n)) \o SubSeq(E, n + 1, Len(E)) = A \o (SubSeq(E, 1, n) \o SubSeq(E, n + 1, Len(E)))
  <2> DEFINE P == SubSeq(E, 1, n)
             Q == SubSeq(E, n + 1, Len(E))
  <2>1. P \in Seq({0, 1}) /\ Q \in Seq({0, 1})
    BY <1>1
  <2> HIDE DEF P, Q
  <2>2. (A \o P) \o Q = A \o (P \o Q)
    BY <2>1, ConcatAssociative, SMTT(30)
  <2> QED BY <2>2 DEF P, Q
<1> QED BY <1>1, <1>2, <1>3, <1>4

\* So does printing it.
LEMMA PrintMoves ==
  ASSUME NEW A \in Seq({0, 1}), NEW B \in Seq({0, 1}), B # << >>
  PROVE  /\ Head(B) \in {0, 1} /\ Tail(B) \in Seq({0, 1}) /\ Append(A, Head(B)) \in Seq({0, 1})
         /\ Append(A, Head(B)) \o Tail(B) = A \o B
<1>1. Head(B) \in {0, 1} /\ Tail(B) \in Seq({0, 1}) /\ <<Head(B)>> \in Seq({0, 1})
  BY HeadTailProperties
<1>2. B = <<Head(B)>> \o Tail(B)
  OBVIOUS
<1>3. Append(A, Head(B)) = A \o <<Head(B)>>
  BY <1>1, AppendIsConcat
<1>4. (A \o <<Head(B)>>) \o Tail(B) = A \o (<<Head(B)>> \o Tail(B))
  BY <1>1, ConcatAssociative
<1>5. Append(A, Head(B)) \in Seq({0, 1})
  BY <1>1
<1> QED BY <1>1, <1>2, <1>3, <1>4, <1>5

\* What the sender does leaves the rows.
LEMMA SenderLeaves ==
  ASSUME LinkRows, c' = c /\ printed' = printed /\ breaks' = breaks /\ pauses' = pauses
  PROVE  LinkRows'
  BY DEF LinkRows, L!RowsFull, L!RowLength

\* The numbers of bits and samples.
LEMMA LinkNumbers ==
  ASSUME L!TypeOK, LinkSent
  PROVE  /\ next \in Nat /\ next >= 1 /\ next <= Len(Message) + 1 /\ insn \in {1, 2, 3}
         /\ lines.clk \in {0, 1} /\ lines.dat \in {0, 1} /\ lines \in [clk : {0, 1}, dat : {0, 1}]
         /\ IsFiniteSet(failed) /\ Cardinality(failed) \in Nat /\ next \notin failed
         /\ Len(L!Received) \in Nat /\ Len(L!Received) <= next - 1 /\ next - 1 - Cardinality(failed) <= Len(L!Received)
<1>1. next \in 1 .. Len(Message) + 1 /\ Len(Message) \in Nat /\ insn \in 1 .. 3 /\ lines \in [clk : {0, 1}, dat : {0, 1}]
  BY LinkConstants DEF L!TypeOK
<1>2. next \in Nat /\ next >= 1 /\ next <= Len(Message) + 1 /\ insn \in {1, 2, 3}
  BY ONLY <1>1
<1>3. lines.clk \in {0, 1} /\ lines.dat \in {0, 1}
  BY <1>1
<1>4. failed \subseteq 1 .. next - 1
  BY DEF LinkSent
<1>5. IsFiniteSet(failed) /\ Cardinality(failed) \in Nat
  <2>1. IsFiniteSet(1 .. next - 1)
    BY <1>2, FS_Interval
  <2>2. IsFiniteSet(failed)
    BY <1>4, <2>1, FS_Subset
  <2> QED BY <2>2, FS_CardinalityType
<1>6. next \notin failed
  BY <1>2, <1>4
<1>7. Len(L!Received) \in Nat
  BY DEF LinkSent
<1>8. Len(L!Received) \in next - 1 - Cardinality(failed) .. next - 1
  BY SameCount, Zenon DEF LinkSent, L!BitsArrive
<1>9. Len(L!Received) <= next - 1 /\ next - 1 - Cardinality(failed) <= Len(L!Received)
  BY ONLY <1>2, <1>5, <1>8
<1> QED BY <1>1, <1>2, <1>3, <1>5, <1>6, <1>7, <1>9

\* An instruction of the list, and the sample it may bring.
LEMMA WriteLinesStep ==
  ASSUME L!TypeOK, LinkSent, LinkRows, L!WriteLines
  PROVE  L!TypeOK' /\ LinkSent' /\ LinkRows'
<1> DEFINE x == Message[next]
           R == L!Received
           falls == lines.clk = 1 /\ lines'.clk = 0
<1>0. /\ next \in Nat /\ next >= 1 /\ next <= Len(Message) + 1 /\ insn \in {1, 2, 3}
      /\ lines.clk \in {0, 1} /\ lines.dat \in {0, 1}
      /\ IsFiniteSet(failed) /\ Cardinality(failed) \in Nat /\ next \notin failed
      /\ Len(R) \in Nat /\ Len(R) <= next - 1 /\ next - 1 - Cardinality(failed) <= Len(R)
  BY LinkNumbers
<1>1. /\ failed' = failed /\ buf' = buf /\ c' = c /\ printed' = printed /\ breaks' = breaks /\ pauses' = pauses
      /\ next <= Len(Message) /\ lines' = L!write_bits(x)[insn]
      /\ fifo' = IF falls THEN Append(fifo, lines'.dat) ELSE fifo
  BY DEF L!WriteLines, L!Converts
<1>2. (insn = 3 /\ insn' = 1 /\ next' = next + 1) \/ (insn # 3 /\ insn' = insn + 1 /\ next' = next)
  BY DEF L!WriteLines
<1>3. x \in {0, 1} /\ Len(Message) \in Nat
  BY <1>0, <1>1, LinkConstants
<1>4. /\ lines' \in [clk : {0, 1}, dat : {0, 1}] /\ lines'.dat = x
      /\ insn = 1 => lines'.clk = 0
      /\ insn = 2 => lines'.clk = 1
      /\ insn = 3 => lines'.clk = 0
  <2>1. L!write_bits(x) = <<[clk |-> 0, dat |-> x], [clk |-> 1, dat |-> x], [clk |-> 0, dat |-> x]>>
    BY DEF L!write_bits
  <2> HIDE DEF x
  <2>2. /\ insn = 1 => lines' = [clk |-> 0, dat |-> x]
        /\ insn = 2 => lines' = [clk |-> 1, dat |-> x]
        /\ insn = 3 => lines' = [clk |-> 0, dat |-> x]
    BY <1>1, <2>1
  <2> QED BY ONLY <1>0, <1>3, <2>2
<1>5. fifo \in Seq({0, 1}) /\ buf \in Seq({0, 1}) /\ printed \in Seq({0, 1}) /\ R = (printed \o buf) \o fifo
  BY DEF L!TypeOK, L!Received
<1>6. R \in Seq({0, 1}) /\ R' = IF falls THEN Append(R, x) ELSE R
  <2>1. R \in Seq({0, 1})
    BY DEF LinkSent
  <2>2. R' = (printed \o buf) \o fifo'
    BY <1>1 DEF L!Received
  <2>3. (printed \o buf) \o Append(fifo, x) = Append((printed \o buf) \o fifo, x)
    BY <1>3, <1>5, SampleIsLast
  <2>4. fifo' = IF falls THEN Append(fifo, x) ELSE fifo
    BY <1>1, <1>4
  <2> HIDE DEF falls, R, x
  <2> QED BY ONLY <1>5, <2>1, <2>2, <2>3, <2>4
<1> HIDE DEF R, x
<1>7. /\ R' \in Seq({0, 1}) /\ Len(R') = Len(R) + (IF falls THEN 1 ELSE 0)
      /\ \A k \in 1 .. Len(R) : R'[k] = R[k]
      /\ falls => R'[Len(R) + 1] = x
  BY ONLY <1>3, <1>6
<1>8. L!TypeOK'
  <2>1. next' \in 1 .. Len(Message) + 1 /\ insn' \in 1 .. 3
    BY ONLY <1>0, <1>1, <1>2, <1>3
  <2>2. fifo' \in Seq({0, 1})
    <3> HIDE DEF falls
    <3>1. fifo' = IF falls THEN Append(fifo, x) ELSE fifo
      BY <1>1, <1>4
    <3> QED BY ONLY <1>3, <1>5, <3>1
  <2> QED BY <1>1, <1>4, <2>1, <2>2 DEF L!TypeOK
<1>9. LinkRows'
  BY <1>1, SenderLeaves
<1>10. /\ insn = 2 => lines.clk = 0
       /\ insn = 3 => lines.clk = 1
       /\ insn = 1 /\ lines.clk = 1 => failed # {} /\ Len(R) + 1 <= next - 1
  BY DEF LinkSent, LinkLines, R
<1>11. failed' \subseteq 1 .. next' - 1
  <2>1. failed \subseteq 1 .. next - 1
    BY DEF LinkSent
  <2> QED BY <1>0, <1>1, <1>2, <2>1
<1>12. Len(R') <= next' - 1 /\ next' - 1 - Cardinality(failed') <= Len(R') /\ (falls <=> insn = 3 \/ (insn = 1 /\ lines.clk = 1))
  <2>1. falls <=> insn = 3 \/ (insn = 1 /\ lines.clk = 1)
    BY ONLY <1>0, <1>4, <1>10
  <2>2. failed' = failed
    BY <1>1
  <2> HIDE DEF falls
  <2>3. Cardinality(failed') = Cardinality(failed)
    BY <2>2
  <2>4. Len(R') <= next' - 1
    BY ONLY <1>0, <1>2, <1>7, <1>10, <2>1
  <2>5. next' - 1 - Cardinality(failed) <= Len(R')
    BY ONLY <1>0, <1>2, <1>7, <1>10, <2>1
  <2> QED BY ONLY <2>1, <2>3, <2>4, <2>5
<1>13. LinkLines'
  <2>1. insn' = 1 => lines'.clk # 1
    BY ONLY <1>0, <1>2, <1>4
  <2>2. (insn' = 2 => lines'.clk = 0) /\ (insn' = 3 => lines'.clk = 1)
    BY ONLY <1>0, <1>2, <1>4
  <2> QED BY <2>1, <2>2 DEF LinkLines
<1>14. \A k \in 1 .. next - 1 : (\A f \in failed : k < f) => k <= Len(R) /\ R[k] = Message[k]
  BY DEF LinkSent, L!BitsArrive, R
<1>15. \A k \in 1 .. next' - 1 : (\A f \in failed' : k < f) => k <= Len(R') /\ R'[k] = Message[k]
  <2> SUFFICES ASSUME NEW k \in 1 .. next' - 1, \A f \in failed : k < f PROVE k <= Len(R') /\ R'[k] = Message[k]
    BY <1>1
  <2>1. CASE k <= next - 1
    <3>1. k \in 1 .. next - 1
      BY <1>0, <1>2, <2>1
    <3>2. k <= Len(R) /\ R[k] = Message[k]
      BY <1>14, <3>1
    <3>3. k \in 1 .. Len(R) /\ k <= Len(R')
      <4> HIDE DEF falls
      <4> QED BY ONLY <1>0, <1>7, <3>1, <3>2
    <3> QED BY <1>7, <3>2, <3>3
  <2>2. CASE ~(k <= next - 1)
    <3>1. insn = 3 /\ k = next
      BY ONLY <1>0, <1>2, <2>2, k \in 1 .. next' - 1
    <3>2. \A f \in failed : FALSE
      <4>1. failed \subseteq 1 .. next - 1
        BY DEF LinkSent
      <4>2. next \in Nat
        BY <1>0
      <4> QED BY <3>1, <4>1, <4>2
    <3>3. Len(R) = next - 1
      <4>1. next - 1 >= 1 => next - 1 <= Len(R)
        <5>1. next - 1 >= 1 => next - 1 \in 1 .. next - 1
          BY ONLY <1>0
        <5> QED BY <1>14, <3>2, <5>1
      <4> QED BY ONLY <1>0, <4>1
    <3>4. falls
      BY ONLY <1>12, <3>1
    <3> QED BY <1>0, <1>7, <3>1, <3>3, <3>4 DEF x
  <2> QED BY <2>1, <2>2
<1>16. L!BitsArrive'
  <2>1. Len(R') \in next' - 1 - Cardinality(failed') .. next' - 1
    <3>1. Len(R') \in Nat /\ next' \in Nat /\ Cardinality(failed') \in Nat
      BY <1>0, <1>1, <1>2, <1>7
    <3> QED BY ONLY <1>12, <3>1
  <2> QED BY <1>15, <2>1, SameCount, Zenon DEF L!BitsArrive, R
<1> QED BY <1>7, <1>8, <1>9, <1>11, <1>13, <1>16 DEF LinkSent, R

\* A list that fails: what is lost is at most its own bit.
LEMMA ListFailsStep ==
  ASSUME L!TypeOK, LinkSent, LinkRows, L!ListFails
  PROVE  L!TypeOK' /\ LinkSent' /\ LinkRows'
<1> DEFINE R == L!Received
<1>0. /\ next \in Nat /\ next >= 1 /\ next <= Len(Message) + 1 /\ insn \in {1, 2, 3}
      /\ lines.clk \in {0, 1} /\ lines \in [clk : {0, 1}, dat : {0, 1}]
      /\ IsFiniteSet(failed) /\ Cardinality(failed) \in Nat /\ next \notin failed
      /\ Len(R) \in Nat /\ Len(R) <= next - 1 /\ next - 1 - Cardinality(failed) <= Len(R)
  BY LinkNumbers
<1>1. /\ fifo' = fifo /\ buf' = buf /\ c' = c /\ printed' = printed /\ breaks' = breaks /\ pauses' = pauses
      /\ next <= Len(Message) /\ lines' = lines /\ failed' = failed \union {next} /\ next' = next + 1 /\ insn' = 1
  BY DEF L!ListFails
<1>2. R' = R /\ R \in Seq({0, 1})
  BY <1>1 DEF L!Received, LinkSent
<1>3. Len(Message) \in Nat
  BY LinkConstants
<1>4. failed \subseteq 1 .. next - 1
  BY DEF LinkSent
<1> HIDE DEF R
<1>5. failed' \subseteq 1 .. next' - 1 /\ failed' # {}
  BY <1>0, <1>1, <1>4
<1>6. Cardinality(failed') = Cardinality(failed) + 1
  <2>1. Cardinality(failed \union {next}) = Cardinality(failed) + 1
    BY <1>0, FS_AddElement
  <2> QED BY <1>1, <2>1
<1>7. L!TypeOK'
  <2>1. next' \in 1 .. Len(Message) + 1 /\ insn' \in 1 .. 3
    BY ONLY <1>0, <1>1, <1>3
  <2>2. failed' \subseteq 1 .. Len(Message)
    BY ONLY <1>0, <1>1, <1>3, <1>5
  <2> QED BY <1>0, <1>1, <2>1, <2>2 DEF L!TypeOK
<1>8. LinkLines'
  <2>1. Len(R) + 1 <= next' - 1
    BY ONLY <1>0, <1>1
  <2>2. 1 # 2 /\ 1 # 3
    OBVIOUS
  <2> QED BY <1>1, <1>2, <1>5, <2>1, <2>2 DEF LinkLines, R
<1>9. \A k \in 1 .. next - 1 : (\A f \in failed : k < f) => k <= Len(R) /\ R[k] = Message[k]
  BY Zenon DEF LinkSent, L!BitsArrive, R
<1>10. \A k \in 1 .. next' - 1 : (\A f \in failed' : k < f) => k <= Len(R') /\ R'[k] = Message[k]
  <2> SUFFICES ASSUME NEW k \in 1 .. next' - 1, \A f \in failed' : k < f PROVE k <= Len(R) /\ R[k] = Message[k]
    BY <1>2
  <2>1. k < next /\ \A f \in failed : k < f
    BY <1>1
  <2>2. k \in 1 .. next - 1
    BY ONLY <1>0, <1>1, <2>1, k \in 1 .. next' - 1
  <2> QED BY <1>9, <2>1, <2>2
<1>11. Len(R') \in next' - 1 - Cardinality(failed') .. next' - 1
  <2>1. Len(R) \in next' - 1 - Cardinality(failed') .. next' - 1
    BY ONLY <1>0, <1>1, <1>6
  <2> QED BY <1>2, <2>1
<1>12. L!BitsArrive'
  BY <1>10, <1>11, SameCount, Zenon DEF L!BitsArrive, R
<1>13. LinkRows'
  BY <1>1, SenderLeaves
<1> QED BY <1>2, <1>5, <1>7, <1>8, <1>12, <1>13 DEF LinkSent, R

\* What the receiver does leaves what it has.
LEMMA ReceiverLeaves ==
  ASSUME LinkSent, L!Received' = L!Received,
         next' = next /\ insn' = insn /\ lines' = lines /\ failed' = failed
  PROVE  LinkSent'
<1>1. L!BitsArrive'
  BY Zenon DEF LinkSent, L!BitsArrive
<1> QED BY <1>1 DEF LinkSent, LinkLines

\* A row ends with the last sample printed.
LEMMA RowEnds ==
  ASSUME L!TypeOK, LinkRows, NEW e \in Nat, breaks' = Append(breaks, e),
         NEW l, l \in 1 .. Row, e = l + (IF breaks = << >> THEN 0 ELSE breaks[Len(breaks)])
  PROVE  /\ breaks' \in Seq(Nat) /\ breaks' # << >> /\ breaks'[Len(breaks')] = e
         /\ \A r \in DOMAIN breaks' : L!RowLength(r)' \in 1 .. Row
         /\ l = Row => Cardinality({r \in DOMAIN breaks' : L!RowLength(r)' < Row}) = pauses
         /\ l < Row => Cardinality({r \in DOMAIN breaks' : L!RowLength(r)' < Row}) = pauses + 1
<1>0. PICK n \in Nat : n = Len(breaks)
  BY DEF L!TypeOK
<1>1. breaks \in Seq(Nat) /\ n = Len(breaks) /\ DOMAIN breaks = 1 .. n
  BY <1>0 DEF L!TypeOK
<1>2. /\ breaks' \in Seq(Nat) /\ Len(breaks') = n + 1 /\ DOMAIN breaks' = 1 .. n + 1
      /\ breaks'[n + 1] = e /\ \A k \in 1 .. n : breaks'[k] = breaks[k]
  BY <1>1
<1>3. breaks' # << >> /\ breaks'[Len(breaks')] = e
  BY <1>1, <1>2
<1>4. \A r \in 1 .. n : L!RowLength(r)' = L!RowLength(r)
  <2> SUFFICES ASSUME NEW r \in 1 .. n PROVE L!RowLength(r)' = L!RowLength(r)
    OBVIOUS
  <2>1. r = 1 \/ r - 1 \in 1 .. n
    BY <1>1
  <2> QED BY <1>2, <2>1 DEF L!RowLength
<1>5. L!RowLength(n + 1)' = l
  <2>1. L!RowLength(n + 1)' = e - (IF n + 1 = 1 THEN 0 ELSE breaks'[n])
    <3>1. n + 1 - 1 = n
      BY <1>1
    <3> QED BY <1>2, <3>1 DEF L!RowLength
  <2>2. CASE breaks = << >>
    <3>1. n = 0 /\ e = l
      BY <1>1, <2>2
    <3> QED BY <2>1, <3>1
  <2>3. CASE breaks # << >>
    <3>1. n >= 1
      BY <1>1, <2>3
    <3>2. n + 1 # 1 /\ breaks'[n] = breaks[n] /\ breaks[n] \in Nat
      BY <1>1, <1>2, <3>1
    <3>3. e = l + breaks[n]
      BY <1>1, <2>3
    <3>4. L!RowLength(n + 1)' = e - breaks[n]
      BY <2>1, <3>2
    <3>5. l \in Int /\ breaks[n] \in Int
      BY <3>2
    <3>6. e - breaks[n] = l
      BY ONLY <3>3, <3>5
    <3> QED BY <3>4, <3>6
  <2> QED BY <2>2, <2>3
<1>6. \A r \in 1 .. n : L!RowLength(r) \in 1 .. Row
  BY <1>1 DEF LinkRows, L!RowsFull
<1>7. \A r \in DOMAIN breaks' : L!RowLength(r)' \in 1 .. Row
  <2> SUFFICES ASSUME NEW r \in 1 .. n + 1 PROVE L!RowLength(r)' \in 1 .. Row
    BY <1>2
  <2>1. CASE r = n + 1
    BY <1>5, <2>1
  <2>2. CASE r # n + 1
    <3>1. r \in 1 .. n
      BY <1>1, <2>2
    <3>2. L!RowLength(r) \in 1 .. Row /\ L!RowLength(r)' = L!RowLength(r)
      BY <1>4, <1>6, <3>1
    <3> QED BY <3>2, Zenon
  <2> QED BY <2>1, <2>2
<1> DEFINE Short == {r \in DOMAIN breaks : L!RowLength(r) < Row}
           Now == {r \in DOMAIN breaks' : L!RowLength(r)' < Row}
<1>8. IsFiniteSet(Short) /\ n + 1 \notin Short
  <2>1. IsFiniteSet(1 .. n)
    BY <1>1, FS_Interval
  <2>2. Short \subseteq 1 .. n
    BY <1>1
  <2>3. IsFiniteSet(Short)
    BY <2>1, <2>2, FS_Subset
  <2>4. n + 1 \notin 1 .. n
    BY <1>1
  <2> QED BY <2>2, <2>3, <2>4
<1>9. Cardinality(Short) = pauses /\ pauses \in Nat
  <2>1. pauses \in 0 .. MaxPauses
    BY DEF L!TypeOK
  <2>2. L!Cardinality(Short) = pauses
    BY Zenon DEF LinkRows, L!RowsFull
  <2> QED BY <2>1, <2>2, SameCount
<1>10. l = Row => Now = Short
  <2> SUFFICES ASSUME l = Row PROVE Now = Short
    OBVIOUS
  <2>1. ~(L!RowLength(n + 1)' < Row)
    <3>1. Row \in Nat
      BY LinkConstants
    <3>2. L!RowLength(n + 1)' = Row
      BY <1>5
    <3> QED BY <3>1, <3>2
  <2>2. \A r : r \in 1 .. n + 1 <=> r \in 1 .. n \/ r = n + 1
    BY <1>1
  <2> QED BY <1>1, <1>2, <1>4, <2>1, <2>2, Zenon
<1>11. l < Row => Now = Short \union {n + 1}
  <2> SUFFICES ASSUME l < Row PROVE Now = Short \union {n + 1}
    OBVIOUS
  <2>1. L!RowLength(n + 1)' < Row
    BY <1>5
  <2>2. \A r : r \in 1 .. n + 1 <=> r \in 1 .. n \/ r = n + 1
    BY <1>1
  <2> QED BY <1>1, <1>2, <1>4, <2>1, <2>2, Zenon
<1>12. Cardinality(Short \union {n + 1}) = pauses + 1
  <2> HIDE DEF Short
  <2> QED BY <1>8, <1>9, FS_AddElement
<1> HIDE DEF Short
<1>13. (l = Row => Cardinality(Now) = pauses) /\ (l < Row => Cardinality(Now) = pauses + 1)
  BY <1>9, <1>10, <1>11, <1>12
<1> QED BY <1>2, <1>3, <1>7, <1>13

\* A pause ends a row that is not full.
LEMMA PauseStep ==
  ASSUME L!TypeOK, LinkSent, LinkRows, L!Pause
  PROVE  L!TypeOK' /\ LinkSent' /\ LinkRows'
<1>1. /\ pauses < MaxPauses /\ c > 0 /\ breaks' = Append(breaks, Len(printed)) /\ c' = 0 /\ pauses' = pauses + 1
      /\ next' = next /\ insn' = insn /\ lines' = lines /\ failed' = failed /\ fifo' = fifo /\ buf' = buf /\ printed' = printed
  BY DEF L!Pause
<1>2. c \in 0 .. Row - 1 /\ Row \in Nat /\ Row > 0 /\ MaxPauses \in Nat /\ pauses \in 0 .. MaxPauses /\ Len(printed) \in Nat
  BY LinkConstants DEF L!TypeOK
<1>3. c = Len(printed) - (IF breaks = << >> THEN 0 ELSE breaks[Len(breaks)])
  BY DEF LinkRows, L!RowsFull
<1>4. (IF breaks = << >> THEN 0 ELSE breaks[Len(breaks)]) \in Nat
  BY DEF L!TypeOK
<1>5. PICK l : l = c
  OBVIOUS
<1>6. PICK e : e = Len(printed)
  OBVIOUS
<1>7. e \in Nat /\ l \in 1 .. Row /\ l < Row /\ breaks' = Append(breaks, e)
  BY <1>1, <1>2, <1>5, <1>6
<1>8. e = l + (IF breaks = << >> THEN 0 ELSE breaks[Len(breaks)])
  <2> DEFINE last == IF breaks = << >> THEN 0 ELSE breaks[Len(breaks)]
  <2>1. l = e - last /\ last \in Nat
    BY <1>3, <1>4, <1>5, <1>6
  <2> HIDE DEF last
  <2>2. e = l + last
    BY ONLY <1>7, <2>1
  <2> QED BY <2>2 DEF last
<1>9. /\ breaks' \in Seq(Nat) /\ breaks' # << >> /\ breaks'[Len(breaks')] = e
      /\ \A r \in DOMAIN breaks' : L!RowLength(r)' \in 1 .. Row
      /\ Cardinality({r \in DOMAIN breaks' : L!RowLength(r)' < Row}) = pauses + 1
  BY <1>7, <1>8, RowEnds
<1>10. LinkRows'
  <2>1. L!Cardinality({r \in DOMAIN breaks' : L!RowLength(r)' < Row}) = pauses'
    BY <1>1, <1>9, SameCount
  <2>2. c' = Len(printed') - (IF breaks' = << >> THEN 0 ELSE breaks'[Len(breaks')])
    <3>1. breaks'[Len(breaks')] = Len(printed) /\ breaks' # << >>
      BY <1>6, <1>9
    <3>2. Len(printed) - Len(printed) = 0
      BY <1>2
    <3> QED BY <1>1, <3>1, <3>2
  <2> QED BY <1>9, <2>1, <2>2, Zenon DEF LinkRows, L!RowsFull
<1>11. LinkSent'
  <2>1. L!Received' = L!Received
    BY <1>1 DEF L!Received
  <2> QED BY <1>1, <2>1, ReceiverLeaves
<1>12. L!TypeOK'
  <2>1. c' \in 0 .. Row - 1 /\ pauses' \in 0 .. MaxPauses
    BY ONLY <1>1, <1>2
  <2> QED BY <1>1, <1>9, <2>1 DEF L!TypeOK
<1> QED BY <1>10, <1>11, <1>12

\* read() moves samples.
LEMMA ReadBitsStep ==
  ASSUME L!TypeOK, LinkSent, LinkRows, L!ReadBits
  PROVE  L!TypeOK' /\ LinkSent' /\ LinkRows'
<1>0. PICK n : /\ n = (IF Len(fifo) < BufSize THEN Len(fifo) ELSE BufSize)
               /\ buf' = SubSeq(fifo, 1, n) /\ fifo' = SubSeq(fifo, n + 1, Len(fifo))
  BY DEF L!ReadBits
<1>1. /\ buf = << >> /\ next' = next /\ insn' = insn /\ lines' = lines /\ failed' = failed
      /\ c' = c /\ printed' = printed /\ breaks' = breaks /\ pauses' = pauses
  BY DEF L!ReadBits
<1>2. fifo \in Seq({0, 1}) /\ printed \in Seq({0, 1}) /\ Len(fifo) \in Nat /\ BufSize \in Nat
  BY LinkConstants DEF L!TypeOK
<1>3. n \in 0 .. Len(fifo)
  BY <1>0, <1>2
<1>4. PICK E : E = fifo
  OBVIOUS
<1>5. PICK A : A = printed
  OBVIOUS
<1>6. /\ SubSeq(E, 1, n) \in Seq({0, 1}) /\ SubSeq(E, n + 1, Len(E)) \in Seq({0, 1})
      /\ (A \o SubSeq(E, 1, n)) \o SubSeq(E, n + 1, Len(E)) = (A \o << >>) \o E
  BY <1>2, <1>3, <1>4, <1>5, ReadMoves
<1>7. L!Received' = L!Received
  BY <1>0, <1>1, <1>4, <1>5, <1>6 DEF L!Received
<1>8. LinkSent'
  BY <1>1, <1>7, ReceiverLeaves
<1>9. LinkRows'
  BY <1>1, SenderLeaves
<1>10. L!TypeOK'
  BY <1>0, <1>1, <1>4, <1>6 DEF L!TypeOK
<1> QED BY <1>8, <1>9, <1>10

\* The loop prints one, and ends a row that is full.
LEMMA PrintBitStep ==
  ASSUME L!TypeOK, LinkSent, LinkRows, L!PrintBit
  PROVE  L!TypeOK' /\ LinkSent' /\ LinkRows'
<1>1. /\ buf # << >> /\ printed' = Append(printed, Head(buf)) /\ buf' = Tail(buf)
      /\ next' = next /\ insn' = insn /\ lines' = lines /\ failed' = failed /\ fifo' = fifo /\ pauses' = pauses
  BY DEF L!PrintBit
<1>2. \/ c + 1 >= Row /\ c' = 0 /\ breaks' = Append(breaks, Len(printed) + 1)
      \/ ~(c + 1 >= Row) /\ c' = c + 1 /\ breaks' = breaks
  BY DEF L!PrintBit
<1>3. c \in 0 .. Row - 1 /\ Row \in Nat /\ Row > 0 /\ breaks \in Seq(Nat)
      /\ printed \in Seq({0, 1}) /\ buf \in Seq({0, 1}) /\ fifo \in Seq({0, 1}) /\ Len(printed) \in Nat
  BY LinkConstants DEF L!TypeOK
<1>4. c = Len(printed) - (IF breaks = << >> THEN 0 ELSE breaks[Len(breaks)])
  BY DEF LinkRows, L!RowsFull
<1>5. (IF breaks = << >> THEN 0 ELSE breaks[Len(breaks)]) \in Nat
  BY DEF L!TypeOK
<1>6. /\ buf' \in Seq({0, 1}) /\ printed' \in Seq({0, 1}) /\ Len(printed') = Len(printed) + 1
      /\ L!Received' = L!Received
  <2>1. /\ Head(buf) \in {0, 1} /\ Tail(buf) \in Seq({0, 1}) /\ Append(printed, Head(buf)) \in Seq({0, 1})
        /\ Append(printed, Head(buf)) \o Tail(buf) = printed \o buf
    BY <1>1, <1>3, PrintMoves
  <2>2. L!Received' = (Append(printed, Head(buf)) \o Tail(buf)) \o fifo
    BY <1>1 DEF L!Received
  <2>3. Len(Append(printed, Head(buf))) = Len(printed) + 1
    BY <1>3, <2>1
  <2> QED BY <1>1, <2>1, <2>2, <2>3 DEF L!Received
<1>7. LinkSent'
  BY <1>1, <1>6, ReceiverLeaves
<1>8. CASE c + 1 >= Row /\ c' = 0 /\ breaks' = Append(breaks, Len(printed) + 1)
  <2>1. PICK e : e = Len(printed) + 1
    OBVIOUS
  <2>2. e \in Nat /\ Row \in 1 .. Row /\ breaks' = Append(breaks, e) /\ c + 1 = Row
    BY <1>3, <1>8, <2>1
  <2>3. e = Row + (IF breaks = << >> THEN 0 ELSE breaks[Len(breaks)])
    <3> DEFINE last == IF breaks = << >> THEN 0 ELSE breaks[Len(breaks)]
    <3>1. c = Len(printed) - last /\ last \in Nat
      BY <1>4, <1>5
    <3> HIDE DEF last
    <3>2. e = Row + last
      BY ONLY <1>3, <2>1, <2>2, <3>1
    <3> QED BY <3>2 DEF last
  <2>4. /\ breaks' \in Seq(Nat) /\ breaks' # << >> /\ breaks'[Len(breaks')] = e
        /\ \A r \in DOMAIN breaks' : L!RowLength(r)' \in 1 .. Row
        /\ Cardinality({r \in DOMAIN breaks' : L!RowLength(r)' < Row}) = pauses
    BY <2>2, <2>3, RowEnds
  <2>5. LinkRows'
    <3>1. L!Cardinality({r \in DOMAIN breaks' : L!RowLength(r)' < Row}) = pauses'
      BY <1>1, <2>4, SameCount
    <3>2. c' = Len(printed') - (IF breaks' = << >> THEN 0 ELSE breaks'[Len(breaks')])
      <4>1. breaks'[Len(breaks')] = Len(printed') /\ breaks' # << >>
        BY <1>6, <2>1, <2>4
      <4>2. Len(printed') - Len(printed') = 0 /\ c' = 0
        BY <1>6, <1>8
      <4> QED BY <4>1, <4>2
    <3> QED BY <2>4, <3>1, <3>2, Zenon DEF LinkRows, L!RowsFull
  <2>6. L!TypeOK'
    <3>1. c' \in 0 .. Row - 1
      BY ONLY <1>3, <1>8
    <3> QED BY <1>1, <1>6, <2>4, <3>1 DEF L!TypeOK
  <2> QED BY <1>7, <2>5, <2>6
<1>9. CASE ~(c + 1 >= Row) /\ c' = c + 1 /\ breaks' = breaks
  <2>1. c' \in 0 .. Row - 1
    BY ONLY <1>3, <1>9
  <2>2. L!TypeOK'
    BY <1>1, <1>6, <1>9, <2>1 DEF L!TypeOK
  <2>3. LinkRows'
    <3>1. c' = Len(printed') - (IF breaks' = << >> THEN 0 ELSE breaks'[Len(breaks')])
      <4> DEFINE last == IF breaks = << >> THEN 0 ELSE breaks[Len(breaks)]
      <4>1. c = Len(printed) - last /\ last \in Nat
        BY <1>4, <1>5
      <4> HIDE DEF last
      <4>2. c' = Len(printed') - last
        BY ONLY <1>3, <1>6, <1>9, <4>1
      <4> QED BY <1>9, <4>2 DEF last
    <3>2. \A r : L!RowLength(r)' = L!RowLength(r)
      BY <1>9 DEF L!RowLength
    <3> QED BY <1>1, <1>9, <3>1, <3>2, Zenon DEF LinkRows, L!RowsFull
  <2> QED BY <1>7, <2>2, <2>3
<1> QED BY <1>2, <1>8, <1>9

\* The invariant holds in every state.
LEMMA LinkRuns == CallsSpec => []LinkInv
<1>1. CallsInit => LinkInv
  <2> SUFFICES ASSUME L!Init PROVE L!TypeOK /\ LinkSent /\ LinkRows
    BY DEF CallsInit, LinkInv
  <2>1. /\ next = 1 /\ insn = 1 /\ lines = [clk |-> 0, dat |-> 0] /\ failed = {}
        /\ fifo = << >> /\ buf = << >> /\ c = 0 /\ printed = << >> /\ breaks = << >> /\ pauses = 0
    BY DEF L!Init
  <2>2. L!TypeOK
    <3>1. next \in 1 .. Len(Message) + 1 /\ c \in 0 .. Row - 1 /\ pauses \in 0 .. MaxPauses
      BY <2>1, LinkConstants
    <3> QED BY <2>1, <3>1 DEF L!TypeOK
  <2>3. L!Received = << >>
    <3>1. << >> \in Seq({0, 1})
      OBVIOUS
    <3>2. << >> \o << >> = << >>
      BY <3>1, ConcatEmptySeq
    <3> QED BY <2>1, <3>2 DEF L!Received
  <2>4. Cardinality({}) = 0
    BY FS_EmptySet
  <2>5. L!BitsArrive
    <3>1. L!Cardinality(failed) = 0 /\ Len(L!Received) = 0
      BY <2>1, <2>3, <2>4, SameCount
    <3>2. 0 \in 1 - 1 - 0 .. 1 - 1 /\ \A k \in 1 .. 1 - 1 : FALSE
      OBVIOUS
    <3>3. Len(L!Received) \in next - 1 - L!Cardinality(failed) .. next - 1
      BY <2>1, <3>1, <3>2
    <3> QED BY <2>1, <3>2, <3>3, Zenon DEF L!BitsArrive
  <2>6. LinkSent
    BY <2>1, <2>3, <2>5 DEF LinkSent, LinkLines
  <2>7. LinkRows
    <3>1. DOMAIN breaks = {} /\ c = Len(printed) - 0
      BY <2>1
    <3>2. {r \in DOMAIN breaks : L!RowLength(r) < Row} = {}
      BY <3>1
    <3>3. L!Cardinality({r \in DOMAIN breaks : L!RowLength(r) < Row}) = pauses
      BY <2>1, <2>4, <3>2, SameCount
    <3> QED BY <2>1, <3>1, <3>3, Zenon DEF LinkRows, L!RowsFull
  <2> QED BY <2>2, <2>6, <2>7
<1>2. LinkInv /\ [CallsNext]_callsVars => LinkInv'
  <2> SUFFICES ASSUME LinkInv, [CallsNext]_callsVars, by' = "link" PROVE L!TypeOK' /\ LinkSent' /\ LinkRows'
    BY DEF LinkInv
  <2>1. by' = by /\ (by = "link" => L!Next \/ UNCHANGED linkOnly)
    BY DEF CallsNext, callsVars, builtOnly, Configures, Demonstrates, Bitfields, Chooses, AccessesModules, Transmits
  <2>2. L!TypeOK /\ LinkSent /\ LinkRows
    BY <2>1 DEF LinkInv
  <2>3. CASE L!Next
    BY <2>2, <2>3, WriteLinesStep, ListFailsStep, PauseStep, ReadBitsStep, PrintBitStep DEF L!Next
  <2>4. CASE UNCHANGED linkOnly
    <3>1. /\ next' = next /\ insn' = insn /\ lines' = lines /\ failed' = failed /\ fifo' = fifo /\ buf' = buf
          /\ c' = c /\ printed' = printed /\ breaks' = breaks /\ pauses' = pauses
      BY <2>4 DEF linkOnly
    <3>2. L!Received' = L!Received
      BY <3>1 DEF L!Received
    <3> QED BY <2>2, <3>1, <3>2, SenderLeaves, ReceiverLeaves DEF L!TypeOK
  <2> QED BY <2>1, <2>3, <2>4
<1> QED BY <1>1, <1>2, PTL DEF CallsSpec

\* Whatever lists fail, however the reads cut the samples and wherever a pause
\* falls: the receiver has the message until a list fails, loses at most one
\* bit for each that does, and prints rows that are full but for those that
\* pauses ended.
THEOREM MessageArrives == CallsSpec => []BitsArrive
<1>1. LinkInv => BitsArrive
  BY DEF LinkInv, LinkSent, LinkRows, BitsArrive
<1> QED BY <1>1, LinkRuns, PTL

-----------------------------------------------------------------------------
(***************************************************************************)
(* The kinds of the variables, in every part.                              *)
(***************************************************************************)

\* The call and the settings are of the channels in T.
OfChannels(T) == (at # "idle" => o.ch \in T) /\ \A k \in DOMAIN set : k[2] \in T

\* How a demo stands.
DemoStatus ==
  /\ status \in {"running", "ok", "failed"} /\ (status = "ok" => step = Len(C!Steps))
  /\ at # "idle" => status = "running"

\* What a thread stores is a subdevice the kernel has accepted.
StreamTypes == S!TypeOK /\ \A t \in Threads : pc[t] = "store" => want[t] \in 0 .. NSubd - 1

\* Of each part what the invariants above do not say already.
TypesInv ==
  /\ by \in {"config", "demo", "dio", "stream", "scxi", "link"}
  /\ by = "config" => OfChannels({0, 1})
  /\ by = "demo" => OfChannels(Channels) /\ DemoStatus
  /\ by = "stream" => StreamTypes

\* An instruction sets nothing of other channels.
LEMMA EffectOfChannels ==
  ASSUME NEW T, NEW s, \A k \in DOMAIN s : k[2] \in T, NEW ch \in T, NEW words
  PROVE  \A k \in DOMAIN C!Effect(s, ch, words) : k[2] \in T
<1>1. CASE words[1] = "RESET"
  BY <1>1 DEF C!Effect
<1>2. CASE words[1] # "RESET" /\ words[1] \in C!Gettable
  BY <1>2 DEF C!Effect
<1>3. CASE words[1] # "RESET" /\ words[1] \notin C!Gettable
  <2>1. DOMAIN C!Effect(s, ch, words) = DOMAIN s \union {C!Key(ch, words)}
    BY <1>3 DEF C!Effect
  <2>2. C!Key(ch, words)[2] = ch
    BY DEF C!Key
  <2> QED BY <2>1, <2>2
<1> QED BY <1>1, <1>2, <1>3

\* A step of the library keeps to the channel of the call,
LEMMA LibraryOfChannels ==
  ASSUME NEW T, OfChannels(T), C!Answered \/ C!OtherSource \/ C!Failed \/ C!Return
  PROVE  OfChannels(T)'
<1>1. CASE C!Return
  BY <1>1 DEF C!Return, C!device, OfChannels
<1>2. CASE C!Failed
  BY <1>2 DEF C!Failed, C!Refused, C!Inside, OfChannels
<1>3. CASE C!Answered \/ C!OtherSource
  <2>1. C!Instruct /\ o' = o /\ at # "idle"
    BY <1>3 DEF C!Answered, C!OtherSource, C!Instruct, C!Inside
  <2>2. set' = C!Effect(set, o.ch, C!Data(o)) /\ o.ch \in T
    BY <2>1 DEF C!Instruct, OfChannels
  <2>3. \A k \in DOMAIN C!Effect(set, o.ch, C!Data(o)) : k[2] \in T
    BY <2>2, EffectOfChannels DEF OfChannels
  <2> QED BY <2>1, <2>2, <2>3 DEF OfChannels
<1> QED BY <1>1, <1>2, <1>3

\* and so does the arbitrary program with the others.
LEMMA ConfigOfChannels ==
  ASSUME OfChannels({0, 1}), I!ConfigNext
  PROVE  OfChannels({0, 1})'
<1>1. CASE \E d \in I!Ops : I!Call(d)
  BY <1>1, OpsAsk DEF I!Call, I!device, OfChannels
<1>2. CASE I!Library
  BY <1>2, SameLibrary, LibraryOfChannels DEF I!Library
<1>3. CASE I!OtherSets
  <2>1. PICK d \in I!Ops : set' = I!Effect(set, d.ch, I!Data(d))
    BY <1>3 DEF I!OtherSets
  <2>2. o' = o /\ at' = at
    BY <1>3 DEF I!OtherSets
  <2>3. set' = C!Effect(set, d.ch, C!Data(d)) /\ d.ch \in {0, 1}
    BY <2>1, SameEffect, SameData, OpsAsk
  <2>4. \A k \in DOMAIN C!Effect(set, d.ch, C!Data(d)) : k[2] \in {0, 1}
    BY <2>3, EffectOfChannels DEF OfChannels
  <2> QED BY <2>2, <2>3, <2>4 DEF OfChannels
<1> QED BY <1>1, <1>2, <1>3 DEF I!ConfigNext

\* A step of a demo.
LEMMA DemoTypes ==
  ASSUME AnswersInv, by = "demo", OfChannels(Channels), DemoStatus, C!DemoNext
  PROVE  OfChannels(Channels)' /\ DemoStatus'
<1>1. C!Steps' = C!Steps
  BY DemoStep, StepsSame
<1>2. prog \in DOMAIN C!Demos /\ period \in Nat /\ up \in Nat /\ step \in 0 .. Len(C!Steps)
  BY DemoConstants DEF AnswersInv
<1>3. CASE C!NextCall
  <2>1. /\ status' = status /\ status = "running" /\ at' = "in" /\ set' = set
        /\ o' = C!Steps[step + 1].o /\ step + 1 \in 1 .. Len(C!Steps)
    BY <1>2, <1>3 DEF C!NextCall, C!Call, C!device
  <2>2. C!Steps[step + 1].o.ch \in {0, 1, 2}
    BY <1>2, <2>1, DemosAsk
  <2>3. {0, 1, 2} \subseteq Channels
    BY CallsAssumption DEF C!DemoParameters
  <2> QED BY <1>1, <2>1, <2>2, <2>3 DEF OfChannels, DemoStatus
<1>4. CASE C!InCall
  <2>1. OfChannels(Channels)'
    BY <1>4, LibraryOfChannels DEF C!InCall
  <2>2. status' = status /\ step' = step /\ at # "idle"
    BY <1>4 DEF C!InCall
  <2> QED BY <1>1, <2>1, <2>2 DEF DemoStatus
<1>5. CASE C!LookAt
  <2>1. OfChannels(Channels)'
    BY <1>5, LibraryOfChannels DEF C!LookAt
  <2>2. /\ at' = "idle" /\ step' = step
        /\ status' = (IF ret < 0 /\ C!Steps[step].must THEN "failed" ELSE IF step = Len(C!Steps) THEN "ok" ELSE "running")
    BY <1>5 DEF C!LookAt, C!Return
  <2> QED BY <1>1, <2>1, <2>2 DEF DemoStatus
<1> QED BY <1>3, <1>4, <1>5 DEF C!DemoNext

\* Any number of threads choose subdevices.
LEMMA StreamTypesStep ==
  ASSUME StreamTypes, S!Next
  PROVE  StreamTypes'
<1>1. PICK t \in Threads :
         \/ \E d \in S!Sides, s \in 0 .. NSubd - 1 : S!SetSubdevice(t, d, s)
         \/ S!Ioctl(t)
         \/ S!Store(t)
  BY DEF S!Next
<1>2. CASE \E d \in S!Sides, s \in 0 .. NSubd - 1 : S!SetSubdevice(t, d, s)
  BY <1>2 DEF S!SetSubdevice, S!Returns, S!TypeOK, StreamTypes
<1>3. CASE S!Ioctl(t)
  <2>1. side[t] \in S!Sides
    BY DEF S!TypeOK, StreamTypes
  <2>2. want[t] \in Streams[side[t]] => want[t] \in 0 .. NSubd - 1
    BY <2>1, CallsAssumption DEF S!Parameters
  <2> QED BY <1>3, <2>1, <2>2 DEF S!Ioctl, S!KernelSets, S!Returns, S!TypeOK, StreamTypes
<1>4. CASE S!Store(t)
  BY <1>4 DEF S!Store, S!Returns, S!TypeOK, StreamTypes
<1> QED BY <1>1, <1>2, <1>3, <1>4

\* Every part starts with values of its kinds,
LEMMA TypesBegin == CallsInit => TypesInv
<1> SUFFICES ASSUME CallsInit PROVE TypesInv
  OBVIOUS
<1>1. by \in {"config", "demo", "dio", "stream", "scxi", "link"}
  BY DEF CallsInit
<1>2. ASSUME by = "config" PROVE OfChannels({0, 1})
  BY <1>2 DEF CallsInit, I!ConfigInit, OfChannels
<1>3. ASSUME by = "demo" PROVE OfChannels(Channels) /\ DemoStatus
  <2>1. C!DemoInit
    BY <1>3 DEF CallsInit
  <2>2. PICK s \in C!Leftovers : set = s
    BY <2>1 DEF C!DemoInit, C!ConfigInit
  <2>3. \A k \in DOMAIN set : k[2] = 0
    BY <2>2 DEF C!Leftovers
  <2>4. 0 \in Channels
    BY CallsAssumption DEF C!DemoParameters
  <2> QED BY <2>1, <2>3, <2>4 DEF C!DemoInit, C!ConfigInit, OfChannels, DemoStatus
<1>4. ASSUME by = "stream" PROVE StreamTypes
  BY <1>4, CopyBegins DEF CallsInit, CopyInv, StreamTypes, S!Init
<1> QED BY <1>1, <1>2, <1>3, <1>4 DEF TypesInv

\* and keeps to them.
LEMMA TypesStep == AnswersInv /\ TypesInv /\ [CallsNext]_callsVars => TypesInv'
<1> SUFFICES ASSUME AnswersInv, TypesInv, [CallsNext]_callsVars PROVE TypesInv'
  OBVIOUS
<1>1. by' = by
  BY DEF CallsNext, callsVars, Configures, Demonstrates, Bitfields, Chooses, AccessesModules, Transmits
<1>2. ASSUME by = "config" PROVE OfChannels({0, 1})'
  <2>1. OfChannels({0, 1}) /\ (I!ConfigNext \/ UNCHANGED configOnly)
    BY <1>2 DEF TypesInv, CallsNext, callsVars, Configures, Demonstrates, Bitfields, Chooses, AccessesModules, Transmits
  <2> QED BY <2>1, ConfigOfChannels DEF OfChannels, configOnly
<1>3. ASSUME by = "demo" PROVE OfChannels(Channels)' /\ DemoStatus'
  <2>1. OfChannels(Channels) /\ DemoStatus /\ (C!DemoNext \/ UNCHANGED configOnly)
    BY <1>3 DEF TypesInv, CallsNext, callsVars, Configures, Demonstrates, Bitfields, Chooses, AccessesModules, Transmits
  <2>2. CASE UNCHANGED configOnly
    <3>1. /\ at' = at /\ o' = o /\ set' = set /\ step' = step /\ status' = status
          /\ prog' = prog /\ period' = period /\ up' = up
      BY <2>2 DEF configOnly
    <3>2. C!Steps' = C!Steps
      BY <3>1, StepsSame
    <3> QED BY <2>1, <3>1, <3>2 DEF OfChannels, DemoStatus
  <2> QED BY <1>3, <2>1, <2>2, DemoTypes
<1>4. ASSUME by = "stream" PROVE StreamTypes'
  <2>1. StreamTypes /\ (S!Next \/ UNCHANGED <<current, devinfo, pc, side, want, ret>>)
    BY <1>4 DEF TypesInv, CallsNext, callsVars, streamOnly, Configures, Demonstrates, Bitfields, Chooses, AccessesModules, Transmits
  <2> QED BY <2>1, StreamTypesStep DEF StreamTypes, S!TypeOK
<1> QED BY <1>1, <1>2, <1>3, <1>4 DEF TypesInv

\* Whatever runs, its variables keep to their kinds: among them that each
\* setting has a value and belongs to a channel of the device, that a demo that
\* reports success has made all its calls, and that no counter passes its bound.
THEOREM CallsTypes == CallsSpec => []CallsTypeOK
<1>1. CallsInit => AnswersInv /\ TypesInv
  BY ConfigBegins, TypesBegin
<1>2. (AnswersInv /\ TypesInv) /\ [CallsNext]_callsVars => (AnswersInv /\ TypesInv)'
  BY AnswersStep, TypesStep
<1>3. AnswersInv /\ TypesInv /\ (by = "dio" => BitfieldInv) /\ ScxiInv /\ LinkInv => CallsTypeOK
  <2> SUFFICES ASSUME AnswersInv, TypesInv, by = "dio" => BitfieldInv, ScxiInv, LinkInv PROVE CallsTypeOK
    OBVIOUS
  <2>1. ASSUME Placed, Clean(set), NEW T, OfChannels(T)
        PROVE  /\ ioctls \in {"insn", "insnlist", "trig"} /\ at \in {"idle", "in", "again", "done"}
               /\ applied \in 0 .. 2 /\ others \in 0 .. 1 /\ ret >= -1
               /\ \A k \in DOMAIN set : set[k] # << >> /\ k[2] \in T
    BY <2>1 DEF Placed, Clean, OfChannels
  <2>2. by = "config" => I!ConfigTypeOK
    BY <2>1 DEF AnswersInv, ConfigInv, TypesInv, I!ConfigTypeOK
  <2>3. by = "demo" => C!ConfigTypeOK /\ C!DemoTypeOK
    BY <2>1 DEF AnswersInv, ConfigInv, TypesInv, DemoStatus, C!ConfigTypeOK, C!DemoTypeOK
  <2>4. /\ by = "dio" => D!TypeOK
        /\ by = "scxi" => X!TypeOK
        /\ by = "link" => L!TypeOK
    BY DEF BitfieldInv, ScxiInv, ScxiTypes, LinkInv
  <2> QED BY <2>2, <2>3, <2>4 DEF TypesInv, StreamTypes, CallsTypeOK
<1> QED BY <1>1, <1>2, <1>3, BitfieldRuns, ScxiRuns, LinkRuns, PTL DEF CallsSpec
=============================================================================
