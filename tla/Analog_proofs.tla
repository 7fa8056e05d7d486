---------------------------- MODULE Analog_proofs ----------------------------
(***************************************************************************)
(* Samples of analog inputs and outputs, for every chunk size, number of   *)
(* samples and size of the buffers: what the calls of lib/data.c, lib/sv.c *)
(* and lib/timed.c give their caller; for every range, maximum and period, *)
(* what lib/range.c and lib/timer.c convert them to; and, for every file   *)
(* of calibrations, what lib/calib_yacc.y reads it as and lib/calib.c does *)
(* with it.                                                                *)
(***************************************************************************)
EXTENDS MCAnalog, SequenceTheorems, WellFoundedInduction, FiniteSetTheorems, FunctionTheorems,
        TLAPS

-----------------------------------------------------------------------------
(***************************************************************************)
(* Chunks.                                                                 *)
(***************************************************************************)

\* Division with remainder.
LEMMA DivMod ==
  ASSUME NEW u \in Nat, NEW s \in Nat, s > 0
  PROVE  /\ u \div s \in Nat
         /\ u % s \in 0 .. s - 1
         /\ u = (u \div s) * s + (u % s)
<1> DEFINE k == u \div s
<1>1. k \in Nat
  BY Z3
<1>2. u % s \in 0 .. s - 1
  OBVIOUS
<1>3. u % s = u - k * s
  OBVIOUS
<1> HIDE DEF k
<1>4. k * s \in Nat
  BY <1>1
<1>5. u = k * s + (u % s)
  BY <1>2, <1>3, <1>4
<1> QED
  BY <1>1, <1>2, <1>5 DEF k

\* Points on two sides of the k-th multiple are in different chunks.
LEMMA Apart ==
  ASSUME NEW u \in Nat, NEW v \in Nat, NEW s \in Nat, s > 0, NEW k \in Nat, u < k * s, k * s <= v
  PROVE  u \div s # v \div s
<1> DEFINE a == u \div s
           b == v \div s
<1>1. a \in Nat /\ b \in Nat /\ u % s \in 0 .. s - 1 /\ v % s \in 0 .. s - 1
  BY DivMod
<1>2. u = a * s + (u % s) /\ v = b * s + (v % s)
  BY DivMod
<1> HIDE DEF a, b
<1>3. SUFFICES ASSUME a = b PROVE FALSE
  BY DEF a, b
<1>4. a * s \in Nat /\ k * s \in Nat
  BY <1>1
<1>5. a * s < k * s
  BY <1>1, <1>2, <1>4
<1>6. k * s < a * s + s
  BY <1>1, <1>2, <1>3, <1>4
<1>7. a * s + s = (a + 1) * s
  BY <1>1
<1>8. a < k
  <2>1. ASSUME k <= a PROVE FALSE
    <3>1. k * s <= a * s
      BY <1>1, <2>1
    <3> QED
      BY <1>4, <1>5, <3>1
  <2> QED
    BY <1>1, <2>1
<1>9. (a + 1) * s <= k * s
  <2>1. a + 1 <= k
    BY <1>1, <1>8
  <2> QED
    BY <1>1, <2>1
<1> QED
  BY <1>1, <1>4, <1>6, <1>7, <1>9

\* A multiple leaves no remainder.
LEMMA Multiple ==
  ASSUME NEW k \in Nat, NEW s \in Nat, s > 0
  PROVE  (k * s) % s = 0
<1>1. (k * s) \div s = k
  BY Z3
<1>2. k * s \in Nat
  OBVIOUS
<1>3. k * s = ((k * s) \div s) * s + ((k * s) % s)
  BY <1>2, DivMod
<1>4. (k * s) % s \in Nat
  BY <1>2, DivMod
<1> QED
  BY <1>1, <1>2, <1>3, <1>4

-----------------------------------------------------------------------------
(***************************************************************************)
(* lib/data.c.  What has been read stands at the front of the array, in    *)
(* whole chunks while there is more to read.                               *)
(***************************************************************************)

InsnTypes ==
  /\ insn \in BOOLEAN /\ insnlist \in BOOLEAN /\ lsampl \in BOOLEAN /\ value \in Halves \X Halves
  /\ chan \in Chans /\ settle \in 0 .. Settling /\ conv \in Nat /\ ret \in -1 .. 3
  /\ at \in {"idle", "in", "done"}
  /\ buf \in [1 .. MaxN -> [chan : Chans \union {"unset", "zero", "garbage"}, no : Nat, settled : Nat]]

ReadCall == fn \in {"read", "read_n"}

\* What was asked for is what was read and what is left.
Portions ==
  ReadCall => /\ n \in Nat /\ count \in Nat /\ arg \in 0 .. MaxN /\ n + count = arg
              /\ n > 0 => \E k \in Nat : count = k * MaxChunkSize

\* The samples so far are conversions of the channel, in the order they were
\* made, without a gap within a chunk.
InFront ==
  ReadCall =>
    /\ \A p \in 1 .. count : IF D!Good(p) THEN buf[p].chan = chan /\ buf[p].no <= conv
                             ELSE insnlist => buf[p] = D!Nothing("zero")
    /\ \A p, q \in 1 .. count :
         p < q /\ D!Good(q) =>
           IF D!SameChunk(p, q) THEN D!Good(p) /\ buf[q].no = buf[p].no + q - p
           ELSE D!Good(p) => buf[q].no > buf[p].no

\* Behind them is nothing yet, and nothing of use after a failure.
Behind ==
  /\ at = "idle" => buf = D!Unset /\ n = 0 /\ count = 0 /\ ret = 0 /\ fn = "none"
  /\ at = "in" => ret \in 0 .. 1
  /\ ReadCall /\ ret >= 0 => \A p \in 1 .. MaxN : p > count => buf[p] = D!Nothing("unset")
  /\ ReadCall /\ ret = -1 => \A p \in 1 .. MaxN : p > count => ~D!Good(p)
  /\ ReadCall /\ at = "done" => (ret >= 0 <=> n = 0)
  /\ fn = "delayed" => arg \in 0 .. Settling

\* What the answer of comedi_data_read tells of its one sample.
Told ==
  fn = "read" =>
    /\ arg = 1
    /\ insnlist /\ n = 0 /\ ret >= 0 => (D!Good(1) => ret = 1) /\ (insn /\ ret = 1 => D!Good(1))

InsnInv == InsnTypes /\ Portions /\ InFront /\ Behind /\ Told /\ D!DelayedSettled

\* What the constants are.
LEMMA InsnConstants ==
  /\ MaxChunkSize \in Nat /\ MaxChunkSize > 0 /\ MaxN \in Nat /\ MaxN > 0 /\ Settling \in Nat
  /\ 0 \in Halves
  BY AnalogAssumption DEF D!Parameters

\* The invariant holds at first.
LEMMA InsnBegins ==
  ASSUME D!Init
  PROVE  InsnInv
<1>1. insn \in BOOLEAN /\ insnlist \in BOOLEAN /\ lsampl \in BOOLEAN
  BY DEF D!Init
<1>2. buf \in [1 .. MaxN -> [chan : Chans \union {"unset", "zero", "garbage"}, no : Nat, settled : Nat]]
  BY DEF D!Init, D!Idle, D!Unset, D!Nothing
<1> QED
  BY <1>1, <1>2, InsnConstants DEF D!Init, D!Idle, InsnInv, InsnTypes, Portions, InFront, Behind, Told, ReadCall,
     D!DelayedSettled, D!Done

\* A call begins with an empty array.
LEMMA CallKeeps ==
  ASSUME InsnInv, D!CallRead \/ D!CallReadN \/ D!CallHint \/ D!CallDelayed \/ D!CallWrite
  PROVE  InsnInv'
<1>1. /\ at = "idle" /\ at' = "in" /\ chan' \in Chans
      /\ UNCHANGED <<insn, insnlist, lsampl, settle, conv, count, buf, ret>>
  BY DEF D!CallRead, D!CallReadN, D!CallHint, D!CallDelayed, D!CallWrite, D!Call, D!config, D!device
<1>2. /\ ReadCall' => arg' \in 0 .. MaxN /\ n' = arg'
      /\ fn' = "delayed" => arg' \in 0 .. Settling
      /\ fn' = "read" => arg' = 1 /\ n' = 1
  BY InsnConstants DEF D!CallRead, D!CallReadN, D!CallHint, D!CallDelayed, D!CallWrite, D!Call, ReadCall
<1>3. count = 0 /\ buf = D!Unset /\ ret = 0
  BY <1>1 DEF InsnInv, Behind
<1>4. InsnTypes'
  <2>1. value' \in Halves \X Halves
    BY DEF D!CallRead, D!CallReadN, D!CallHint, D!CallDelayed, D!CallWrite, D!Call, InsnInv, InsnTypes
  <2> QED
    BY <1>1, <2>1 DEF InsnInv, InsnTypes
<1>5. Portions'
  <2>1. 0 = 0 * MaxChunkSize
    BY InsnConstants
  <2> QED
    BY <1>1, <1>2, <1>3, <2>1, InsnConstants DEF Portions
<1>6. InFront'
  BY <1>1, <1>3 DEF InFront
<1>7. Behind'
  BY <1>1, <1>2, <1>3 DEF Behind, D!Unset
<1>8. Told'
  BY <1>2 DEF Told
<1> QED
  BY <1>1, <1>4, <1>5, <1>6, <1>7, <1>8 DEF InsnInv, D!DelayedSettled, D!Done

\* The size of a chunk, and what it leaves.
LEMMA ChunkBounds ==
  ASSUME InsnInv, ReadCall, n > 0
  PROVE  /\ D!ChunkSize \in 1 .. n /\ D!ChunkSize <= MaxChunkSize
         /\ n \in Nat /\ count \in Nat /\ arg \in 0 .. MaxN /\ n + count = arg
         /\ count + D!ChunkSize \in Nat /\ n - D!ChunkSize \in Nat
         /\ n - D!ChunkSize + (count + D!ChunkSize) = arg
         /\ n - D!ChunkSize > 0 => D!ChunkSize = MaxChunkSize
  BY InsnConstants DEF InsnInv, Portions, D!ChunkSize

\* The time on a channel is at most the longest there is.
LEMMA Settles ==
  ASSUME InsnInv
  PROVE  D!SettleOn(chan) \in 0 .. Settling
  BY InsnConstants DEF InsnInv, InsnTypes, D!SettleOn

\* A chunk of which the driver has delivered the first k samples.
LEMMA ChunkKeeps ==
  ASSUME InsnInv, ReadCall, at = "in", n > 0,
         NEW k \in 0 .. D!ChunkSize, NEW rest \in {"unset", "zero", "garbage"},
         insnlist => rest = "zero",
         D!Converts(chan, k, D!SettleOn(chan)), buf' = D!Filled(k, rest), D!NextChunk,
         ret' \in 0 .. 1, insnlist /\ fn = "read" => ret' = D!do_insn(k, D!ChunkSize),
         UNCHANGED <<fn, chan, arg, value, insn, insnlist, lsampl>>
  PROVE  InsnInv'
<1> DEFINE size == D!ChunkSize
           t == D!SettleOn(chan)
<1>1. /\ size \in 1 .. n /\ size <= MaxChunkSize
      /\ n \in Nat /\ count \in Nat /\ arg \in 0 .. MaxN /\ n + count = arg
      /\ count + size \in Nat /\ n - size \in Nat /\ n - size + (count + size) = arg
      /\ n - size > 0 => size = MaxChunkSize
  BY ChunkBounds
<1>2. t \in 0 .. Settling
  BY Settles
<1>3. n' = n - size /\ count' = count + size /\ at' = at /\ settle' = t /\ conv' = conv + k
  BY DEF D!NextChunk, D!Converts
<1>4. ASSUME NEW p \in 1 .. MaxN
      PROVE  buf'[p] = IF p \notin count + 1 .. count + size THEN buf[p]
                       ELSE IF p - count <= k THEN [chan |-> chan, no |-> conv + (p - count), settled |-> t]
                       ELSE [chan |-> rest, no |-> 0, settled |-> 0]
  BY DEF D!Filled, D!Sample, D!Nothing
<1>5. DOMAIN buf' = 1 .. MaxN
  BY DEF D!Filled
<1> HIDE DEF size, t
<1>6. k \in Nat /\ conv \in Nat /\ k <= size /\ chan \in Chans
  BY <1>1 DEF InsnInv, InsnTypes, size
<1>7. InsnTypes'
  <2>1. ASSUME NEW p \in 1 .. MaxN
        PROVE  buf'[p] \in [chan : Chans \union {"unset", "zero", "garbage"}, no : Nat, settled : Nat]
    <3>1. CASE p \notin count + 1 .. count + size
      BY <1>4, <2>1, <3>1 DEF InsnInv, InsnTypes
    <3>2. CASE p \in count + 1 .. count + size /\ p - count <= k
      <4>1. conv + (p - count) \in Nat /\ t \in Nat
        BY <1>1, <1>2, <1>6, <3>2, InsnConstants
      <4> QED
        <5>1. buf'[p] = [chan |-> chan, no |-> conv + (p - count), settled |-> t]
          BY <1>4, <2>1, <3>2
        <5> QED
          BY <1>6, <4>1, <5>1
    <3>3. CASE p \in count + 1 .. count + size /\ ~(p - count <= k)
      <4>1. buf'[p] = [chan |-> rest, no |-> 0, settled |-> 0]
        BY <1>4, <2>1, <3>3
      <4> QED
        BY <4>1
    <3> QED
      BY <3>1, <3>2, <3>3
  <2>2. buf' = [p \in 1 .. MaxN |-> buf'[p]]
    BY DEF D!Filled
  <2>3. buf' \in [1 .. MaxN -> [chan : Chans \union {"unset", "zero", "garbage"}, no : Nat, settled : Nat]]
    BY <2>1, <2>2
  <2>4. conv' \in Nat
    BY <1>3, <1>6
  <2> QED
    BY <1>2, <1>3, <2>3, <2>4 DEF InsnInv, InsnTypes
<1>8. PICK m \in Nat : count = m * MaxChunkSize
  BY DEF InsnInv, Portions
<1>9. Portions'
  <2>1. ASSUME n - size > 0 PROVE count + size = (m + 1) * MaxChunkSize
    BY <1>1, <1>8, <2>1, InsnConstants
  <2>2. m + 1 \in Nat
    OBVIOUS
  <2> QED
    BY <1>1, <1>3, <2>1, <2>2 DEF Portions
<1>10. \A p \in 1 .. count + size : p \in 1 .. MaxN
  BY <1>1, InsnConstants
<1>11. ASSUME NEW p \in 1 .. count PROVE p \in 1 .. count + size /\ buf'[p] = buf[p]
  <2>1. p \in 1 .. count + size /\ p \notin count + 1 .. count + size
    BY <1>1, <1>11
  <2> QED
    BY <1>4, <1>10, <2>1
<1>12. ASSUME NEW p \in 1 .. count + size, p \notin 1 .. count
       PROVE  IF p - count <= k THEN buf'[p].chan = chan /\ buf'[p].no = conv + (p - count) /\ buf'[p].no > 0
              ELSE buf'[p] = [chan |-> rest, no |-> 0, settled |-> 0]
  <2>1. p \in count + 1 .. count + size /\ p \in 1 .. MaxN
    BY <1>1, <1>10, <1>12
  <2>2. conv + (p - count) > 0
    BY <1>1, <1>6, <2>1
  <2>3. CASE p - count <= k
    <3>1. buf'[p] = [chan |-> chan, no |-> conv + (p - count), settled |-> t]
      BY <1>4, <2>1, <2>3
    <3> QED
      BY <2>2, <2>3, <3>1
  <2>4. CASE ~(p - count <= k)
    <3>1. buf'[p] = [chan |-> rest, no |-> 0, settled |-> 0]
      BY <1>4, <2>1, <2>4
    <3> QED
      BY <2>4, <3>1
  <2> QED
    BY <2>3, <2>4
<1>13. InFront'
  <2>1. ASSUME NEW p \in 1 .. count + size
        PROVE  IF D!Good(p)' THEN buf'[p].chan = chan /\ buf'[p].no <= conv + k
               ELSE insnlist => buf'[p] = D!Nothing("zero")
    <3>1. CASE p \in 1 .. count
      <4>1. IF D!Good(p) THEN buf[p].chan = chan /\ buf[p].no <= conv
            ELSE insnlist => buf[p] = D!Nothing("zero")
        BY <3>1 DEF InsnInv, InFront
      <4>2. D!Good(p)' <=> D!Good(p)
        BY <1>11, <3>1 DEF D!Good
      <4>3. buf[p].no \in Nat
        BY <1>10, <2>1 DEF InsnInv, InsnTypes
      <4> QED
        BY <1>6, <1>11, <3>1, <4>1, <4>2, <4>3
    <3>2. CASE p \notin 1 .. count
      <4>1. CASE p - count <= k
        BY <1>1, <1>6, <1>12, <2>1, <3>2, <4>1 DEF D!Good
      <4>2. CASE ~(p - count <= k)
        <5>1. buf'[p] = [chan |-> rest, no |-> 0, settled |-> 0]
          BY <1>12, <2>1, <3>2, <4>2
        <5>2. ~D!Good(p)'
          BY <5>1 DEF D!Good
        <5> QED
          BY <5>1, <5>2 DEF D!Nothing
      <4> QED
        BY <4>1, <4>2
    <3> QED
      BY <3>1, <3>2
  <2>2. ASSUME NEW p \in 1 .. count + size, NEW q \in 1 .. count + size, p < q, D!Good(q)'
        PROVE  IF D!SameChunk(p, q) THEN D!Good(p)' /\ buf'[q].no = buf'[p].no + q - p
               ELSE D!Good(p)' => buf'[q].no > buf'[p].no
    <3>1. CASE q \in 1 .. count
      <4>1. p \in 1 .. count
        BY <1>1, <2>2, <3>1
      <4>2. D!Good(p)' <=> D!Good(p)
        BY <1>11, <4>1 DEF D!Good
      <4>3. D!Good(q)
        BY <1>11, <2>2, <3>1 DEF D!Good
      <4> QED
        BY <1>11, <2>2, <3>1, <4>1, <4>2, <4>3 DEF InsnInv, InFront
    <3>2. CASE q \notin 1 .. count
      <4>1. q - count <= k /\ buf'[q].no = conv + (q - count) /\ q > count
        BY <1>1, <1>12, <2>2, <3>2 DEF D!Good
      <4>2. CASE p \in 1 .. count
        <5>1. ~D!SameChunk(p, q)
          <6>1. p - 1 \in Nat /\ q - 1 \in Nat /\ p - 1 < m * MaxChunkSize /\ m * MaxChunkSize <= q - 1
            BY <1>1, <1>8, <4>1, <4>2
          <6> QED
            BY <6>1, Apart, InsnConstants DEF D!SameChunk
        <5>2. D!Good(p)' => buf'[p].no <= conv
          BY <1>11, <4>2 DEF InsnInv, InFront, D!Good
        <5>3. buf'[p].no \in Nat
          BY <1>10, <1>11, <2>2, <4>2 DEF InsnInv, InsnTypes
        <5> QED
          BY <1>1, <1>6, <4>1, <5>1, <5>2, <5>3
      <4>3. CASE p \notin 1 .. count
        <5>1. p - count <= k
          BY <1>1, <1>6, <2>2, <4>1
        <5>2. buf'[p].no = conv + (p - count) /\ D!Good(p)'
          BY <1>12, <2>2, <4>3, <5>1 DEF D!Good
        <5> QED
          BY <1>1, <1>6, <2>2, <4>1, <5>2
      <4> QED
        BY <4>2, <4>3
    <3> QED
      BY <3>1, <3>2
  <2> QED
    BY <1>3, <2>1, <2>2 DEF InFront, D!SameChunk
<1>14. Behind'
  <2>1. ASSUME NEW p \in 1 .. MaxN, p > count + size PROVE buf'[p] = D!Nothing("unset")
    <3>1. p > count /\ p \notin count + 1 .. count + size
      BY <1>1, <2>1
    <3>2. ret >= 0
      BY DEF InsnInv, Behind
    <3> QED
      BY <1>4, <2>1, <3>1, <3>2 DEF InsnInv, Behind
  <2>2. fn # "delayed"
    BY DEF ReadCall
  <2> QED
    BY <1>3, <2>1, <2>2 DEF Behind
<1>15. Told'
  <2>1. SUFFICES ASSUME fn = "read", insnlist
                 PROVE  arg = 1 /\ (D!Good(1)' => ret' = 1) /\ (insn /\ ret' = 1 => D!Good(1)')
    BY DEF InsnInv, Told
  <2>2. arg = 1 /\ count = 0 /\ size = 1
    BY <1>1, <2>1 DEF InsnInv, Told
  <2>3. 1 \in 1 .. count + size /\ 1 \notin 1 .. count /\ 1 - count = 1
    BY <2>2
  <2>4. D!Good(1)' <=> 1 <= k
    <3>1. CASE 1 <= k
      <4>1. buf'[1].no > 0
        BY <1>12, <2>3, <3>1
      <4> QED
        BY <3>1, <4>1 DEF D!Good
    <3>2. CASE ~(1 <= k)
      <4>1. buf'[1] = [chan |-> rest, no |-> 0, settled |-> 0]
        BY <1>12, <2>3, <3>2
      <4> QED
        BY <3>2, <4>1 DEF D!Good
    <3> QED
      BY <3>1, <3>2
  <2>5. ret' = (IF insn THEN k ELSE 1)
    BY <2>1, <2>2 DEF D!do_insn, size
  <2> QED
    BY <1>6, <2>2, <2>4, <2>5
<1> QED
  BY <1>3, <1>7, <1>9, <1>13, <1>14, <1>15 DEF InsnInv, D!DelayedSettled, D!Done

\* A read that fails leaves nothing of use behind what it had.
LEMMA FailureKeeps ==
  ASSUME InsnInv, ReadCall, at = "in", n > 0,
         buf' = D!Filled(0, "zero") \/ UNCHANGED buf, D!Answer(-1),
         UNCHANGED <<D!device, D!config>>
  PROVE  InsnInv'
<1>1. /\ D!ChunkSize \in 1 .. n /\ n \in Nat /\ count \in Nat /\ arg \in 0 .. MaxN /\ n + count = arg
  BY ChunkBounds
<1>2. D!SettleOn(chan) \in 0 .. Settling
  BY Settles
<1>3. /\ at' = "done" /\ ret' = -1 /\ UNCHANGED <<fn, chan, arg, value, n, count, insn, insnlist, lsampl, settle, conv>>
  BY DEF D!Answer, D!call, D!device, D!config
<1>4. ASSUME NEW p \in 1 .. MaxN
      PROVE  \/ buf'[p] = buf[p]
             \/ buf'[p] = [chan |-> "zero", no |-> 0, settled |-> 0] /\ p > count
  <2>1. CASE UNCHANGED buf
    BY <2>1
  <2>2. CASE buf' = D!Filled(0, "zero") /\ p \notin count + 1 .. count + D!ChunkSize
    BY <1>4, <2>2 DEF D!Filled
  <2>3. CASE buf' = D!Filled(0, "zero") /\ p \in count + 1 .. count + D!ChunkSize
    <3>1. p > count /\ ~(p - count <= 0)
      BY <1>1, <2>3
    <3> QED
      BY <1>4, <2>3, <3>1 DEF D!Filled, D!Nothing
  <2> QED
    BY <2>1, <2>2, <2>3
<1>5. buf' = [p \in 1 .. MaxN |-> buf'[p]]
  BY DEF D!Filled, InsnInv, InsnTypes
<1>6. InsnTypes'
  <2>1. ASSUME NEW p \in 1 .. MaxN
        PROVE  buf'[p] \in [chan : Chans \union {"unset", "zero", "garbage"}, no : Nat, settled : Nat]
    BY <1>4, <2>1 DEF InsnInv, InsnTypes
  <2> QED
    BY <1>3, <1>5, <2>1 DEF InsnInv, InsnTypes
<1>7. \A p \in 1 .. count : buf'[p] = buf[p] /\ (D!Good(p)' <=> D!Good(p))
  <2>1. \A p \in 1 .. count : p \in 1 .. MaxN /\ ~(p > count)
    BY <1>1, InsnConstants
  <2> QED
    BY <1>4, <2>1 DEF D!Good
<1>8. InFront'
  <2>1. ASSUME NEW p \in 1 .. count
        PROVE  IF D!Good(p)' THEN buf'[p].chan = chan /\ buf'[p].no <= conv
               ELSE insnlist => buf'[p] = D!Nothing("zero")
    <3>1. IF D!Good(p) THEN buf[p].chan = chan /\ buf[p].no <= conv
          ELSE insnlist => buf[p] = D!Nothing("zero")
      BY <2>1 DEF InsnInv, InFront
    <3> QED
      BY <1>7, <2>1, <3>1
  <2>2. ASSUME NEW p \in 1 .. count, NEW q \in 1 .. count, p < q, D!Good(q)'
        PROVE  IF D!SameChunk(p, q) THEN D!Good(p)' /\ buf'[q].no = buf'[p].no + q - p
               ELSE D!Good(p)' => buf'[q].no > buf'[p].no
    BY <1>7, <2>2 DEF InsnInv, InFront
  <2> QED
    BY <1>3, <2>1, <2>2 DEF InFront, D!SameChunk
<1>9. ASSUME NEW p \in 1 .. MaxN, p > count PROVE ~D!Good(p)'
  <2>1. buf[p] = D!Nothing("unset")
    BY <1>9 DEF InsnInv, Behind
  <2> QED
    BY <1>4, <1>9, <2>1 DEF D!Good, D!Nothing
<1>10. Portions' /\ Behind'
  BY <1>1, <1>3, <1>9 DEF InsnInv, Portions, Behind, ReadCall
<1>11. Told'
  BY <1>3 DEF InsnInv, Told
<1> QED
  BY <1>3, <1>6, <1>8, <1>10, <1>11 DEF InsnInv, D!DelayedSettled, D!Done, ReadCall

\* A step of a read.
LEMMA ReadKeeps ==
  ASSUME InsnInv, D!ReadInsn \/ D!ReadTrig
  PROVE  InsnInv'
<1>1. /\ at = "in" /\ ReadCall /\ n > 0
      /\ UNCHANGED <<fn, chan, arg, value, insn, insnlist, lsampl>>
      /\ UNCHANGED D!config
  BY DEF D!ReadInsn, D!ReadTrig, D!Reading, D!In, ReadCall, D!call, D!config
<1>2. D!ChunkSize \in 0 .. D!ChunkSize /\ D!ChunkSize \in Nat
  BY <1>1, ChunkBounds
<1>3. CASE /\ D!ReadInsn
           /\ \E k \in 0 .. D!ChunkSize :
                /\ D!Converts(chan, k, D!SettleOn(chan)) /\ buf' = D!Filled(k, "zero")
                /\ D!NextChunk
                /\ ret' = (IF fn = "read" THEN D!do_insn(k, D!ChunkSize) ELSE 0)
  <2>1. PICK k \in 0 .. D!ChunkSize :
          /\ D!Converts(chan, k, D!SettleOn(chan)) /\ buf' = D!Filled(k, "zero")
          /\ D!NextChunk
          /\ ret' = (IF fn = "read" THEN D!do_insn(k, D!ChunkSize) ELSE 0)
    BY <1>3
  <2>2. ret' \in 0 .. 1
    <3>1. CASE fn = "read"
      <4>1. D!ChunkSize = 1
        BY <1>1, <3>1, ChunkBounds DEF InsnInv, Told
      <4> QED
        BY <2>1, <3>1, <4>1 DEF D!do_insn
    <3>2. CASE fn # "read"
      BY <2>1, <3>2
    <3> QED
      BY <3>1, <3>2
  <2>3. fn = "read" => ret' = D!do_insn(k, D!ChunkSize)
    BY <2>1
  <2> QED
    BY <1>1, <2>1, <2>2, <2>3, ChunkKeeps
<1>4. CASE /\ D!ReadTrig
           /\ \E k \in 0 .. D!ChunkSize :
                /\ D!Converts(chan, k, D!SettleOn(chan))
                /\ buf' = D!Filled(k, IF lsampl THEN "unset" ELSE "garbage")
                /\ D!NextChunk /\ UNCHANGED ret
  <2>1. PICK k \in 0 .. D!ChunkSize :
          /\ D!Converts(chan, k, D!SettleOn(chan))
          /\ buf' = D!Filled(k, IF lsampl THEN "unset" ELSE "garbage")
          /\ D!NextChunk /\ UNCHANGED ret
    BY <1>4
  <2>2. ~insnlist
    BY <1>4 DEF D!ReadTrig
  <2>3. (IF lsampl THEN "unset" ELSE "garbage") \in {"unset", "zero", "garbage"}
    OBVIOUS
  <2>4. ret' \in 0 .. 1
    BY <1>1, <2>1 DEF InsnInv, Behind
  <2> QED
    BY <1>1, <2>1, <2>2, <2>3, <2>4, ChunkKeeps
<1>5. CASE (buf' = D!Filled(0, "zero") \/ UNCHANGED buf) /\ D!Answer(-1) /\ UNCHANGED D!device
  BY <1>1, <1>5, FailureKeeps
<1> QED
  BY <1>3, <1>4, <1>5 DEF D!ReadInsn, D!ReadTrig

\* The first element of an array is written.
LEMMA PutFirst ==
  ASSUME NEW K, NEW f \in [1 .. MaxN -> K], NEW x \in K
  PROVE  [f EXCEPT ![1] = x] \in [1 .. MaxN -> K]
  OBVIOUS

\* The end of a read, and the calls that are one step.
LEMMA AnswerKeeps ==
  ASSUME InsnInv, D!ReadDone \/ D!Hint \/ D!Delayed \/ D!DelayedStops \/ D!Write
  PROVE  InsnInv'
<1>1. at = "in" /\ at' = "done" /\ UNCHANGED <<fn, chan, arg, value, n, count, insn, insnlist, lsampl>>
  BY DEF D!ReadDone, D!Hint, D!Delayed, D!DelayedStops, D!Write, D!In, D!Answer, D!call, D!config
<1>2. D!SettleOn(chan) \in 0 .. Settling
  BY Settles
<1>3. CASE D!ReadDone
  <2>1. n = 0 /\ ReadCall /\ UNCHANGED <<ret, buf, settle, conv>>
    BY <1>3 DEF D!ReadDone, D!In, ReadCall, D!Answer, D!device
  <2> QED
    BY <1>1, <2>1 DEF InsnInv, InsnTypes, Portions, InFront, Behind, Told, ReadCall, D!Good, D!SameChunk,
       D!DelayedSettled, D!Done
<1>4. CASE D!Hint
  <2>1. fn = "hint" /\ ret' = 0 /\ UNCHANGED <<buf, settle, conv>>
    BY <1>4 DEF D!Hint, D!In, D!Answer, D!device
  <2> QED
    BY <1>1, <2>1 DEF InsnInv, InsnTypes, Portions, InFront, Behind, Told, ReadCall, D!DelayedSettled, D!Done
<1>5. CASE D!Write
  <2>1. fn = "write" /\ ret' \in -1 .. 1 /\ UNCHANGED <<buf, settle, conv>>
    BY <1>5 DEF D!Write, D!In, D!Answer, D!device, D!do_insn
  <2> QED
    BY <1>1, <2>1 DEF InsnInv, InsnTypes, Portions, InFront, Behind, Told, ReadCall, D!DelayedSettled, D!Done
<1>6. ASSUME fn = "delayed"
      PROVE  arg \in 0 .. Settling /\ D!Waited \in 0 .. Settling /\ D!Waited >= arg
  <2>1. arg \in 0 .. Settling
    BY <1>6 DEF InsnInv, Behind
  <2> QED
    BY <1>2, <2>1, InsnConstants DEF D!Waited
<1>7. CASE D!DelayedStops
  <2>1. fn = "delayed" /\ buf' = [buf EXCEPT ![1] = D!Nothing("zero")]
    BY <1>7 DEF D!DelayedStops, D!In
  <2>2. ret' \in {-1, 1, 2, 3} /\ settle' \in {settle, D!SettleOn(chan), D!Waited} /\ conv' \in {conv, conv + 0}
    BY <1>7 DEF D!DelayedStops, D!Answer, D!device, D!Converts
  <2>3. settle' \in 0 .. Settling /\ conv' \in Nat /\ ret' \in -1 .. 3
    BY <1>2, <1>6, <2>1, <2>2 DEF InsnInv, InsnTypes
  <2>4. buf' \in [1 .. MaxN -> [chan : Chans \union {"unset", "zero", "garbage"}, no : Nat, settled : Nat]]
    <3>1. D!Nothing("zero") \in [chan : Chans \union {"unset", "zero", "garbage"}, no : Nat, settled : Nat]
      BY DEF D!Nothing
    <3> QED
      BY <2>1, <3>1, PutFirst DEF InsnInv, InsnTypes
  <2>5. InsnTypes'
    BY <1>1, <2>3, <2>4 DEF InsnInv, InsnTypes
  <2>6. D!DelayedSettled'
    <3>1. buf'[1] = D!Nothing("zero")
      BY <2>1, InsnConstants DEF InsnInv, InsnTypes
    <3> QED
      BY <3>1 DEF D!DelayedSettled, D!Good, D!Nothing
  <2> QED
    BY <1>1, <1>6, <2>1, <2>5, <2>6 DEF InsnInv, Portions, InFront, Behind, Told, ReadCall
<1>8. CASE D!Delayed
  <2>1. /\ fn = "delayed" /\ ret' = 3 /\ settle' = D!Waited /\ conv' = conv + 1
        /\ buf' = [buf EXCEPT ![1] = [chan |-> chan, no |-> conv + 1, settled |-> D!Waited]]
    BY <1>8 DEF D!Delayed, D!In, D!Answer, D!Converts, D!Sample
  <2>2. buf'[1] = [chan |-> chan, no |-> conv + 1, settled |-> D!Waited] /\ conv \in Nat /\ chan \in Chans
    BY <2>1, InsnConstants DEF InsnInv, InsnTypes
  <2>3. InsnTypes'
    <3>1. buf' \in [1 .. MaxN -> [chan : Chans \union {"unset", "zero", "garbage"}, no : Nat, settled : Nat]]
      <4>1. [chan |-> chan, no |-> conv + 1, settled |-> D!Waited]
              \in [chan : Chans \union {"unset", "zero", "garbage"}, no : Nat, settled : Nat]
        BY <1>6, <2>1, <2>2
      <4> QED
        BY <2>1, <4>1, PutFirst DEF InsnInv, InsnTypes
    <3> QED
      BY <1>1, <1>6, <2>1, <2>2, <3>1 DEF InsnInv, InsnTypes
  <2>4. D!DelayedSettled'
    <3>1. D!Good(1)' /\ buf'[1].chan = chan /\ buf'[1].settled >= arg
      BY <1>6, <2>1, <2>2 DEF D!Good
    <3> QED
      BY <1>1, <2>1, <3>1 DEF D!DelayedSettled
  <2> QED
    BY <1>1, <1>6, <2>1, <2>3, <2>4 DEF InsnInv, Portions, InFront, Behind, Told, ReadCall
<1> QED
  BY <1>3, <1>4, <1>5, <1>7, <1>8

\* Between and beside the calls.
LEMMA BesideKeeps ==
  ASSUME InsnInv, D!Looked \/ D!Tick \/ D!OtherRead
  PROVE  InsnInv'
<1>1. CASE D!Looked
  <2>1. /\ at' = "idle" /\ fn' = "none" /\ n' = 0 /\ count' = 0 /\ buf' = D!Unset /\ ret' = 0 /\ conv' = 0
        /\ value' = <<0, 0>>
        /\ UNCHANGED <<chan, settle, insn, insnlist, lsampl>>
    BY <1>1 DEF D!Looked, D!config
  <2>2. buf' \in [1 .. MaxN -> [chan : Chans \union {"unset", "zero", "garbage"}, no : Nat, settled : Nat]]
    BY <2>1 DEF D!Unset, D!Nothing
  <2> QED
    BY <2>1, <2>2, InsnConstants DEF InsnInv, InsnTypes, Portions, InFront, Behind, Told, ReadCall,
       D!DelayedSettled, D!Done
<1>2. CASE D!Tick \/ D!OtherRead
  <2>1. /\ UNCHANGED <<at, fn, chan, arg, value, n, count, buf, ret, insn, insnlist, lsampl>>
        /\ settle' \in 0 .. Settling /\ conv' \in Nat /\ conv' >= conv
    <3>1. CASE D!Tick
      BY <3>1, InsnConstants DEF D!Tick, InsnInv, InsnTypes, D!config, D!call
    <3>2. CASE D!OtherRead
      <4>1. PICK ch \in Chans : D!Converts(ch, 1, D!SettleOn(ch))
        BY <3>2 DEF D!OtherRead
      <4> QED
        BY <3>2, <4>1, InsnConstants DEF D!OtherRead, D!Converts, D!SettleOn, InsnInv, InsnTypes, D!config, D!call
    <3> QED
      BY <1>2, <3>1, <3>2
  <2>2. InFront'
    <3>1. SUFFICES ASSUME ReadCall
                   PROVE  InFront'
      BY <2>1 DEF InFront, ReadCall
    <3>2. ASSUME NEW p \in 1 .. count
          PROVE  IF D!Good(p) THEN buf[p].chan = chan /\ buf[p].no <= conv'
                 ELSE insnlist => buf[p] = D!Nothing("zero")
      <4>1. p \in 1 .. MaxN
        BY <3>1, <3>2, InsnConstants DEF InsnInv, Portions
      <4>2. buf[p].no \in Nat /\ conv \in Nat
        BY <4>1 DEF InsnInv, InsnTypes
      <4>3. IF D!Good(p) THEN buf[p].chan = chan /\ buf[p].no <= conv
            ELSE insnlist => buf[p] = D!Nothing("zero")
        BY <3>1, <3>2 DEF InsnInv, InFront
      <4> QED
        BY <2>1, <4>2, <4>3
    <3> QED
      BY <2>1, <3>1, <3>2 DEF InsnInv, InFront, ReadCall, D!Good, D!SameChunk
  <2> QED
    BY <2>1, <2>2 DEF InsnInv, InsnTypes, Portions, Behind, Told, ReadCall, D!Good, D!DelayedSettled, D!Done
<1> QED
  BY <1>1, <1>2

\* Every step keeps the invariant.
LEMMA InsnStep ==
  ASSUME InsnInv, D!Next
  PROVE  InsnInv'
  BY CallKeeps, ReadKeeps, AnswerKeeps, BesideKeeps DEF D!Next

\* It says what a read has done when it answers.
LEMMA InsnMeans ==
  ASSUME InsnInv
  PROVE  D!ReadsInOrder /\ D!FailureKeepsChunks /\ D!DelayedSettled
<1>1. D!ReadsInOrder
  <2>1. SUFFICES ASSUME ReadCall, at = "done", ret >= 0
                 PROVE  D!ReadsInOrder
    BY DEF D!ReadsInOrder, D!Done, ReadCall
  <2>2. n = 0 /\ count = arg
    BY <2>1 DEF InsnInv, Behind, Portions
  <2>3. D!InOrder(arg)
    BY <2>1, <2>2 DEF InsnInv, InFront, D!InOrder
  <2>4. \A p \in 1 .. MaxN : p > arg => buf[p] = D!Nothing("unset")
    BY <2>1, <2>2 DEF InsnInv, Behind
  <2>5. fn = "read" /\ insnlist => (D!Good(1) => ret = 1) /\ (insn /\ ret = 1 => D!Good(1))
    BY <2>1, <2>2 DEF InsnInv, Told
  <2> QED
    BY <2>3, <2>4, <2>5 DEF D!ReadsInOrder
<1>2. D!FailureKeepsChunks
  <2>1. SUFFICES ASSUME ReadCall, at = "done", ret = -1
                 PROVE  D!FailureKeepsChunks
    BY DEF D!FailureKeepsChunks, D!Done, ReadCall
  <2>2. n \in Nat /\ n > 0 /\ count \in Nat /\ count < arg /\ arg \in 0 .. MaxN
    BY <2>1 DEF InsnInv, Behind, Portions
  <2>3. count % MaxChunkSize = 0
    BY <2>1, <2>2, Multiple, InsnConstants DEF InsnInv, Portions
  <2>4. \A p \in 1 .. MaxN : D!Good(p) => p <= count
    BY <2>1, <2>2, InsnConstants DEF InsnInv, Behind
  <2>5. D!InOrder(count)
    BY <2>1 DEF InsnInv, InFront, D!InOrder
  <2> QED
    BY <2>2, <2>3, <2>4, <2>5 DEF D!FailureKeepsChunks
<1> QED
  BY <1>1, <1>2 DEF InsnInv

\* Where the calls of lib/data.c run.
LEMMA InsnRuns == AnalogSpec => [](by = "insn" => InsnInv)
<1>1. AnalogSpec => AnalogInit /\ [][AnalogNext]_analogVars
  BY PTL DEF AnalogSpec
<1>2. AnalogInit => (by = "insn" => InsnInv)
  BY InsnBegins DEF AnalogInit
<1>3. ASSUME by = "insn" => InsnInv, [AnalogNext]_analogVars PROVE (by = "insn" => InsnInv)'
  <2>1. CASE AnalogNext
    <3>1. by' = by /\ (by = "insn" => D!Next)
      BY <2>1 DEF AnalogNext, UsesInsn, UsesSlow, Converts, Calibrates
    <3> QED
      BY <1>3, <3>1, InsnStep
  <2>2. CASE UNCHANGED analogVars
    <3>1. UNCHANGED <<by, at, fn, n, ret, insn, insnlist, lsampl, settle, conv, chan, arg, value, count, buf>>
      BY <2>2 DEF analogVars, common, insnOnly
    <3> QED
      BY <1>3, <3>1 DEF InsnInv, InsnTypes, Portions, InFront, Behind, Told, ReadCall, D!Good, D!SameChunk,
         D!DelayedSettled, D!Done
  <2> QED
    BY <1>3, <2>1, <2>2
<1> QED
  BY <1>1, <1>2, <1>3, PTL

\* comedi_data_read, read_n and read_delayed store conversions of the channel
\* asked for, in order, whatever chunks they read them in, however few samples
\* the driver gives of one, and whoever reads in between; what it does not give
\* is a zero by instructions.  A failure keeps the chunks there were; a delayed
\* read stores a conversion that has settled and answers 3, or stores a zero.
THEOREM SamplesInOrder == AnalogSpec => []SamplesArrive
<1>1. (by = "insn" => InsnInv) => SamplesArrive
  BY InsnMeans DEF SamplesArrive
<1> QED
  BY <1>1, InsnRuns, PTL

\* A write either leaves the device alone or writes the value, but for the two
\* ways in which COMEDI_TRIG changes one, and answers 1; when it answers 1 it
\* has written, unless the answer is that of a list of one instruction: for
\* every value and step.
THEOREM WritesWhole == AnalogSpec => WriteArrives
<1>1. AnalogSpec => AnalogInit /\ [][AnalogNext]_analogVars
  BY PTL DEF AnalogSpec
<1>2. (by = "insn" => InsnInv) /\ [AnalogNext]_analogVars => [by = "insn" => D!WriteArrivesStep]_analogVars
  <2>1. SUFFICES ASSUME by = "insn", InsnInv, AnalogNext, D!In("write"), at' = "done"
                 PROVE  D!WriteArrivesStep
    BY DEF D!WriteArrivesStep
  <2>2. D!Next
    BY <2>1 DEF AnalogNext, UsesSlow, Converts, Calibrates, UsesInsn
  <2>3. D!Write
    BY <2>1, <2>2 DEF D!Next, D!CallRead, D!CallReadN, D!CallHint, D!CallDelayed, D!CallWrite, D!Call, D!ReadInsn,
       D!ReadTrig, D!Reading, D!ReadDone, D!Hint, D!Delayed, D!DelayedStops, D!Looked, D!Tick, D!OtherRead, D!In
  <2>4. UNCHANGED <<insn, insnlist, lsampl, bigEndian, value>>
    BY <2>3 DEF D!Write, D!Answer, D!config, D!call
  <2> DEFINE sent == IF insnlist \/ (lsampl /\ ~bigEndian) THEN value
                     ELSE IF lsampl THEN <<value[2], value[1]>> ELSE <<0, value[2]>>
  <2>5. value = <<value[1], value[2]>>
    BY <2>1 DEF InsnInv, InsnTypes
  <2>6. sent = (IF insnlist THEN value ELSE D!Received(D!TrigData))
    <3>1. lsampl /\ ~bigEndian => D!Received(D!TrigData) = <<value[1], value[2]>>
      BY DEF D!Received, D!TrigData
    <3> QED
      BY <2>5, <3>1 DEF D!Received, D!TrigData
  <2>7. dac' = dac \/ (ret' = 1 /\ dac' = sent)
    BY <2>3, <2>6 DEF D!Write, D!Answer, D!do_insn, D!device
  <2>8. ret' = 1 /\ (insn \/ ~insnlist) => dac' = sent
    BY <2>3, <2>6 DEF D!Write, D!Answer, D!do_insn, D!device
  <2> HIDE DEF sent
  <2> QED
    BY <2>7, <2>8 DEF D!WriteArrivesStep, sent
<1> QED
  BY <1>1, <1>2, InsnRuns, PTL DEF WriteArrives

-----------------------------------------------------------------------------
(***************************************************************************)
(* lib/sv.c and lib/timed.c.                                               *)
(***************************************************************************)

\* The program has called comedi_sv_update since it changed the channel.
SvTypes ==
  /\ sv \in [subdevice : {"short", "long"}, chan : Int, maxdata : Int, n : 0 .. MaxN]
  /\ fresh => sv.maxdata = S!Maxdata(sv.chan)
  /\ at \in {"idle", "in", "done"} /\ n \in Nat /\ bytes \in Nat /\ trig \in BOOLEAN
  /\ val \in [1 .. MaxN -> Nat]

\* Between calls nothing is held; in a call the array is, and the result is
\* not there yet.
SvPhase ==
  /\ at = "idle" => n = 0 /\ heap = 0 /\ taken = << >> /\ ret = 0 /\ bytes = 0 /\ data = S!Unset
  /\ at = "in" => heap = 1 /\ data = S!Unset /\ fn \in {"sv", "timed"}
  /\ at = "done" => fn \in {"sv", "timed"}

\* What a measurement has collected is what the driver handed to it.
Collected ==
  fn = "sv" /\ at # "idle" =>
    /\ n <= sv.n /\ taken \in Seq(Nat) /\ Len(taken) = n
    /\ \A p \in 1 .. n : taken[p] = p /\ val[p] = p

\* The samples counted are in the bytes read, one behind the other, and as long
\* as no half of one is lost they are the first.
BlockSoFar ==
  fn = "timed" /\ at # "idle" =>
    /\ n <= sv.n /\ 2 * n <= bytes /\ bytes <= S!Width * sv.n
    /\ \A p \in 1 .. n : val[p] \in 1 .. bytes - 1
    /\ \A p, q \in 1 .. n : p < q => val[p] + 2 <= val[q]
    /\ bytes = 2 * n => \A p \in 1 .. n : val[p] = 2 * p - 1

SvInv == SvTypes /\ SvPhase /\ Collected /\ BlockSoFar /\ S!AveragesAll /\ S!BlockIsStream /\ S!BufferFreed

\* The constants of slowly varying inputs.
LEMMA SvConstants ==
  /\ MaxN \in Nat /\ MaxN > 0 /\ BufSz \in Nat /\ BufSz > 0
  BY AnalogAssumption DEF S!Parameters

\* The invariant holds at first.
LEMMA SvBegins ==
  ASSUME S!Init
  PROVE  SvInv
<1>1. SvTypes
  <2>1. sv \in [subdevice : {"short", "long"}, chan : Int, maxdata : Int, n : 0 .. MaxN]
    BY DEF S!Init, S!SvChans, S!Maxdata
  <2>2. val \in [1 .. MaxN -> Nat]
    BY DEF S!Init, S!Idle, S!Clear
  <2>3. trig \in BOOLEAN
    BY Zenon DEF S!Init, S!Idle
  <2> QED
    BY <2>1, <2>2, <2>3 DEF S!Init, S!Idle, SvTypes
<1> QED
  BY <1>1 DEF S!Init, S!Idle, SvInv, SvPhase, Collected, BlockSoFar, S!AveragesAll, S!BlockIsStream, S!BufferFreed

\* The program sets its fields, or begins a call.
LEMMA SvBetweenKeeps ==
  ASSUME SvInv, S!SetField \/ S!Update \/ S!Measure \/ S!Timed \/ S!Looked
  PROVE  SvInv'
<1>1. CASE S!SetField \/ S!Update
  <2>1. /\ at = "idle" /\ at' = at /\ UNCHANGED <<fn, n, data, val, heap, taken, ret, trig, bytes>>
    BY <1>1 DEF S!SetField, S!Update, S!call
  <2>2. /\ sv' \in [subdevice : {"short", "long"}, chan : Int, maxdata : Int, n : 0 .. MaxN]
        /\ fresh' => sv'.maxdata = S!Maxdata(sv'.chan)
    <3>1. CASE S!Update
      BY <3>1 DEF S!Update, S!Maxdata, SvInv, SvTypes
    <3>2. CASE S!SetField
      <4>1. PICK ch \in S!SvChans, k \in 0 .. MaxN :
              sv' = [sv EXCEPT !.chan = ch, !.n = k] /\ fresh' = (fresh /\ ch = sv.chan)
        BY <3>2 DEF S!SetField
      <4>2. ch \in Int
        BY DEF S!SvChans
      <4> QED
        BY <4>1, <4>2 DEF SvInv, SvTypes
    <3> QED
      BY <1>1, <3>1, <3>2
  <2> QED
    BY <2>1, <2>2 DEF SvInv, SvTypes, SvPhase, Collected, BlockSoFar, S!AveragesAll, S!BlockIsStream, S!BufferFreed
<1>2. CASE S!Measure
  <2>1. /\ at = "idle" /\ at' \in {"in", "done"} /\ fn' = "sv" /\ UNCHANGED <<sv, fresh, n, data, val, taken, trig, bytes>>
        /\ IF at' = "in" THEN heap' = heap + 1 ELSE heap' = heap
    BY <1>2 DEF S!Measure
  <2>2. n = 0 /\ heap = 0 /\ taken = << >> /\ data = S!Unset
    BY <2>1 DEF SvInv, SvPhase
  <2>3. taken \in Seq(Nat) /\ Len(taken) = 0
    BY <2>2, EmptySeq
  <2>4. n <= sv.n
    BY <2>2 DEF SvInv, SvTypes
  <2> QED
    BY <2>1, <2>2, <2>3, <2>4 DEF SvInv, SvTypes, SvPhase, Collected, BlockSoFar, S!AveragesAll, S!BlockIsStream,
       S!BufferFreed
<1>3. CASE S!Timed
  <2>1. PICK k \in 0 .. MaxN : sv' = [sv EXCEPT !.n = k]
    BY <1>3 DEF S!Timed
  <2>2. /\ at = "idle" /\ at' \in {"in", "done"} /\ fn' = "timed" /\ UNCHANGED <<fresh, n, data, val, taken, bytes>>
        /\ IF at' = "in" THEN heap' = heap + 1 ELSE heap' = heap /\ ret' = -1
    BY <1>3 DEF S!Timed
  <2>3. trig' \in BOOLEAN
    BY <1>3 DEF S!Timed, SvInv, SvTypes
  <2>4. n = 0 /\ heap = 0 /\ bytes = 0 /\ data = S!Unset
    BY <2>2 DEF SvInv, SvPhase
  <2>5. /\ sv' \in [subdevice : {"short", "long"}, chan : Int, maxdata : Int, n : 0 .. MaxN]
        /\ sv'.maxdata = sv.maxdata /\ sv'.chan = sv.chan /\ sv'.n = k
    BY <2>1 DEF SvInv, SvTypes
  <2>6. SvTypes'
    BY <2>2, <2>3, <2>5 DEF SvInv, SvTypes
  <2>7. 0 <= S!Width' * sv'.n
    BY <2>5, SvConstants DEF S!Width, S!LongBytes, S!SampleBytes
  <2> QED
    BY <2>2, <2>4, <2>5, <2>6, <2>7 DEF SvInv, SvPhase, Collected, BlockSoFar, S!AveragesAll, S!BlockIsStream,
       S!BufferFreed
<1>4. CASE S!Looked
  <2>1. val' \in [1 .. MaxN -> Nat] /\ trig' \in BOOLEAN
    <3>1. trig' \in BOOLEAN
      BY <1>4, Zenon DEF S!Looked
    <3> QED
      BY <1>4, <3>1 DEF S!Looked, S!Clear
  <2> QED
    BY <1>4, <2>1 DEF S!Looked, SvInv, SvTypes, SvPhase, Collected, BlockSoFar, S!AveragesAll, S!BlockIsStream,
       S!BufferFreed
<1> QED
  BY <1>1, <1>2, <1>3, <1>4

\* k more samples of a measurement, behind those there are.
LEMMA CollectKeeps ==
  ASSUME SvInv, S!Collect
  PROVE  SvInv'
<1>1. /\ at = "in" /\ fn = "sv" /\ n < sv.n /\ UNCHANGED <<sv, fresh, at, fn, data, heap, ret, trig, bytes>>
  BY DEF S!Collect, S!Collecting, S!call
<1>2. /\ n \in Nat /\ sv.n \in 0 .. MaxN /\ n <= sv.n /\ taken \in Seq(Nat) /\ Len(taken) = n
      /\ \A p \in 1 .. n : taken[p] = p /\ val[p] = p
  BY <1>1 DEF SvInv, SvTypes, Collected
<1>3. PICK k \in 1 .. sv.n - n :
        /\ val' = [q \in 1 .. MaxN |->
                     IF \E p \in 1 .. k : S!Place(p) = q
                     THEN Len(taken) + (CHOOSE p \in 1 .. k : S!Place(p) = q) ELSE val[q]]
        /\ taken' = taken \o [p \in 1 .. k |-> Len(taken) + p]
        /\ n' = n + k
  BY DEF S!Collect
<1>4. k \in Nat /\ n + k \in Nat /\ n + k <= sv.n
  BY <1>2
<1>5. ASSUME NEW q \in 1 .. MaxN
      PROVE  val'[q] = IF q \in n + 1 .. n + k THEN q ELSE val[q]
  <2>1. CASE q \in n + 1 .. n + k
    <3>1. q - n \in 1 .. k /\ S!Place(q - n) = q
      BY <1>2, <2>1 DEF S!Place
    <3>2. ASSUME NEW p \in 1 .. k, S!Place(p) = q PROVE p = q - n
      BY <1>2, <3>2 DEF S!Place
    <3>3. (CHOOSE p \in 1 .. k : S!Place(p) = q) = q - n
      BY <3>1, <3>2
    <3>4. val'[q] = Len(taken) + (q - n)
      BY <1>3, <1>5, <3>1, <3>3
    <3> QED
      BY <1>2, <2>1, <3>4
  <2>2. CASE q \notin n + 1 .. n + k
    <3>1. ASSUME NEW p \in 1 .. k PROVE S!Place(p) # q
      BY <1>2, <1>4, <1>5, <2>2, <3>1 DEF S!Place
    <3> QED
      BY <1>3, <1>5, <2>2, <3>1
  <2> QED
    BY <2>1, <2>2
<1>6. val' \in [1 .. MaxN -> Nat]
  <2>1. ASSUME NEW q \in 1 .. MaxN PROVE val'[q] \in Nat
    BY <1>5, <2>1 DEF SvInv, SvTypes
  <2>2. val' = [q \in 1 .. MaxN |-> val'[q]]
    BY <1>3
  <2> QED
    BY <2>1, <2>2
<1>7. taken' \in Seq(Nat) /\ Len(taken') = n + k /\ \A p \in 1 .. n + k : taken'[p] = p
  <2> DEFINE more == [p \in 1 .. k |-> Len(taken) + p]
  <2>1. more \in Seq(Nat) /\ Len(more) = k /\ \A p \in 1 .. k : more[p] = n + p
    BY <1>2, <1>4
  <2>2. taken' = taken \o more
    BY <1>3
  <2> HIDE DEF more
  <2>3. /\ taken' \in Seq(Nat) /\ Len(taken') = n + k
        /\ \A p \in 1 .. n + k : taken'[p] = IF p <= n THEN taken[p] ELSE more[p - n]
    BY <1>2, <2>1, <2>2, ConcatProperties, ZenonT(30)
  <2>4. ASSUME NEW p \in 1 .. n + k PROVE taken'[p] = p
    <3>1. CASE p <= n
      BY <1>2, <2>3, <2>4, <3>1
    <3>2. CASE ~(p <= n)
      <4>1. p - n \in 1 .. k
        BY <1>2, <1>4, <2>4, <3>2
      <4>2. taken'[p] = n + (p - n)
        BY <2>1, <2>3, <2>4, <3>2, <4>1
      <4> QED
        BY <1>2, <2>4, <4>2
    <3> QED
      BY <3>1, <3>2
  <2> QED
    BY <2>3, <2>4
<1>8. \A p \in 1 .. n + k : val'[p] = p
  <2>1. ASSUME NEW p \in 1 .. n + k PROVE val'[p] = p
    <3>1. p \in 1 .. MaxN
      BY <1>2, <1>4, <2>1, SvConstants
    <3>2. p \in 1 .. n \/ p \in n + 1 .. n + k
      BY <1>2, <1>4, <2>1
    <3> QED
      BY <1>2, <1>5, <3>1, <3>2
  <2> QED
    BY <2>1
<1> QED
  BY <1>1, <1>3, <1>4, <1>6, <1>7, <1>8 DEF SvInv, SvTypes, SvPhase, Collected, BlockSoFar, S!AveragesAll,
     S!BlockIsStream, S!BufferFreed

\* A measurement stops, or has its mean.
LEMMA MeasuredKeeps ==
  ASSUME SvInv, S!StopCollecting \/ S!Average
  PROVE  SvInv'
<1>1. /\ at = "in" /\ fn = "sv" /\ at' = "done" /\ heap' = heap - 1 /\ ret' \in {-1, 0}
      /\ UNCHANGED <<fn, sv, fresh, trig, n, val, taken, bytes>>
  BY DEF S!StopCollecting, S!Average, S!Collecting, S!Finish
<1>2. heap' = 0 /\ data = S!Unset
  BY <1>1 DEF SvInv, SvPhase
<1>3. /\ n \in Nat /\ sv.n \in 0 .. MaxN /\ n <= sv.n /\ taken \in Seq(Nat) /\ Len(taken) = n
      /\ \A p \in 1 .. n : taken[p] = p /\ val[p] = p
  BY <1>1 DEF SvInv, SvTypes, Collected
<1>4. S!AveragesAll'
  <2>1. CASE S!StopCollecting
    BY <1>2, <2>1 DEF S!StopCollecting, S!AveragesAll
  <2>2. CASE S!Average
    <3>1. n = sv.n /\ ret' = 0
      BY <1>3, <2>2 DEF S!Average, S!Finish
    <3>2. data' \in {S!NaN, IF sv.n = 0 THEN S!NaN ELSE <<"mean", sv.maxdata, SubSeq(val, 1, sv.n)>>}
      BY <2>2 DEF S!Average
    <3>3. CASE data' = S!NaN
      BY <3>3 DEF S!AveragesAll
    <3>4. CASE sv.n # 0 /\ data' = <<"mean", sv.maxdata, SubSeq(val, 1, sv.n)>>
      <4>1. \A p \in 1 .. sv.n : val[p] \in Nat /\ val[p] = p
        BY <1>3, <3>1
      <4>2. /\ SubSeq(val, 1, sv.n) \in Seq(Nat) /\ Len(SubSeq(val, 1, sv.n)) = sv.n
            /\ \A p \in 1 .. sv.n : SubSeq(val, 1, sv.n)[p] = p
        <5>1. sv.n \in Int /\ 1 \in Int /\ sv.n - 1 + 1 = sv.n /\ 1 <= sv.n
          BY <1>3, <3>4
        <5>2. /\ SubSeq(val, 1, sv.n) \in Seq(Nat) /\ Len(SubSeq(val, 1, sv.n)) = sv.n
              /\ \A p \in 1 .. sv.n : SubSeq(val, 1, sv.n)[p] = val[1 + p - 1]
          BY <4>1, <5>1, SubSeqProperties
        <5>3. \A p \in 1 .. sv.n : 1 + p - 1 = p
          BY <1>3
        <5> QED
          BY <4>1, <5>2, <5>3
      <4>3. SubSeq(val, 1, sv.n) = taken
        BY <1>3, <3>1, <4>2, SeqEqual
      <4>4. data'[3] = taken' /\ data'[2] = sv'.maxdata
        BY <1>1, <3>4, <4>3
      <4>5. Len(taken') = sv'.n /\ sv'.n > 0
        BY <1>1, <1>3, <3>1, <3>4
      <4>6. fresh' => data'[2] = S!Maxdata(sv'.chan)
        BY <1>1, <4>4 DEF SvInv, SvTypes
      <4> QED
        BY <3>1, <4>4, <4>5, <4>6 DEF S!AveragesAll
    <3> QED
      BY <3>2, <3>3, <3>4
  <2> QED
    BY <2>1, <2>2
<1> QED
  BY <1>1, <1>2, <1>4 DEF SvInv, SvTypes, SvPhase, Collected, BlockSoFar, S!BlockIsStream, S!BufferFreed

\* Halves of bytes.
LEMMA Half ==
  ASSUME NEW b \in Nat
  PROVE  b \div 2 \in Nat /\ 2 * (b \div 2) <= b /\ (b = 2 * (b \div 2) \/ b = 2 * (b \div 2) + 1)
  OBVIOUS

\* How long a sample of the subdevice is.
LEMMA Widths ==
  ASSUME SvInv
  PROVE  IF sv.subdevice = "long" THEN S!Width = 4 ELSE S!Width = 2
  BY DEF S!Width, S!LongBytes, S!SampleBytes

\* A read of a block, which may end inside a sample.
LEMMA BlockReadKeeps ==
  ASSUME SvInv, S!Read
  PROVE  SvInv'
<1>1. /\ at = "in" /\ fn = "timed" /\ n < sv.n
      /\ UNCHANGED <<sv, fresh, at, fn, data, heap, taken, ret, trig>>
  <2>1. /\ at = "in" /\ fn = "timed" /\ ~(n >= sv.n)
        /\ UNCHANGED <<sv, fresh, at, fn, data, heap, taken, ret, trig>>
    BY DEF S!Read, S!Reading, S!Enough, S!call
  <2> QED
    BY <2>1 DEF SvInv, SvTypes
<1>2. /\ n \in Nat /\ bytes \in Nat /\ sv.n \in 0 .. MaxN /\ 2 * n <= bytes
      /\ \A p \in 1 .. n : val[p] \in 1 .. bytes - 1
      /\ \A p, q \in 1 .. n : p < q => val[p] + 2 <= val[q]
      /\ bytes = 2 * n => \A p \in 1 .. n : val[p] = 2 * p - 1
  BY <1>1 DEF SvInv, SvTypes, BlockSoFar
<1>3. PICK b \in 1 .. S!Asked :
        /\ b <= S!Left /\ bytes' = bytes + b /\ n' = n + b \div 2
        /\ val' = [q \in 1 .. MaxN |->
                     IF q \in n + 1 .. n + b \div 2 THEN 1 + bytes + 2 * (q - n - 1) ELSE val[q]]
  BY DEF S!Read, S!Counted, S!SampleBytes
<1>4. S!Asked \in Nat /\ S!Asked <= 2 * (sv.n - n)
  BY <1>1, <1>2, SvConstants DEF S!Asked, S!SampleBytes
<1>5. b \in Nat /\ b > 0 /\ b <= 2 * (sv.n - n)
  BY <1>2, <1>3, <1>4
<1>6. bytes + b <= S!Width * sv.n
  <2>1. S!Left > 0
    BY DEF S!Read
  <2>2. S!Left = S!Width * sv.n - bytes
    BY <2>1 DEF S!Left
  <2>3. S!Width * sv.n \in Nat
    BY <1>2, Widths, SvConstants
  <2> QED
    BY <1>2, <1>3, <1>5, <2>2, <2>3
<1> DEFINE h == b \div 2
<1>7. h \in Nat /\ 2 * h <= b
  BY <1>5, Half
<1>8. \A q \in 1 .. MaxN : val'[q] = IF q \in n + 1 .. n + h THEN 1 + bytes + 2 * (q - n - 1) ELSE val[q]
  BY <1>3
<1>9. bytes' = bytes + b /\ n' = n + h
  BY <1>3
<1> HIDE DEF h
<1>10. n + h \in Nat /\ n + h <= sv.n /\ n + h <= MaxN
  BY <1>2, <1>5, <1>7, SvConstants
<1>11. val' \in [1 .. MaxN -> Nat]
  <2>1. ASSUME NEW q \in 1 .. MaxN PROVE val'[q] \in Nat
    <3>1. CASE q \in n + 1 .. n + h
      BY <1>2, <1>7, <1>8, <2>1, <3>1
    <3>2. CASE q \notin n + 1 .. n + h
      BY <1>8, <2>1, <3>2 DEF SvInv, SvTypes
    <3> QED
      BY <3>1, <3>2
  <2>2. val' = [q \in 1 .. MaxN |-> val'[q]]
    BY <1>3
  <2> QED
    BY <2>1, <2>2
<1>12. ASSUME NEW p \in 1 .. n + h
       PROVE  /\ p \in Nat /\ p >= 1 /\ p <= n + h
              /\ IF p <= n THEN p \in 1 .. n /\ val'[p] = val[p] ELSE val'[p] = 1 + bytes + 2 * (p - n - 1)
  <2>1. p \in 1 .. MaxN /\ p \in Nat /\ p >= 1 /\ p <= n + h
    BY <1>10, <1>12, SvConstants
  <2>2. CASE p <= n
    <3>1. p \in 1 .. n /\ p \notin n + 1 .. n + h
      BY <1>2, <1>7, <2>1, <2>2
    <3> QED
      BY <1>8, <2>1, <2>2, <3>1
  <2>3. CASE ~(p <= n)
    <3>1. p \in n + 1 .. n + h
      BY <1>2, <1>7, <2>1, <2>3
    <3> QED
      BY <1>8, <2>1, <2>3, <3>1
  <2> QED
    BY <2>1, <2>2, <2>3
<1>13. ASSUME NEW p \in 1 .. n + h PROVE val'[p] \in 1 .. bytes + b - 1
  <2>1. CASE p <= n
    <3>1. p \in 1 .. n /\ val'[p] = val[p]
      BY <1>12, <1>13, <2>1
    <3> QED
      BY <1>2, <1>5, <3>1
  <2>2. CASE ~(p <= n)
    <3>1. p \in Nat /\ p <= n + h /\ val'[p] = 1 + bytes + 2 * (p - n - 1)
      BY <1>12, <1>13, <2>2
    <3> QED
      BY <1>2, <1>5, <1>7, <2>2, <3>1
  <2> QED
    BY <2>1, <2>2
<1>14. ASSUME NEW p \in 1 .. n + h, NEW q \in 1 .. n + h, p < q PROVE val'[p] + 2 <= val'[q]
  <2>1. p \in Nat /\ q \in Nat /\ p >= 1 /\ q <= n + h
    BY <1>12, <1>14
  <2>2. CASE q <= n
    <3>1. p <= n
      BY <1>2, <1>14, <2>1, <2>2
    <3>2. p \in 1 .. n /\ val'[p] = val[p] /\ q \in 1 .. n /\ val'[q] = val[q]
      BY <1>12, <1>14, <2>2, <3>1
    <3> QED
      BY <1>2, <1>14, <3>2
  <2>3. CASE ~(q <= n) /\ p <= n
    <3>1. p \in 1 .. n /\ val'[p] = val[p] /\ val'[q] = 1 + bytes + 2 * (q - n - 1)
      BY <1>12, <1>14, <2>3
    <3>2. val[p] \in 1 .. bytes - 1
      BY <1>2, <3>1
    <3> QED
      BY <1>2, <2>1, <2>3, <3>1, <3>2
  <2>4. CASE ~(q <= n) /\ ~(p <= n)
    <3>1. val'[p] = 1 + bytes + 2 * (p - n - 1) /\ val'[q] = 1 + bytes + 2 * (q - n - 1)
      BY <1>12, <1>14, <2>4
    <3> QED
      BY <1>2, <1>14, <2>1, <3>1
  <2> QED
    BY <2>2, <2>3, <2>4
<1>15. ASSUME bytes + b = 2 * (n + h), NEW p \in 1 .. n + h PROVE val'[p] = 2 * p - 1
  <2>1. bytes = 2 * n
    BY <1>2, <1>5, <1>7, <1>15
  <2>2. CASE p <= n
    <3>1. p \in 1 .. n /\ val'[p] = val[p]
      BY <1>12, <1>15, <2>2
    <3> QED
      BY <1>2, <2>1, <3>1
  <2>3. CASE ~(p <= n)
    <3>1. p \in Nat /\ val'[p] = 1 + bytes + 2 * (p - n - 1)
      BY <1>12, <1>15, <2>3
    <3> QED
      BY <1>2, <2>1, <3>1
  <2> QED
    BY <2>2, <2>3
<1>16. BlockSoFar'
  <2>1. n' <= sv'.n /\ 2 * n' <= bytes' /\ bytes' <= S!Width' * sv'.n
    <3>1. S!Width' = S!Width
      BY <1>1 DEF S!Width
    <3> QED
      BY <1>1, <1>2, <1>5, <1>6, <1>7, <1>9, <1>10, <3>1
  <2>2. \A p \in 1 .. n' : val'[p] \in 1 .. bytes' - 1
    <3>1. ASSUME NEW p \in 1 .. n' PROVE val'[p] \in 1 .. bytes' - 1
      <4>1. p \in 1 .. n + h
        BY <1>9, <3>1
      <4>2. val'[p] \in 1 .. bytes + b - 1
        BY <1>13, <4>1
      <4> QED
        BY <1>2, <1>5, <1>9, <4>2
    <3> QED
      BY <3>1
  <2>3. \A p, q \in 1 .. n' : p < q => val'[p] + 2 <= val'[q]
    BY <1>9, <1>14
  <2>4. bytes' = 2 * n' => \A p \in 1 .. n' : val'[p] = 2 * p - 1
    BY <1>9, <1>15
  <2> QED
    BY <2>1, <2>2, <2>3, <2>4 DEF BlockSoFar
<1>17. n' \in Nat /\ bytes' \in Nat
  BY <1>2, <1>5, <1>7, <1>9
<1> QED
  BY <1>1, <1>11, <1>16, <1>17 DEF SvInv, SvTypes, SvPhase, Collected, S!AveragesAll, S!BlockIsStream, S!BufferFreed

\* The other steps of a block.
LEMMA BlockKeeps ==
  ASSUME SvInv, S!ReadEnd \/ S!ReadFails \/ S!TimedDone
  PROVE  SvInv'
<1>1. CASE S!ReadEnd
  <2>1. UNCHANGED <<sv, fresh, at, fn, n, data, val, heap, taken, ret, trig, bytes>>
    BY <1>1 DEF S!ReadEnd, S!vars, S!call
  <2> QED
    BY <2>1 DEF SvInv, SvTypes, SvPhase, Collected, BlockSoFar, S!AveragesAll, S!BlockIsStream, S!BufferFreed,
       S!Left, S!Width
<1>2. CASE S!ReadFails
  BY <1>2 DEF S!ReadFails, S!Reading, S!Finish, SvInv, SvTypes, SvPhase, Collected, BlockSoFar, S!AveragesAll,
     S!BlockIsStream, S!BufferFreed, S!Width
<1>3. CASE S!TimedDone
  <2>1. /\ at = "in" /\ fn = "timed" /\ n >= sv.n /\ at' = "done" /\ ret' = 0 /\ heap' = heap - 1
        /\ UNCHANGED <<fn, sv, fresh, trig, n, data, val, taken, bytes>>
    BY <1>3 DEF S!TimedDone, S!Enough, S!Finish
  <2>2. /\ n \in Nat /\ bytes \in Nat /\ sv.n \in 0 .. MaxN /\ n <= sv.n /\ 2 * n <= bytes
        /\ bytes <= S!Width * sv.n /\ sv.subdevice \in {"short", "long"}
        /\ \A p \in 1 .. n : val[p] \in 1 .. bytes - 1
        /\ \A p, q \in 1 .. n : p < q => val[p] + 2 <= val[q]
        /\ bytes = 2 * n => \A p \in 1 .. n : val[p] = 2 * p - 1
    BY <2>1 DEF SvInv, SvTypes, BlockSoFar
  <2>3. n = sv.n
    BY <2>1, <2>2
  <2>4. heap' = 0
    BY <2>1 DEF SvInv, SvPhase
  <2>5. sv.subdevice = "short" => bytes = 2 * n /\ S!Left = 0
    BY <2>2, <2>3, Widths DEF S!Left
  <2>6. S!Left' = S!Left
    BY <2>1 DEF S!Left, S!Width
  <2>7. S!BlockIsStream'
    <3>1. /\ \A p \in 1 .. sv'.n : val'[p] \in 1 .. bytes' - 1
          /\ \A p, q \in 1 .. sv'.n : p < q => val'[p] + S!SampleBytes <= val'[q]
      BY <2>1, <2>2, <2>3 DEF S!SampleBytes
    <3>2. sv'.subdevice = "short" => S!Left' = 0 /\ \A p \in 1 .. sv'.n : val'[p] = S!SampleBytes * p - 1
      BY <2>1, <2>2, <2>3, <2>5, <2>6 DEF S!SampleBytes
    <3> QED
      BY <3>1, <3>2 DEF S!BlockIsStream
  <2>8. BlockSoFar'
    <3>1. S!Width' = S!Width
      BY <2>1 DEF S!Width
    <3> QED
      BY <2>1, <2>2, <3>1 DEF BlockSoFar
  <2> QED
    BY <2>1, <2>4, <2>7, <2>8 DEF SvInv, SvTypes, SvPhase, Collected, S!AveragesAll, S!BufferFreed
<1> QED
  BY <1>1, <1>2, <1>3

\* Where these calls run.
LEMMA SlowRuns == AnalogSpec => [](by = "slow" => SvInv)
<1>1. AnalogSpec => AnalogInit /\ [][AnalogNext]_analogVars
  BY PTL DEF AnalogSpec
<1>2. AnalogInit => (by = "slow" => SvInv)
  BY SvBegins DEF AnalogInit
<1>3. ASSUME by = "slow" => SvInv, [AnalogNext]_analogVars PROVE (by = "slow" => SvInv)'
  <2>1. CASE AnalogNext
    <3>1. by' = by /\ (by = "slow" => S!Next)
      BY <2>1 DEF AnalogNext, UsesInsn, UsesSlow, Converts, Calibrates
    <3>2. SvInv /\ S!Next => SvInv'
      BY SvBetweenKeeps, CollectKeeps, MeasuredKeeps, BlockReadKeeps, BlockKeeps DEF S!Next, S!CallStep
    <3> QED
      BY <1>3, <3>1, <3>2
  <2>2. CASE UNCHANGED analogVars
    <3>1. UNCHANGED <<by, sv, fresh, at, fn, n, data, val, heap, taken, ret, trig, bytes>>
      BY <2>2 DEF analogVars, common, slowOnly
    <3> QED
      BY <1>3, <3>1 DEF SvInv, SvTypes, SvPhase, Collected, BlockSoFar, S!AveragesAll, S!BlockIsStream, S!BufferFreed,
         S!Left, S!Width
  <2> QED
    BY <1>3, <2>1, <2>2
<1> QED
  BY <1>1, <1>2, <1>3, PTL

\* A mean is over all the samples of its measurement, each once; a block that
\* comedi_timed_1chan returns is of the stream, in order, and is the stream on
\* a subdevice of short samples; nothing stays allocated but after a failed
\* read: for every number of samples and however the driver cuts them.
THEOREM MeansComplete == AnalogSpec => []MeasuresAll
<1>1. (by = "slow" => SvInv) => MeasuresAll
  BY DEF SvInv, MeasuresAll
<1> QED
  BY <1>1, SlowRuns, PTL

-----------------------------------------------------------------------------
(***************************************************************************)
(* Induction, and the powers of two, by which the timers divide.           *)
(***************************************************************************)
\* A set of natural numbers has a least one.
LEMMA LeastNat ==
  ASSUME NEW T \in SUBSET Nat, T # {}
  PROVE  \E x \in T : \A y \in T : x <= y
<1> DEFINE R == OpToRel(<, Nat)
<1>1. IsWellFoundedOn(R, Nat)
  BY NatLessThanWellFounded
<1>2. PICK x \in T : \A y \in T : ~ (<<y, x>> \in R)
  <2> HIDE DEF R
  <2> QED BY <1>1, WFMin
<1>3. \A a, b \in Nat : <<b, a>> \in R <=> b < a
  BY DEF OpToRel
<1> HIDE DEF R
<1>4. \A y \in T : ~ (y < x)
  BY <1>2, <1>3
<1>5. \A y \in T : x <= y
  BY <1>4
<1> QED BY <1>5

\* The powers of two up to the m-th.
PowersTo(g, m) == g \in [0 .. m -> Nat] /\ g[0] = 1 /\ \A k \in 1 .. m : g[k] = 2 * g[k - 1]

\* There is one such list,
LEMMA PowersUnique ==
  ASSUME NEW m \in Nat, NEW l \in Nat, NEW g, NEW h, PowersTo(g, m), PowersTo(h, l)
  PROVE  \A k \in Nat : k <= m /\ k <= l => g[k] = h[k]
<1> DEFINE T == {k \in Nat : k <= m /\ k <= l /\ g[k] # h[k]}
<1>1. SUFFICES ASSUME T # {} PROVE FALSE
  OBVIOUS
<1>2. PICK x \in T : \A y \in T : x <= y
  <2>1. T \in SUBSET Nat
    OBVIOUS
  <2> HIDE DEF T
  <2> QED BY <1>1, <2>1, LeastNat
<1>3. x # 0
  BY <1>2 DEF PowersTo
<1>4. x - 1 \in Nat /\ x - 1 \notin T
  BY <1>2, <1>3
<1>5. g[x - 1] = h[x - 1]
  BY <1>2, <1>4
<1>6. x \in 1 .. m /\ x \in 1 .. l
  BY <1>2, <1>3
<1> QED BY <1>2, <1>5, <1>6 DEF PowersTo

\* of any length.
LEMMA PowersExist ==
  ASSUME NEW m \in Nat
  PROVE  \E g : PowersTo(g, m)
<1> DEFINE T == {k \in Nat : ~ \E g : PowersTo(g, k)}
<1>1. SUFFICES ASSUME T # {} PROVE FALSE
  OBVIOUS
<1>2. PICK x \in T : \A y \in T : x <= y
  <2>1. T \in SUBSET Nat
    OBVIOUS
  <2> HIDE DEF T
  <2> QED BY <1>1, <2>1, LeastNat
<1>3. x # 0
  <2>1. PowersTo([k \in 0 .. 0 |-> 1], 0)
    BY DEF PowersTo
  <2> QED BY <1>2, <2>1
<1>4. x \in Nat /\ x - 1 \in Nat /\ x - 1 \notin T
  BY <1>2, <1>3
<1>5. PICK g : PowersTo(g, x - 1)
  BY <1>4
<1>6. PowersTo([k \in 0 .. x |-> IF k = x THEN 2 * g[x - 1] ELSE g[k]], x)
  BY <1>3, <1>4, <1>5 DEF PowersTo
<1> QED BY <1>2, <1>6

\* What a function of natural numbers has at 0, and from each number to the
\* next, it has everywhere; here, to be a positive number at least as large.
LEMMA Grows ==
  ASSUME NEW f, f[0] = 1, \A k \in Nat : f[k + 1] = 2 * f[k]
  PROVE  \A k \in Nat : f[k] \in Nat /\ f[k] > k
<1> DEFINE T == {k \in Nat : ~ (f[k] \in Nat /\ f[k] > k)}
<1>1. SUFFICES ASSUME T # {} PROVE FALSE
  OBVIOUS
<1>2. PICK x \in T : \A y \in T : x <= y
  <2>1. T \in SUBSET Nat
    OBVIOUS
  <2> HIDE DEF T
  <2> QED BY <1>1, <2>1, LeastNat
<1>3. x # 0
  BY <1>2
<1>4. x - 1 \in Nat /\ x = (x - 1) + 1 /\ x - 1 \notin T
  BY <1>2, <1>3
<1>5. f[x - 1] \in Nat /\ f[x - 1] > x - 1 /\ f[x] = 2 * f[x - 1]
  BY <1>4
<1> QED BY <1>2, <1>4, <1>5

\* The recursive definition defines the powers of two.
LEMMA Powers ==
  /\ C!Pow2[0] = 1
  /\ \A k \in Nat : C!Pow2[k + 1] = 2 * C!Pow2[k]
  /\ \A k \in Nat : C!Pow2[k] \in Nat /\ C!Pow2[k] > k
<1> DEFINE G(m) == CHOOSE g : PowersTo(g, m)
           P == [m \in Nat |-> G(m)[m]]
<1>1. \A m \in Nat : PowersTo(G(m), m)
  BY PowersExist
<1>2. P[0] = 1
  BY <1>1 DEF PowersTo
<1>3. ASSUME NEW m \in Nat PROVE P[m + 1] = 2 * P[m]
  <2> DEFINE a == G(m) b == G(m + 1)
  <2>1. PowersTo(a, m) /\ PowersTo(b, m + 1)
    BY <1>1
  <2>2. P[m] = a[m] /\ P[m + 1] = b[m + 1]
    OBVIOUS
  <2> HIDE DEF a, b, P, G
  <2>3. a[m] = b[m]
    BY <2>1, PowersUnique
  <2>4. b[m + 1] = 2 * b[m]
    BY <2>1 DEF PowersTo
  <2> QED BY <2>2, <2>3, <2>4
<1>4. P = [k \in Nat |-> IF k = 0 THEN 1 ELSE 2 * P[k - 1]]
  <2>1. ASSUME NEW k \in Nat PROVE P[k] = IF k = 0 THEN 1 ELSE 2 * P[k - 1]
    <3> HIDE DEF P
    <3>1. CASE k = 0
      BY <1>2, <3>1
    <3>2. CASE k # 0
      <4>1. k - 1 \in Nat /\ k = (k - 1) + 1
        BY <3>2
      <4> QED BY <1>3, <3>2, <4>1
    <3> QED BY <3>1, <3>2
  <2>2. P = [k \in Nat |-> P[k]]
    OBVIOUS
  <2> HIDE DEF P
  <2> QED BY <2>1, <2>2
<1>5. C!Pow2 = [k \in Nat |-> IF k = 0 THEN 1 ELSE 2 * C!Pow2[k - 1]]
  <2> HIDE DEF P
  <2> QED BY <1>4 DEF C!Pow2
<1>6. C!Pow2[0] = 1 /\ \A k \in Nat : C!Pow2[k + 1] = 2 * C!Pow2[k]
  <2>1. \A k \in Nat : C!Pow2[k] = IF k = 0 THEN 1 ELSE 2 * C!Pow2[k - 1]
    BY <1>5
  <2> QED BY <2>1
<1> QED BY <1>6, Grows

\* A product of natural numbers grows with its first factor.
LEMMA ProductUp ==
  ASSUME NEW a \in Nat, NEW b \in Nat, NEW p \in Nat, a <= b
  PROVE  a * p <= b * p /\ a * p \in Nat /\ b * p \in Nat
  BY Z3

\* What division by p gives, as bounds without it.
LEMMA Quotients ==
  ASSUME NEW d \in Nat, NEW p \in Nat, p > 0, NEW q, q = d \div p
  PROVE  q \in Nat /\ q * p \in Nat /\ q * p <= d /\ d < q * p + p
<1>1. q \in Nat /\ d % p \in 0 .. p - 1 /\ d = q * p + (d % p)
  BY DivMod
<1>2. q * p \in Nat
  BY <1>1
<1> QED BY <1>1, <1>2

\* Dividing by more gives no more.
LEMMA QuotientDown ==
  ASSUME NEW d \in Nat, NEW p \in Nat, NEW s \in Nat, 0 < p, p <= s
  PROVE  d \div s <= d \div p
<1> DEFINE a == d \div p
           b == d \div s
<1>1. a \in Nat /\ b \in Nat /\ b * s \in Nat /\ b * s <= d /\ a * p \in Nat /\ d < a * p + p
  BY Quotients
<1> HIDE DEF a, b
<1>2. SUFFICES ASSUME a + 1 <= b PROVE FALSE
  BY <1>1 DEF a, b
<1>3. (a + 1) * p <= b * p
  BY <1>1, <1>2, ProductUp
<1>4. b * p <= b * s
  BY <1>1, Z3
<1>5. (a + 1) * p = a * p + p
  BY <1>1
<1>6. b * p \in Nat
  BY <1>1
<1> QED BY ONLY <1>1, <1>3, <1>4, <1>5, <1>6, p \in Nat, d \in Nat

\* What is above the limit is at least half of it once it is halved.
LEMMA HalfLeft ==
  ASSUME NEW d \in Nat, NEW p \in Nat, p > 0, NEW limit \in Nat, d \div p > limit
  PROVE  limit <= 2 * (d \div (2 * p))
<1> DEFINE a == d \div p
           b == d \div (2 * p)
<1>1. a \in Nat /\ a * p \in Nat /\ a * p <= d
  BY Quotients
<1>2. b \in Nat /\ d < b * (2 * p) + 2 * p
  <2>1. 2 * p \in Nat /\ 2 * p > 0
    OBVIOUS
  <2> HIDE DEF b
  <2> QED BY <2>1, Quotients DEF b
<1> HIDE DEF a, b
<1>3. SUFFICES ASSUME 2 * b + 1 <= limit PROVE FALSE
  BY <1>2 DEF b
<1>4. 2 * b + 2 <= a
  BY <1>1, <1>2, <1>3 DEF a
<1>5. (2 * b + 2) * p <= a * p
  <2>1. 2 * b + 2 \in Nat
    BY <1>2
  <2> QED BY <2>1, <1>1, <1>4, ProductUp
<1>6. (2 * b + 2) * p = b * (2 * p) + 2 * p
  BY <1>2, Z3
<1>7. b * (2 * p) \in Nat
  BY <1>2
<1> QED BY ONLY <1>1, <1>2, <1>5, <1>6, <1>7, p \in Nat, d \in Nat

\* A later power is no smaller.
LEMMA PowersUp ==
  ASSUME NEW x \in Nat, NEW y \in Nat, x <= y
  PROVE  C!Pow2[x] <= C!Pow2[y]
<1> DEFINE T == {k \in Nat : x <= k /\ ~ (C!Pow2[x] <= C!Pow2[k])}
<1>1. SUFFICES ASSUME T # {} PROVE FALSE
  OBVIOUS
<1>2. PICK z \in T : \A k \in T : z <= k
  <2>1. T \in SUBSET Nat
    OBVIOUS
  <2> HIDE DEF T
  <2> QED BY <1>1, <2>1, LeastNat
<1>3. z # x
  BY <1>2, Powers
<1>4. z - 1 \in Nat /\ z = (z - 1) + 1 /\ z - 1 \notin T
  BY <1>2, <1>3
<1>5. C!Pow2[x] <= C!Pow2[z - 1]
  BY <1>2, <1>3, <1>4
<1>6. C!Pow2[z] = 2 * C!Pow2[z - 1] /\ C!Pow2[z - 1] \in Nat /\ C!Pow2[x] \in Nat
  BY <1>4, Powers
<1> QED BY <1>2, <1>5, <1>6

\* Halving ends, and ends at the first value that is within the limit.
LEMMA HalvingEnds ==
  ASSUME NEW d \in Nat, NEW limit \in Nat
  PROVE  /\ C!Halvings(d, limit) \in Nat
         /\ d \div C!Pow2[C!Halvings(d, limit)] <= limit
         /\ \A j \in 0 .. C!Halvings(d, limit) - 1 : d \div C!Pow2[j] > limit
<1> DEFINE T == {k \in Nat : d \div C!Pow2[k] <= limit}
<1>1. d \in T
  <2>1. PICK p : p = C!Pow2[d]
    OBVIOUS
  <2>2. p \in Nat /\ p > d
    BY <2>1, Powers
  <2>3. PICK q : q = d \div p
    OBVIOUS
  <2>4. q \in Nat /\ q * p <= d
    BY <2>2, <2>3, Quotients
  <2>5. q = 0
    <3>1. SUFFICES ASSUME 1 <= q PROVE FALSE
      BY <2>4
    <3>2. 1 * p <= q * p
      BY <2>2, <2>4, <3>1, ProductUp
    <3>3. q * p \in Nat
      BY <2>2, <2>4
    <3> QED BY <2>2, <2>4, <3>2, <3>3
  <2> QED BY <2>1, <2>3, <2>5
<1>2. PICK x \in T : \A y \in T : x <= y
  <2>1. T \in SUBSET Nat /\ T # {}
    BY <1>1
  <2> HIDE DEF T
  <2> QED BY <2>1, LeastNat
<1>3. x \in 0 .. d
  BY <1>1, <1>2
<1>4. ASSUME NEW j \in 0 .. x - 1 PROVE d \div C!Pow2[j] > limit
  <2>1. j \in Nat /\ j \notin T
    BY <1>2
  <2>2. C!Pow2[j] \in Nat /\ C!Pow2[j] > 0
    BY <2>1, Powers
  <2>3. d \div C!Pow2[j] \in Nat
    BY <2>2, DivMod
  <2>4. ~ (d \div C!Pow2[j] <= limit)
    BY <2>1
  <2> QED BY <2>3, <2>4
<1>5. d \div C!Pow2[x] <= limit
  BY <1>2
<1> DEFINE Stops(k) == d \div C!Pow2[k] <= limit /\ \A j \in 0 .. k - 1 : d \div C!Pow2[j] > limit
<1>6. \E k \in 0 .. d : Stops(k)
  BY <1>3, <1>4, <1>5
<1>7. C!Halvings(d, limit) = CHOOSE k \in 0 .. d : Stops(k)
  BY DEF C!Halvings
<1> HIDE DEF Stops
<1>8. C!Halvings(d, limit) \in 0 .. d /\ Stops(C!Halvings(d, limit))
  BY <1>6, <1>7
<1> QED BY <1>8 DEF Stops

\* What halving leaves of a divider is close to what was asked for.
LEMMA HalvedClose ==
  ASSUME NEW d \in Nat, d > 0, NEW limit \in Nat, limit >= 2,
         NEW k, k = C!Halvings(d, limit), NEW q, q = d \div C!Pow2[k]
  PROVE  /\ k \in Nat /\ C!Pow2[k] \in Nat /\ q \in 1 .. limit
         /\ q * C!Pow2[k] <= d /\ d < q * C!Pow2[k] + C!Pow2[k]
<1> DEFINE p == C!Pow2[k]
<1>1. k \in Nat /\ q <= limit /\ \A j \in 0 .. k - 1 : d \div C!Pow2[j] > limit
  BY HalvingEnds
<1>2. p \in Nat /\ p > 0
  BY <1>1, Powers
<1>0. q = d \div p
  OBVIOUS
<1> HIDE DEF p
<1>3. q \in Nat /\ q * p \in Nat /\ q * p <= d /\ d < q * p + p
  BY <1>0, <1>2, Quotients
<1>4. q >= 1
  <2>1. CASE k = 0
    <3>1. p = 1
      BY <2>1, Powers DEF p
    <3> QED BY <1>3, <3>1
  <2>2. CASE k # 0
    <3>1. k - 1 \in Nat /\ k = (k - 1) + 1 /\ k - 1 \in 0 .. k - 1
      BY <1>1, <2>2
    <3>2. PICK b : b = C!Pow2[k - 1]
      OBVIOUS
    <3>3. b \in Nat /\ b > 0
      BY <3>1, <3>2, Powers
    <3>4. p = 2 * b
      BY <3>1, <3>2, Powers DEF p
    <3>5. d \div b > limit
      BY <1>1, <3>1, <3>2
    <3>6. limit <= 2 * (d \div (2 * b))
      BY <3>3, <3>5, HalfLeft
    <3> QED BY <1>0, <1>3, <3>4, <3>6
  <2> QED BY <2>1, <2>2
<1>5. q \in 1 .. limit
  <2>1. q <= limit
    BY <1>1 DEF p
  <2> QED BY <1>3, <1>4, <2>1
<1> QED BY <1>1, <1>2, <1>3, <1>5 DEF p

\* The first powers.
LEMMA SmallPowers == C!Pow2[1] = 2 /\ C!Pow2[2] = 4
<1>1. C!Pow2[0] = 1 /\ \A k \in Nat : C!Pow2[k + 1] = 2 * C!Pow2[k]
  BY Powers
<1>2. C!Pow2[0 + 1] = 2 * C!Pow2[0]
  BY <1>1
<1>3. C!Pow2[1 + 1] = 2 * C!Pow2[1]
  BY <1>1
<1> QED BY <1>1, <1>2, <1>3

\* The dt282x, which skips the prescaler 1 and has four bits for it.
LEMMA Dt282xClose ==
  ASSUME NEW d \in Nat, d > 0
  PROVE  LET t == C!Dt282x(d) f == C!Pow2[t.prescaler]
         IN  /\ t.divider * f <= d /\ d < t.divider * f + f
             /\ t.divider \in 1 .. 255 /\ t.prescaler # 1
             /\ t.fits <=> d \div C!Pow2[15] <= 255
<1> DEFINE once == C!Halvings(d, 255)
           p == IF once = 1 THEN 2 ELSE once
           t == C!Dt282x(d)
<1>1. /\ once \in Nat /\ d \div C!Pow2[once] <= 255
      /\ \A j \in 0 .. once - 1 : d \div C!Pow2[j] > 255
  <2> HIDE DEF once
  <2> QED BY HalvingEnds DEF once
<1>2. t = [fits |-> p < 16, prescaler |-> p, divider |-> d \div C!Pow2[p]]
  BY DEF C!Dt282x
<1>3. t.fits = (p < 16) /\ t.prescaler = p /\ t.divider = d \div C!Pow2[p]
  <2> HIDE DEF t, p
  <2> QED BY <1>2
<1>4. p # 1 /\ (p < 16 <=> once < 16)
  BY <1>1
<1>5. t.divider \in 1 .. 255 /\ t.divider * C!Pow2[p] <= d /\ d < t.divider * C!Pow2[p] + C!Pow2[p]
  <2>1. CASE once = 1
    <3>1. p = 2 /\ C!Pow2[p] = 4
      BY <2>1, SmallPowers
    <3>2. d \div C!Pow2[0] > 255 /\ d \div C!Pow2[1] <= 255
      BY <1>1, <2>1
    <3>3. d > 255 /\ d \div 2 <= 255
      BY <3>2, SmallPowers, Powers
    <3>4. t.divider = d \div 4
      BY <1>3, <3>1
    <3> HIDE DEF t, p, once
    <3> QED BY <3>1, <3>3, <3>4
  <2>2. CASE once # 1
    <3>1. p = once
      BY <2>2
    <3>2. 255 \in Nat /\ 255 >= 2
      OBVIOUS
    <3>3. /\ (d \div C!Pow2[once]) \in 1 .. 255
          /\ (d \div C!Pow2[once]) * C!Pow2[once] <= d
          /\ d < (d \div C!Pow2[once]) * C!Pow2[once] + C!Pow2[once]
      <4>1. PICK k, q : k = once /\ q = d \div C!Pow2[k]
        OBVIOUS
      <4>2. k = C!Halvings(d, 255)
        BY <4>1
      <4> HIDE DEF once, p, t
      <4>3. q \in 1 .. 255 /\ q * C!Pow2[k] <= d /\ d < q * C!Pow2[k] + C!Pow2[k]
        BY <3>2, <4>1, <4>2, HalvedClose
      <4> QED BY <4>1, <4>3
    <3> HIDE DEF t, p, once
    <3> QED BY <1>3, <3>1, <3>3
  <2> QED BY <2>1, <2>2
<1>6. once < 16 <=> d \div C!Pow2[15] <= 255
  <2> HIDE DEF once, p, t
  <2>1. CASE once < 16
    <3>1. C!Pow2[once] <= C!Pow2[15] /\ C!Pow2[once] \in Nat /\ C!Pow2[15] \in Nat /\ 0 < C!Pow2[once]
      <4>1. 15 \in Nat
        OBVIOUS
      <4> QED BY <1>1, <2>1, <4>1, PowersUp, Powers
    <3>2. d \div C!Pow2[15] <= d \div C!Pow2[once]
      BY <3>1, QuotientDown
    <3>3. d \div C!Pow2[15] \in Int /\ d \div C!Pow2[once] \in Int
      BY <3>1, DivMod
    <3> QED BY <1>1, <2>1, <3>2, <3>3
  <2>2. CASE once >= 16
    <3>1. d \div C!Pow2[15] > 255
      BY <1>1, <2>2
    <3>2. 15 \in Nat /\ C!Pow2[15] \in Nat /\ C!Pow2[15] > 0
      BY Powers
    <3>3. d \div C!Pow2[15] \in Nat
      BY <3>2, DivMod
    <3> QED BY <1>1, <2>2, <3>1, <3>3
  <2> QED BY <1>1, <2>1, <2>2
<1> HIDE DEF t, p, once
<1> QED BY <1>3, <1>4, <1>5, <1>6 DEF t

\* The decades.
LEMMA Decades ==
  /\ C!Decade(0) = 100000000 /\ C!Decade(1) = 10000000 /\ C!Decade(2) = 1000000
  /\ C!Decade(3) = 100000 /\ C!Decade(4) = 10000 /\ C!Decade(5) = 1000
  /\ C!Decade(6) = 100 /\ C!Decade(7) = 10 /\ C!Decade(8) = 1
  BY DEF C!Decade

\* The dt2814 gets the decade nearest to a frequency.
LEMMA Dt2814Near ==
  ASSUME NEW f \in Nat
  PROVE  LET b == C!Dt2814(f)
         IN  /\ b \in 0 .. 8
             /\ \A k \in 0 .. 8 :
                  ~ C!Less(C!Distance(<<C!Decade(k), 1>>, <<f, 1>>), C!Distance(<<C!Decade(b), 1>>, <<f, 1>>))
<1> DEFINE Nearer(k) == k < 8 => C!Decade(k) - f < f - (C!Decade(k) \div 10)
           First(k) == Nearer(k) /\ \A j \in 0 .. k - 1 : C!Decade(j) - f >= f - (C!Decade(j) \div 10)
<1>1. \E k \in 0 .. 8 : First(k)
  <2> DEFINE T == {k \in Nat : Nearer(k)}
  <2>1. PICK x \in T : \A y \in T : x <= y
    <3>1. T \in SUBSET Nat /\ 8 \in T
      OBVIOUS
    <3> HIDE DEF T
    <3> QED BY <3>1, LeastNat
  <2>2. x \in 0 .. 8 /\ Nearer(x)
    BY <2>1
  <2>3. ASSUME NEW j \in 0 .. x - 1 PROVE C!Decade(j) - f >= f - (C!Decade(j) \div 10)
    <3>1. j \in Nat /\ j < x /\ j < 8
      BY <2>2
    <3>2. ~ Nearer(j)
      <4> HIDE DEF Nearer
      <4> QED BY <2>1, <3>1
    <3>3. C!Decade(j) \in Nat
      <4>1. j \in {0, 1, 2, 3, 4, 5, 6, 7}
        BY <3>1
      <4> QED BY <4>1, Decades
    <3>4. C!Decade(j) \div 10 \in Nat
      BY <3>3
    <3>5. ~ (C!Decade(j) - f < f - (C!Decade(j) \div 10))
      BY <3>1, <3>2
    <3> QED BY <3>3, <3>4, <3>5
  <2> QED BY <2>2, <2>3
<1>2. C!Dt2814(f) = CHOOSE k \in 0 .. 8 : First(k)
  BY DEF C!Dt2814
<1>3. PICK b : b = C!Dt2814(f)
  OBVIOUS
<1>4. b \in 0 .. 8 /\ First(b)
  <2> HIDE DEF First
  <2> QED BY <1>1, <1>2, <1>3
<1>5. ASSUME NEW k \in 0 .. 8
      PROVE  ~ C!Less(C!Distance(<<C!Decade(k), 1>>, <<f, 1>>), C!Distance(<<C!Decade(b), 1>>, <<f, 1>>))
  <2> DEFINE Away(x) == IF x - f < 0 THEN f - x ELSE x - f
  <2>1. \A j \in 0 .. 8 : C!Decade(j) \in Nat
    <3>1. \A j \in 0 .. 8 : j \in {0, 1, 2, 3, 4, 5, 6, 7, 8}
      OBVIOUS
    <3> QED BY <3>1, Decades
  <2>2. \A j \in 0 .. 8 : C!Distance(<<C!Decade(j), 1>>, <<f, 1>>) = <<Away(C!Decade(j)), 1>>
    BY <2>1 DEF C!Distance
  <2>3. Away(C!Decade(b)) <= Away(C!Decade(k))
    <3>1. k \in {0, 1, 2, 3, 4, 5, 6, 7, 8} /\ b \in {0, 1, 2, 3, 4, 5, 6, 7, 8}
      BY <1>4
    <3>2. CASE b = 0
      BY <1>4, <3>1, <3>2, Decades
    <3>3. CASE b = 1
      BY <1>4, <3>1, <3>3, Decades
    <3>4. CASE b = 2
      BY <1>4, <3>1, <3>4, Decades
    <3>5. CASE b = 3
      BY <1>4, <3>1, <3>5, Decades
    <3>6. CASE b = 4
      BY <1>4, <3>1, <3>6, Decades
    <3>7. CASE b = 5
      BY <1>4, <3>1, <3>7, Decades
    <3>8. CASE b = 6
      BY <1>4, <3>1, <3>8, Decades
    <3>9. CASE b = 7
      BY <1>4, <3>1, <3>9, Decades
    <3>10. CASE b = 8
      BY <1>4, <3>1, <3>10, Decades
    <3> QED BY <3>1, <3>2, <3>3, <3>4, <3>5, <3>6, <3>7, <3>8, <3>9, <3>10
  <2>4. Away(C!Decade(b)) \in Int /\ Away(C!Decade(k)) \in Int
    BY <2>1, <1>4
  <2> HIDE DEF Away
  <2> QED BY <1>4, <2>2, <2>3, <2>4 DEF C!Less
<1> QED BY <1>3, <1>4, <1>5

-----------------------------------------------------------------------------
(***************************************************************************)
(* Rounding a quotient, and the code nearest to a physical value.          *)
(***************************************************************************)
\* The quotient rounded to the nearest is within the bounds of the division,
LEMMA RoundedBounds ==
  ASSUME NEW x \in Nat, NEW b \in Nat, b > 0, NEW q, q = (2 * x + b) \div (2 * b)
  PROVE  q \in Nat /\ q * b \in Nat /\ 2 * (q * b) <= 2 * x + b /\ 2 * x < 2 * (q * b) + b
<1>1. 2 * x + b \in Nat /\ 2 * b \in Nat /\ 2 * b > 0
  OBVIOUS
<1>2. q \in Nat /\ q * (2 * b) \in Nat /\ q * (2 * b) <= 2 * x + b /\ 2 * x + b < q * (2 * b) + 2 * b
  BY <1>1, Quotients
<1>3. q * (2 * b) = 2 * (q * b) /\ q * b \in Nat
  BY <1>2, Z3
<1> QED BY ONLY <1>2, <1>3, x \in Nat, b \in Nat

Gap(u, v) == IF u - v < 0 THEN v - u ELSE u - v

\* and no multiple is nearer.
LEMMA RoundedNearest ==
  ASSUME NEW x \in Nat, NEW b \in Nat, b > 0, NEW q, q = (2 * x + b) \div (2 * b), NEW k \in Nat
  PROVE  Gap(q * b, x) <= Gap(k * b, x)
<1>1. q \in Nat /\ q * b \in Nat /\ 2 * (q * b) <= 2 * x + b /\ 2 * x < 2 * (q * b) + b
  BY RoundedBounds
<1>2. k * b \in Nat
  OBVIOUS
<1>3. CASE k < q
  <2>1. (k + 1) * b <= q * b
    <3>1. k + 1 \in Nat /\ k + 1 <= q
      BY <1>1, <1>3
    <3> QED BY <1>1, <3>1, ProductUp
  <2>2. (k + 1) * b = k * b + b
    OBVIOUS
  <2> QED BY ONLY <1>1, <1>2, <2>1, <2>2, x \in Nat, b \in Nat DEF Gap
<1>4. CASE k > q
  <2>1. (q + 1) * b <= k * b
    <3>1. q + 1 \in Nat /\ q + 1 <= k
      BY <1>1, <1>4
    <3> QED BY <1>1, <3>1, ProductUp
  <2>2. (q + 1) * b = q * b + b
    BY <1>1
  <2> QED BY ONLY <1>1, <1>2, <2>1, <2>2, x \in Nat, b \in Nat DEF Gap
<1>5. CASE k = q
  BY ONLY <1>1, <1>2, <1>5, x \in Nat DEF Gap
<1> QED BY <1>1, <1>3, <1>4, <1>5

\* What is at most m times the divisor is rounded to m at most.
LEMMA RoundedWithin ==
  ASSUME NEW x \in Nat, NEW b \in Nat, b > 0, NEW q, q = (2 * x + b) \div (2 * b), NEW m \in Nat, x <= m * b
  PROVE  q <= m
<1>1. q \in Nat /\ q * b \in Nat /\ 2 * (q * b) <= 2 * x + b
  BY RoundedBounds
<1>2. SUFFICES ASSUME m + 1 <= q PROVE FALSE
  BY <1>1
<1>3. (m + 1) * b <= q * b
  <2>1. m + 1 \in Nat
    OBVIOUS
  <2> QED BY <1>1, <1>2, <2>1, ProductUp
<1>4. (m + 1) * b = m * b + b /\ m * b \in Nat
  OBVIOUS
<1> QED BY ONLY <1>1, <1>3, <1>4, x <= m * b, x \in Nat, b \in Nat, b > 0

\* A multiple is its own rounded quotient.
LEMMA RoundedExact ==
  ASSUME NEW k \in Nat, NEW b \in Nat, b > 0, NEW q, q = (2 * (k * b) + b) \div (2 * b)
  PROVE  q = k
<1>1. k * b \in Nat
  OBVIOUS
<1>2. PICK x \in Nat : x = k * b
  BY <1>1
<1>3. q \in Nat /\ q * b \in Nat /\ 2 * (q * b) <= 2 * x + b /\ 2 * x < 2 * (q * b) + b
  BY <1>2, RoundedBounds
<1>4. CASE q < k
  <2>1. q + 1 \in Nat /\ q + 1 <= k
    BY <1>3, <1>4
  <2>2. (q + 1) * b <= k * b
    BY <2>1, ProductUp
  <2>3. (q + 1) * b = q * b + b
    BY <1>3
  <2> QED BY ONLY <1>2, <1>3, <2>2, <2>3, b \in Nat, b > 0
<1>5. CASE k < q
  <2>1. k + 1 \in Nat /\ k + 1 <= q
    BY <1>3, <1>5
  <2>2. (k + 1) * b <= q * b
    BY <1>3, <2>1, ProductUp
  <2>3. (k + 1) * b = k * b + b
    OBVIOUS
  <2> QED BY ONLY <1>2, <1>3, <2>2, <2>3, b \in Nat, b > 0
<1> QED BY <1>3, <1>4, <1>5

\* A range: its ends are integers, the lower one first.
IsRange(r) == r.min \in Int /\ r.max \in Int /\ r.min < r.max

\* The constants of conversions.
LEMMA ConversionConstants ==
  /\ N \in Nat /\ (\A r \in RangeSet : IsRange(r)) /\ (\A md \in MaxDatas : md \in Nat)
  /\ \A v \in Volts : v = <<v[1], v[2]>> /\ v[1] \in Int /\ v[2] \in Nat /\ v[2] > 0
  /\ \A d \in Ticks : d \in Nat /\ d > 0
  BY AnalogAssumption DEF C!Parameters, IsRange

\* from_phys gives a code there is, and no code is nearer.
LEMMA CodeNearest ==
  ASSUME NEW r, IsRange(r), NEW md \in Nat, NEW a \in Int, NEW b \in Nat, b > 0
  PROVE  LET code == C!from_phys(<<a, b>>, r, md)
         IN  /\ code \in 0 .. md
             /\ \A k \in 0 .. md :
                  ~ C!Less(C!Distance(C!Linear(k, r, md), <<a, b>>), C!Distance(C!Linear(code, r, md), <<a, b>>))
<1>1. PICK lo \in Int, hi \in Int, w \in Nat : lo = r.min /\ hi = r.max /\ w = hi - lo /\ w > 0 /\ w = C!Width(r)
  BY DEF IsRange, C!Width
<1> DEFINE code == C!from_phys(<<a, b>>, r, md)
<1> HIDE DEF code
<1>2. PICK u \in Nat, x \in Int : u = b * w /\ x = (a - lo * b) * md
  <2>1. b * w \in Nat
    OBVIOUS
  <2>2. (a - lo * b) * md \in Int
    OBVIOUS
  <2> QED BY <2>1, <2>2
<1>3. u > 0
  BY <1>1, <1>2, Z3
<1>4. code = IF md = 0 \/ a < lo * b THEN 0 ELSE IF a > hi * b THEN md ELSE (2 * x + u) \div (2 * u)
  <2>1. 2 * (a - lo * b) * md + b * w = 2 * x + u /\ 2 * b * w = 2 * u
    BY <1>2, Z3
  <2>2. C!from_phys(<<a, b>>, r, md) =
          IF md = 0 \/ a < lo * b THEN 0 ELSE IF a > hi * b THEN md
          ELSE (2 * (a - lo * b) * md + b * w) \div (2 * b * w)
    BY <1>1 DEF C!from_phys
  <2> QED BY <1>2, <2>1, <2>2 DEF code
<1>5. code \in 0 .. md /\ \A k \in 0 .. md : Gap(code * u, x) <= Gap(k * u, x)
  <2>1. CASE md = 0
    <3>1. code = 0
      BY <1>4, <2>1
    <3>2. ASSUME NEW k \in 0 .. md PROVE Gap(code * u, x) <= Gap(k * u, x)
      <4>1. k = 0 /\ k * u = 0 /\ code * u = 0
        BY <2>1, <3>1
      <4> QED BY <4>1 DEF Gap
    <3> QED BY <2>1, <3>1, <3>2
  <2>2. CASE md > 0 /\ a < lo * b
    <3>1. code = 0
      BY <1>4, <2>2
    <3>2. x <= 0
      <4>1. PICK z \in Int : z = a - lo * b
        OBVIOUS
      <4>2. z < 0
        BY <2>2, <4>1
      <4>3. z * md <= 0
        BY <4>2, Z3
      <4> QED BY <1>2, <4>1, <4>3
    <3>3. ASSUME NEW k \in 0 .. md PROVE Gap(code * u, x) <= Gap(k * u, x)
      <4>1. k * u \in Nat /\ code * u = 0
        BY <3>1
      <4> QED BY ONLY <3>2, <4>1, x \in Int DEF Gap
    <3> QED BY <3>1, <3>3
  <2>3. CASE md > 0 /\ a > hi * b
    <3>1. hi * b = lo * b + b * w
      BY <1>1, Z3
    <3>2. lo * b \in Int /\ hi * b \in Int /\ ~ (a < lo * b)
      <4>1. lo * b \in Int /\ hi * b \in Int
        OBVIOUS
      <4> QED BY <1>2, <1>3, <2>3, <3>1, <4>1
    <3>3. code = md
      BY <1>4, <2>3, <3>2
    <3>4. md * u <= x /\ md * u \in Nat
      <4>1. PICK z \in Int : z = a - lo * b
        OBVIOUS
      <4>2. u <= z
        BY ONLY <1>2, <2>3, <3>1, <3>2, <4>1, a \in Int
      <4>3. z \in Nat
        BY <4>2
      <4>4. u * md <= z * md
        BY <4>2, <4>3, ProductUp
      <4>5. u * md = md * u
        BY Z3
      <4> QED BY <1>2, <4>1, <4>4, <4>5
    <3>5. ASSUME NEW k \in 0 .. md PROVE Gap(code * u, x) <= Gap(k * u, x)
      <4>1. k * u <= md * u /\ k * u \in Nat
        BY ProductUp
      <4> QED BY ONLY <3>3, <3>4, <4>1, x \in Int DEF Gap
    <3> QED BY <3>3, <3>5
  <2>4. CASE md > 0 /\ ~ (a < lo * b) /\ ~ (a > hi * b)
    <3>1. code = (2 * x + u) \div (2 * u)
      BY <1>4, <2>4
    <3>2. x \in Nat /\ x <= md * u
      <4>1. PICK z \in Int : z = a - lo * b
        OBVIOUS
      <4>2. hi * b = lo * b + b * w /\ lo * b \in Int /\ hi * b \in Int
        BY <1>1, Z3
      <4>3. z \in Nat /\ z <= u
        BY ONLY <1>2, <2>4, <4>1, <4>2, a \in Int
      <4>4. z * md <= u * md /\ z * md \in Nat
        BY <4>3, ProductUp
      <4>5. u * md = md * u
        BY Z3
      <4> QED BY <1>2, <4>1, <4>4, <4>5
    <3>3. code \in Nat /\ code <= md
      BY <1>3, <3>1, <3>2, RoundedBounds, RoundedWithin
    <3>4. ASSUME NEW k \in 0 .. md PROVE Gap(code * u, x) <= Gap(k * u, x)
      <4>1. k \in Nat
        OBVIOUS
      <4> QED BY <1>3, <3>1, <3>2, <4>1, RoundedNearest
    <3> QED BY <3>3, <3>4
  <2> QED BY <2>1, <2>2, <2>3, <2>4
<1>6. ASSUME NEW k \in 0 .. md
      PROVE  ~ C!Less(C!Distance(C!Linear(k, r, md), <<a, b>>), C!Distance(C!Linear(code, r, md), <<a, b>>))
  <2>1. \A l \in 0 .. md : C!Distance(C!Linear(l, r, md), <<a, b>>) = <<Gap(l * u, x), md * b>>
    <3> SUFFICES ASSUME NEW l \in 0 .. md
                 PROVE  C!Distance(C!Linear(l, r, md), <<a, b>>) = <<Gap(l * u, x), md * b>>
      OBVIOUS
    <3>1. (l * w + lo * md) * b - a * md = l * (b * w) - (a - lo * b) * md
      BY Z3
    <3>2. C!Linear(l, r, md) = <<l * w + lo * md, md>>
      BY <1>1 DEF C!Linear
    <3>3. PICK e \in Int, h \in Int : h = l * u /\ e = h - x
      OBVIOUS
    <3>4. e = (l * w + lo * md) * b - a * md
      BY <1>2, <3>1, <3>3
    <3>5. C!Distance(<<l * w + lo * md, md>>, <<a, b>>) = <<IF e < 0 THEN -e ELSE e, md * b>>
      BY <3>4 DEF C!Distance
    <3>6. (IF e < 0 THEN -e ELSE e) = Gap(h, x)
      BY ONLY <3>3, x \in Int DEF Gap
    <3> QED BY <3>2, <3>3, <3>5, <3>6
  <2>2. PICK s, g, h : s = md * b /\ s \in Nat /\ g = Gap(code * u, x) /\ h = Gap(k * u, x)
    OBVIOUS
  <2>3. g \in Nat /\ h \in Nat /\ g <= h
    <3>1. code * u \in Int /\ k * u \in Int
      BY <1>5
    <3> QED BY <1>5, <2>2, <3>1 DEF Gap
  <2>4. g * s <= h * s /\ g * s \in Nat /\ h * s \in Nat
    BY <2>2, <2>3, ProductUp
  <2>5. ~ (h * s < g * s)
    BY ONLY <2>4
  <2> QED BY <1>5, <2>1, <2>2, <2>5 DEF C!Less
<1> QED BY <1>5, <1>6 DEF code

\* A code comes back from the value it stands for.
LEMMA CodeBack ==
  ASSUME NEW r, IsRange(r), NEW md \in Nat, md > 0, NEW k \in 0 .. md
  PROVE  C!from_phys(C!Linear(k, r, md), r, md) = k
<1>1. PICK lo \in Int, hi \in Int, w \in Nat : lo = r.min /\ hi = r.max /\ w = hi - lo /\ w > 0 /\ w = C!Width(r)
  BY DEF IsRange, C!Width
<1>2. PICK v \in Int : v = k * w + lo * md
  OBVIOUS
<1>3. C!Linear(k, r, md) = <<v, md>>
  BY <1>1, <1>2 DEF C!Linear
<1>4. k * w \in Nat /\ k * w <= md * w /\ md * w \in Nat
  BY ProductUp
<1>5. hi * md = lo * md + md * w /\ lo * md \in Int
  BY <1>1, Z3
<1>6. ~ (v < lo * md) /\ ~ (v > hi * md)
  BY ONLY <1>2, <1>4, <1>5
<1>7. PICK u \in Nat : u = md * w /\ u > 0
  <2>1. md * w > 0
    BY <1>1, Z3
  <2> QED BY <1>4, <2>1
<1>8. C!from_phys(<<v, md>>, r, md) = (2 * (v - lo * md) * md + md * w) \div (2 * md * w)
  BY <1>1, <1>6 DEF C!from_phys
<1>9. 2 * (v - lo * md) * md + md * w = 2 * (k * u) + u /\ 2 * md * w = 2 * u
  BY <1>2, <1>7, Z3
<1>10. C!from_phys(<<v, md>>, r, md) = (2 * (k * u) + u) \div (2 * u)
  BY <1>8, <1>9
<1>11. PICK q : q = (2 * (k * u) + u) \div (2 * u)
  OBVIOUS
<1>12. q = k
  BY <1>7, <1>11, RoundedExact
<1> QED BY <1>3, <1>10, <1>11, <1>12

-----------------------------------------------------------------------------
(***************************************************************************)
(* lib/range.c and lib/timer.c: what is done of the call.                  *)
(***************************************************************************)
Ends == {k \in 1 .. i : C!Clipped(src[k], maxdata)}
ToPhysInv ==
  fn = "to_phys" =>
    /\ rng \in RangeSet /\ maxdata \in MaxDatas /\ src \in [1 .. N -> 0 .. maxdata + 1]
    /\ dest \in Seq(Int \X Int) /\ Len(dest) = i
    /\ \A k \in 1 .. i : dest[k] = C!to_phys(src[k], rng, maxdata, seen)
    /\ oor = Cardinality(Ends)
FromPhysInv ==
  fn = "from_phys" =>
    /\ rng \in RangeSet /\ maxdata \in MaxDatas /\ src \in [1 .. N -> Volts]
    /\ dest \in Seq(Int) /\ Len(dest) = i
Covers == {k \in 1 .. i : src[k].unit = rng.unit /\ src[k].min <= rng.min /\ src[k].max >= rng.max}
FindRangeInv ==
  fn = "find_range" =>
    /\ rng \in RangeSet /\ src \in [1 .. N -> RangeSet]
    /\ IF Covers = {} THEN dest = 0
       ELSE dest \in Covers /\ \A k \in Covers : C!Width(src[dest]) <= C!Width(src[k])
TimerInv ==
  fn = "timer" =>
    /\ src \in Ticks
    /\ dest = [dt282x |-> C!Dt282x(src), acl8112 |-> C!Acl8112(src), plain |-> C!Plain(src), dt2814 |-> C!Dt2814(src)]
ConvInv ==
  /\ behavior \in BOOLEAN /\ seen \in BOOLEAN
  /\ fn \in {"none", "to_phys", "from_phys", "find_range", "timer"}
  /\ i \in 0 .. N /\ oor \in 0 .. i
  /\ ToPhysInv /\ FromPhysInv /\ FindRangeInv /\ TimerInv

\* A conversion gives a pair of integers.
LEMMA PhysType ==
  ASSUME NEW r, IsRange(r), NEW md \in Nat, NEW k \in Int, NEW nan \in BOOLEAN
  PROVE  C!to_phys(k, r, md, nan) \in Int \X Int
<1>1. PICK lo \in Int, w \in Int : lo = r.min /\ w = C!Width(r)
  BY DEF IsRange, C!Width
<1>2. C!Linear(k, r, md) = <<k * w + lo * md, md>>
  BY <1>1 DEF C!Linear
<1>3. k * w + lo * md \in Int /\ md \in Int /\ 0 \in Int
  OBVIOUS
<1>4. <<k * w + lo * md, md>> \in Int \X Int /\ <<0, 0>> \in Int \X Int
  BY <1>3
<1> QED BY <1>2, <1>4 DEF C!to_phys, C!NaN

\* The invariant holds at first,
LEMMA ConvBegins ==
  ASSUME C!Init
  PROVE  ConvInv
<1>1. behavior \in BOOLEAN /\ seen \in BOOLEAN
  BY Zenon DEF C!Init, C!Idle
<1> QED BY <1>1, ConversionConstants DEF C!Init, C!Idle, ConvInv, ToPhysInv, FromPhysInv, FindRangeInv, TimerInv

\* A call begins.
LEMMA ConvCallKeeps ==
  ASSUME ConvInv, C!CallToPhys \/ C!CallFromPhys \/ C!CallFindRange \/ C!CallTimer
  PROVE  ConvInv'
<1>1. /\ fn = "none" /\ behavior' = behavior /\ seen' \in {seen, behavior}
      /\ fn' \in {"to_phys", "from_phys", "find_range", "timer"}
  BY DEF C!CallToPhys, C!CallFromPhys, C!CallFindRange, C!CallTimer, C!Begin
<1>2. behavior' \in BOOLEAN /\ seen' \in BOOLEAN
  BY <1>1 DEF ConvInv
<1>3. CASE C!CallToPhys
  <2>1. /\ fn' = "to_phys" /\ i' = 0 /\ oor' = 0 /\ dest' = << >>
        /\ rng' \in RangeSet /\ maxdata' \in MaxDatas /\ src' \in [1 .. N -> 0 .. maxdata' + 1]
    BY <1>3 DEF C!CallToPhys, C!Begin
  <2>2. Ends' = {}
    BY <2>1 DEF Ends
  <2>3. Cardinality(Ends') = 0
    BY <2>2, FS_EmptySet
  <2>4. ToPhysInv'
    BY <2>1, <2>3 DEF ToPhysInv
  <2> QED BY <1>2, <2>1, <2>4, ConversionConstants DEF ConvInv, FromPhysInv, FindRangeInv, TimerInv
<1>4. CASE C!CallFromPhys
  <2>1. /\ fn' = "from_phys" /\ i' = 0 /\ oor' = 0 /\ dest' = << >>
        /\ rng' \in RangeSet /\ maxdata' \in MaxDatas /\ src' \in [1 .. N -> Volts]
    BY <1>4 DEF C!CallFromPhys, C!Begin
  <2> QED BY <1>2, <2>1, ConversionConstants DEF ConvInv, ToPhysInv, FromPhysInv, FindRangeInv, TimerInv
<1>5. CASE C!CallFindRange
  <2>1. /\ fn' = "find_range" /\ i' = 0 /\ oor' = 0 /\ dest' = 0
        /\ rng' \in RangeSet /\ src' \in [1 .. N -> RangeSet]
    BY <1>5 DEF C!CallFindRange, C!Begin
  <2>2. Covers' = {}
    BY <2>1 DEF Covers
  <2> QED BY <1>2, <2>1, <2>2, ConversionConstants DEF ConvInv, ToPhysInv, FromPhysInv, FindRangeInv, TimerInv
<1>6. CASE C!CallTimer
  <2>1. /\ fn' = "timer" /\ i' = N /\ oor' = oor /\ src' \in Ticks
        /\ dest' = [dt282x |-> C!Dt282x(src'), acl8112 |-> C!Acl8112(src'), plain |-> C!Plain(src'),
                    dt2814 |-> C!Dt2814(src')]
    BY <1>6 DEF C!CallTimer
  <2>2. TimerInv'
    BY <2>1 DEF TimerInv
  <2>3. i' \in 0 .. N /\ oor' \in 0 .. i'
    BY <2>1, ConversionConstants DEF ConvInv
  <2> QED BY <1>2, <2>1, <2>2, <2>3 DEF ConvInv, ToPhysInv, FromPhysInv, FindRangeInv
<1> QED BY <1>3, <1>4, <1>5, <1>6

\* One more element at an end of the range, or not.
LEMMA EndCounted ==
  ASSUME i \in Nat, i' = i + 1, src' = src, maxdata' = maxdata
  PROVE  Cardinality(Ends') = Cardinality(Ends) + IF C!Clipped(src[i + 1], maxdata) THEN 1 ELSE 0
<1>1. Ends' = Ends \union (IF C!Clipped(src[i + 1], maxdata) THEN {i + 1} ELSE {})
  <2>1. \A k : k \in 1 .. i' <=> k \in 1 .. i \/ k = i + 1
    OBVIOUS
  <2> QED BY <2>1 DEF Ends, C!Clipped
<1>2. IsFiniteSet(Ends) /\ i + 1 \notin Ends
  <2>1. IsFiniteSet(1 .. i) /\ Ends \in SUBSET (1 .. i)
    BY FS_Interval DEF Ends
  <2>2. i + 1 \notin 1 .. i
    OBVIOUS
  <2> QED BY <2>1, <2>2, FS_Subset
<1>3. Cardinality(Ends) \in Nat
  BY <1>2, FS_CardinalityType
<1>4. CASE C!Clipped(src[i + 1], maxdata)
  <2>1. Ends' = Ends \union {i + 1}
    BY <1>1, <1>4
  <2>2. Cardinality(Ends \union {i + 1}) = Cardinality(Ends) + 1
    BY <1>2, FS_AddElement
  <2> QED BY <1>4, <2>1, <2>2
<1>5. CASE ~ C!Clipped(src[i + 1], maxdata)
  <2>1. Ends' = Ends
    BY <1>1, <1>5
  <2> QED BY <1>3, <1>5, <2>1
<1> QED BY <1>4, <1>5

\* An element is converted to a physical value.
LEMMA ToPhysKeeps ==
  ASSUME ConvInv, C!ToPhysStep
  PROVE  ConvInv'
<1>1. /\ fn = "to_phys" /\ i < N /\ i' = i + 1 /\ UNCHANGED <<behavior, fn, rng, maxdata, src, seen>>
      /\ oor' = oor + IF C!Clipped(src[i + 1], maxdata) THEN 1 ELSE 0
      /\ dest' = Append(dest, C!to_phys(src[i + 1], rng, maxdata, seen))
  BY DEF C!ToPhysStep, C!call
<1>2. /\ i \in Nat /\ i' \in 0 .. N /\ oor \in 0 .. i /\ behavior \in BOOLEAN /\ seen \in BOOLEAN
      /\ ToPhysInv
  BY <1>1, ConversionConstants DEF ConvInv
<1>3. oor' \in 0 .. i'
  BY <1>1, <1>2
<1>4. /\ IsRange(rng) /\ maxdata \in Nat /\ src[i + 1] \in Int
  BY <1>1, <1>2, ConversionConstants DEF ToPhysInv
<1>5. PICK e \in Int \X Int : e = C!to_phys(src[i + 1], rng, maxdata, seen)
  BY <1>2, <1>4, PhysType
<1>6. dest \in Seq(Int \X Int) /\ Len(dest) = i /\ \A k \in 1 .. i : dest[k] = C!to_phys(src[k], rng, maxdata, seen)
  BY <1>1, <1>2 DEF ToPhysInv
<1>7. /\ dest' \in Seq(Int \X Int) /\ Len(dest') = i + 1
      /\ \A k \in 1 .. i : dest'[k] = dest[k]
      /\ dest'[i + 1] = e
  BY <1>1, <1>2, <1>5, <1>6, AppendProperties
<1>8. \A k \in 1 .. i' : dest'[k] = C!to_phys(src[k], rng, maxdata, seen)
  <2>1. \A k \in 1 .. i' : k \in 1 .. i \/ k = i + 1
    BY <1>1, <1>2
  <2> QED BY <1>5, <1>6, <1>7, <2>1
<1>9. oor' = Cardinality(Ends')
  BY <1>1, <1>2, EndCounted DEF ToPhysInv
<1>10. ToPhysInv'
  <2>1. rng \in RangeSet /\ maxdata \in MaxDatas /\ src \in [1 .. N -> 0 .. maxdata + 1]
    BY <1>1, <1>2 DEF ToPhysInv
  <2>2. \A k \in 1 .. i' : dest'[k] = C!to_phys(src[k], rng, maxdata, seen)'
    BY <1>1, <1>8 DEF C!to_phys, C!Linear, C!Clipped, C!Width
  <2> QED BY <1>1, <1>7, <1>9, <2>1, <1>8 DEF ToPhysInv
<1> QED BY <1>1, <1>2, <1>3, <1>10 DEF ConvInv, FromPhysInv, FindRangeInv, TimerInv

\* and from one.
LEMMA FromPhysKeeps ==
  ASSUME ConvInv, C!FromPhysStep
  PROVE  ConvInv'
<1>1. /\ fn = "from_phys" /\ i < N /\ i' = i + 1 /\ UNCHANGED <<behavior, fn, rng, maxdata, src, seen>>
      /\ oor' = oor + (IF C!array_from_phys(src[i + 1], rng, maxdata).oor THEN 1 ELSE 0)
      /\ dest' = Append(dest, C!array_from_phys(src[i + 1], rng, maxdata).data)
  BY DEF C!FromPhysStep, C!call
<1>2. /\ i \in Nat /\ i' \in 0 .. N /\ oor \in 0 .. i /\ behavior \in BOOLEAN /\ seen \in BOOLEAN
      /\ FromPhysInv
  BY <1>1, ConversionConstants DEF ConvInv
<1>3. oor' \in 0 .. i'
  BY <1>1, <1>2
<1>4. /\ rng \in RangeSet /\ maxdata \in MaxDatas /\ src \in [1 .. N -> Volts] /\ maxdata \in Int
      /\ dest \in Seq(Int) /\ Len(dest) = i
  BY <1>1, <1>2, ConversionConstants DEF FromPhysInv
<1>5. C!array_from_phys(src[i + 1], rng, maxdata).data \in Int
  BY <1>4 DEF C!array_from_phys
<1>6. dest' \in Seq(Int) /\ Len(dest') = i'
  BY <1>1, <1>4, <1>5, AppendProperties
<1> QED BY <1>1, <1>2, <1>3, <1>4, <1>6 DEF ConvInv, ToPhysInv, FromPhysInv, FindRangeInv, TimerInv

\* A range of a table is looked at.
LEMMA FindRangeKeeps ==
  ASSUME ConvInv, C!FindRangeStep
  PROVE  ConvInv'
<1> DEFINE better == C!Better(src[i + 1], dest, rng.unit, rng.min, rng.max)
           fit == /\ src[i + 1].unit = rng.unit /\ src[i + 1].min <= rng.min /\ src[i + 1].max >= rng.max
<1>1. /\ fn = "find_range" /\ i < N /\ i' = i + 1 /\ UNCHANGED <<behavior, fn, rng, maxdata, src, seen, oor>>
      /\ dest' = IF better THEN i + 1 ELSE dest
  BY DEF C!FindRangeStep, C!call
<1>2. /\ i \in Nat /\ i' \in 0 .. N /\ oor \in 0 .. i' /\ behavior \in BOOLEAN /\ seen \in BOOLEAN
      /\ FindRangeInv
  BY <1>1, ConversionConstants DEF ConvInv
<1>3. rng \in RangeSet /\ src \in [1 .. N -> RangeSet]
  BY <1>1, <1>2 DEF FindRangeInv
<1>4. \A k \in 1 .. i' : k \in 1 .. N /\ IsRange(src[k]) /\ C!Width(src[k]) \in Int
  BY <1>1, <1>2, <1>3, ConversionConstants DEF IsRange, C!Width
<1>5. Covers' = Covers \union (IF fit THEN {i + 1} ELSE {})
  <2>1. \A k : k \in 1 .. i' <=> k \in 1 .. i \/ k = i + 1
    BY <1>1, <1>2
  <2> QED BY <1>1, <2>1 DEF Covers
<1>6. Covers \subseteq 1 .. i
  BY DEF Covers
<1>7. better <=> fit /\ (dest = 0 \/ C!Width(src[i + 1]) < C!Width(src[dest]))
  BY DEF C!Better
<1>8. IF Covers = {} THEN dest = 0
      ELSE dest \in Covers /\ \A k \in Covers : C!Width(src[dest]) <= C!Width(src[k])
  BY <1>1, <1>2 DEF FindRangeInv
<1>9. IF Covers' = {} THEN dest' = 0
      ELSE dest' \in Covers' /\ \A k \in Covers' : C!Width(src[dest']) <= C!Width(src[k])
  <2>1. CASE ~ fit
    BY <1>1, <1>5, <1>7, <1>8, <2>1
  <2>2. CASE fit /\ Covers = {}
    <3>1. dest' = i + 1 /\ Covers' = {i + 1}
      BY <1>1, <1>5, <1>7, <1>8, <2>2
    <3>2. C!Width(src[i + 1]) \in Int
      BY <1>1, <1>2, <1>4
    <3> QED BY <3>1, <3>2
  <2>3. CASE fit /\ Covers # {}
    <3>1. dest \in Covers /\ dest # 0 /\ dest \in 1 .. i'
      <4>1. dest \in Covers
        BY <1>8, <2>3
      <4> HIDE DEF better, fit
      <4> QED BY <1>1, <1>2, <1>6, <4>1
    <3>2. \A k \in Covers \union {i + 1} : C!Width(src[k]) \in Int
      BY <1>1, <1>2, <1>4, <1>6
    <3>3. \A k \in Covers : C!Width(src[dest]) <= C!Width(src[k])
      BY <1>8, <2>3
    <3>4. Covers' = Covers \union {i + 1}
      BY <1>5, <2>3
    <3>5. CASE better
      <4>1. dest' = i + 1 /\ C!Width(src[i + 1]) < C!Width(src[dest])
        BY <1>1, <1>7, <3>1, <3>5
      <4> HIDE DEF better, fit
      <4> QED BY <2>3, <3>1, <3>2, <3>3, <3>4, <4>1
    <3>6. CASE ~ better
      <4>1. dest' = dest /\ ~ (C!Width(src[i + 1]) < C!Width(src[dest]))
        BY <1>1, <1>7, <2>3, <3>1, <3>6
      <4> HIDE DEF better, fit
      <4> QED BY <2>3, <3>1, <3>2, <3>3, <3>4, <4>1
    <3> QED BY <3>5, <3>6
  <2> HIDE DEF better, fit
  <2> QED BY <2>1, <2>2, <2>3
<1>10. FindRangeInv'
  <2>1. \A k \in Covers' : C!Width(src'[dest']) <= C!Width(src'[k]) <=> C!Width(src[dest']) <= C!Width(src[k])
    BY <1>1
  <2> HIDE DEF better, fit
  <2> QED BY <1>1, <1>3, <1>9 DEF FindRangeInv, C!Width
<1> QED BY <1>1, <1>2, <1>10 DEF ConvInv, ToPhysInv, FromPhysInv, TimerInv

\* What does not touch the call's data.
LEMMA ConvBesideKeeps ==
  ASSUME ConvInv, C!Return \/ C!SetBehavior
  PROVE  ConvInv'
<1>1. CASE C!Return
  <2>1. fn' = "none" /\ i' = 0 /\ oor' = 0 /\ behavior' = behavior /\ seen' = FALSE
    BY <1>1 DEF C!Return
  <2>2. behavior' \in BOOLEAN /\ seen' \in BOOLEAN
    BY <2>1, Zenon DEF ConvInv
  <2> QED BY <2>1, <2>2, ConversionConstants DEF ConvInv, ToPhysInv, FromPhysInv, FindRangeInv, TimerInv
<1>2. CASE C!SetBehavior
  <2>1. behavior' = ~ behavior /\ UNCHANGED <<fn, rng, maxdata, src, seen, i, oor, dest>>
    BY <1>2 DEF C!SetBehavior, C!call
  <2>2. behavior' \in BOOLEAN
    BY <2>1, Zenon
  <2> QED BY <2>1, <2>2 DEF ConvInv, ToPhysInv, FromPhysInv, FindRangeInv, TimerInv, Ends, Covers
<1> QED BY <1>1, <1>2

\* and is kept by each step.
LEMMA ConvStep ==
  ASSUME ConvInv, C!Next
  PROVE  ConvInv'
  BY ConvCallKeeps, ToPhysKeeps, FromPhysKeeps, FindRangeKeeps, ConvBesideKeeps DEF C!Next

\* The instance counts as we do.
LEMMA CountsSame == ASSUME NEW T PROVE C!Cardinality(T) = Cardinality(T)
  BY Zenon DEF C!Cardinality, Cardinality

\* What an array conversion has done at its end.
LEMMA ToPhysMeans ==
  ASSUME ConvInv
  PROVE  C!ArrayConverted
<1> SUFFICES ASSUME fn = "to_phys", i = N
             PROVE  C!ArrayConverted
  BY DEF C!ArrayConverted, C!Done
<1>1. /\ rng \in RangeSet /\ maxdata \in MaxDatas /\ src \in [1 .. N -> 0 .. maxdata + 1]
      /\ \A k \in 1 .. N : dest[k] = C!to_phys(src[k], rng, maxdata, seen)
      /\ oor = Cardinality(Ends)
  BY DEF ConvInv, ToPhysInv
<1>2. IsRange(rng) /\ maxdata \in Nat /\ N \in Nat
  BY <1>1, ConversionConstants
<1>3. oor = C!Cardinality({k \in 1 .. N : C!Clipped(src[k], maxdata)})
  BY <1>1, CountsSame DEF Ends
<1>4. ASSUME NEW k \in 1 .. N
      PROVE  /\ dest[k] = C!NaN <=> maxdata = 0 \/ (seen /\ C!Clipped(src[k], maxdata))
             /\ dest[k] # C!NaN => dest[k] = C!Linear(src[k], rng, maxdata)
  <2>1. C!Linear(src[k], rng, maxdata)[2] = maxdata /\ C!NaN[2] = 0
    BY DEF C!Linear, C!NaN
  <2> QED BY <1>1, <2>1 DEF C!to_phys
<1>5. \A k, l \in 1 .. N :
        C!Clipped(src[k], maxdata) /\ C!Clipped(src[l], maxdata) => (dest[k] = C!NaN <=> dest[l] = C!NaN)
  BY <1>4
<1>6. ASSUME NEW k \in 1 .. N
      PROVE  /\ dest[k] = C!NaN => C!Clipped(src[k], maxdata)
             /\ dest[k] # C!NaN /\ src[k] <= maxdata => C!from_phys(dest[k], rng, maxdata) = src[k]
  <2>1. src[k] \in 0 .. maxdata + 1
    BY <1>1
  <2>2. maxdata = 0 => C!Clipped(src[k], maxdata)
    BY <2>1 DEF C!Clipped
  <2>3. dest[k] # C!NaN /\ src[k] <= maxdata => C!from_phys(dest[k], rng, maxdata) = src[k]
    <3>1. SUFFICES ASSUME dest[k] # C!NaN, src[k] <= maxdata
                   PROVE  C!from_phys(dest[k], rng, maxdata) = src[k]
      OBVIOUS
    <3>2. maxdata > 0 /\ src[k] \in 0 .. maxdata /\ dest[k] = C!Linear(src[k], rng, maxdata)
      BY <1>2, <1>4, <2>1, <3>1
    <3> QED BY <1>2, <3>2, CodeBack
  <2> QED BY <1>4, <2>2, <2>3
<1> QED BY <1>3, <1>5, <1>6 DEF C!ArrayConverted

\* What the loop of comedi_from_phys leaves is what was asked for.
LEMMA FromPhysMeans ==
  ASSUME ConvInv
  PROVE  C!NearestCode
<1> SUFFICES ASSUME fn = "from_phys", i = N
             PROVE  C!NearestCode
  BY DEF C!NearestCode, C!Done
<1>1. rng \in RangeSet /\ maxdata \in MaxDatas /\ src \in [1 .. N -> Volts]
  BY DEF ConvInv, FromPhysInv
<1>2. IsRange(rng) /\ maxdata \in Nat
  BY <1>1, ConversionConstants
<1>3. ASSUME NEW k \in 1 .. N
      PROVE  /\ C!from_phys(src[k], rng, maxdata) \in 0 .. maxdata
             /\ \A m \in 0 .. maxdata :
                  ~ C!Less(C!Distance(C!Linear(m, rng, maxdata), src[k]),
                           C!Distance(C!Linear(C!from_phys(src[k], rng, maxdata), rng, maxdata), src[k]))
  <2>1. PICK a \in Int, b \in Nat : src[k] = <<a, b>> /\ b > 0
    BY <1>1, ConversionConstants
  <2>2. /\ C!from_phys(<<a, b>>, rng, maxdata) \in 0 .. maxdata
        /\ \A m \in 0 .. maxdata :
             ~ C!Less(C!Distance(C!Linear(m, rng, maxdata), <<a, b>>),
                      C!Distance(C!Linear(C!from_phys(<<a, b>>, rng, maxdata), rng, maxdata), <<a, b>>))
    BY <1>2, <2>1, CodeNearest
  <2> QED BY <2>1, <2>2
<1> QED BY <1>3 DEF C!NearestCode

\* So it is with comedi_find_range
LEMMA FindRangeMeans ==
  ASSUME ConvInv
  PROVE  C!NarrowestCover
  BY DEF ConvInv, FindRangeInv, Covers, C!NarrowestCover, C!Done

\* and with the divisors of a timer.
LEMMA TimerMeans ==
  ASSUME ConvInv
  PROVE  C!TimerClose
<1> SUFFICES ASSUME fn = "timer", i = N
             PROVE  C!TimerClose
  BY DEF C!TimerClose, C!Done
<1>1. /\ src \in Nat /\ src > 0
      /\ dest.dt282x = C!Dt282x(src) /\ dest.acl8112 = C!Acl8112(src) /\ dest.plain = C!Plain(src)
      /\ dest.dt2814 = C!Dt2814(src)
  BY ConversionConstants DEF ConvInv, TimerInv
<1> DEFINE t == C!Dt282x(src) f == C!Pow2[t.prescaler]
           e == C!Acl8112(src)
<1>2. /\ t.divider * f <= src /\ src < t.divider * f + f
      /\ t.divider \in 1 .. 255 /\ t.prescaler # 1
      /\ t.fits <=> src \div C!Pow2[15] <= 255
  BY <1>1, Dt282xClose
<1>3. /\ e.divider * e.prescaler <= src /\ src < e.divider * e.prescaler + e.prescaler
      /\ e.divider \in 1 .. C!AclMax
  <2>1. PICK k, q : k = C!Halvings(src, C!AclMax) /\ q = src \div C!Pow2[k]
    OBVIOUS
  <2>2. C!AclMax \in Nat /\ C!AclMax >= 2
    BY DEF C!AclMax
  <2>3. q \in 1 .. C!AclMax /\ q * C!Pow2[k] <= src /\ src < q * C!Pow2[k] + C!Pow2[k]
    BY <1>1, <2>1, <2>2, HalvedClose
  <2>4. e.prescaler = C!Pow2[k] /\ e.divider = q
    BY <2>1 DEF C!Acl8112
  <2> HIDE DEF e
  <2> QED BY <2>3, <2>4
<1>4. dest.plain.divider = src
  BY <1>1 DEF C!Plain
<1>5. \A k \in 0 .. 8 : ~ C!Less(C!Distance(<<C!Decade(k), 1>>, <<src, 1>>),
                               C!Distance(<<C!Decade(C!Dt2814(src)), 1>>, <<src, 1>>))
  BY <1>1, Dt2814Near
<1> HIDE DEF t, f, e
<1> QED BY <1>1, <1>2, <1>3, <1>4, <1>5 DEF C!TimerClose, t, f, e

\* The invariant holds throughout.
LEMMA ConvRuns == AnalogSpec => [](by = "convert" => ConvInv)
<1>1. AnalogSpec => AnalogInit /\ [][AnalogNext]_analogVars
  BY PTL DEF AnalogSpec
<1>2. AnalogInit => (by = "convert" => ConvInv)
  BY ConvBegins DEF AnalogInit
<1>3. ASSUME by = "convert" => ConvInv, [AnalogNext]_analogVars PROVE (by = "convert" => ConvInv)'
  <2>1. CASE AnalogNext
    <3>1. by' = by /\ (by = "convert" => C!Next)
      BY <2>1 DEF AnalogNext, UsesInsn, UsesSlow, Converts, Calibrates
    <3> QED
      BY <1>3, <3>1, ConvStep
  <2>2. CASE UNCHANGED analogVars
    <3>1. UNCHANGED <<by, behavior, fn, rng, maxdata, src, seen, i, oor, dest>>
      BY <2>2 DEF analogVars, common, convertOnly
    <3> QED
      BY <1>3, <3>1 DEF ConvInv, ToPhysInv, FromPhysInv, FindRangeInv, TimerInv, Ends, Covers
  <2> QED
    BY <1>3, <2>1, <2>2
<1> QED
  BY <1>1, <1>2, <1>3, PTL

\* Conversions and timers.
THEOREM ConvertedClose == AnalogSpec => []Converted
<1>1. (by = "convert" => ConvInv) => Converted
  BY ToPhysMeans, FromPhysMeans, FindRangeMeans, TimerMeans DEF Converted
<1> QED
  BY <1>1, ConvRuns, PTL

-----------------------------------------------------------------------------
(***************************************************************************)
(* lib/calib_yacc.y and lib/calib.c.  Positions of a file in order.        *)
(***************************************************************************)

\* The instance counts as we do.
LEMMA FileCounts == ASSUME NEW T PROVE F!Cardinality(T) = Cardinality(T)
  BY Zenon DEF F!Cardinality, Cardinality

\* How many there are in T before x.
Rank(T, x) == Cardinality({j \in T : j < x})

\* Positions up to m are finitely many.
LEMMA PositionsFinite ==
  ASSUME NEW m \in Nat, NEW T \in SUBSET (1 .. m)
  PROVE  IsFiniteSet(T) /\ Cardinality(T) \in 0 .. m
<1>1. IsFiniteSet(1 .. m) /\ Cardinality(1 .. m) = m
  BY FS_Interval
<1>2. IsFiniteSet(T) /\ Cardinality(T) <= m
  BY <1>1, FS_Subset
<1> QED BY <1>2, FS_CardinalityType

\* A rank is at most the number of positions.
LEMMA RankType ==
  ASSUME NEW m \in Nat, NEW T \in SUBSET (1 .. m), NEW x
  PROVE  Rank(T, x) \in Nat /\ Rank(T, x) <= Cardinality(T)
<1>1. {j \in T : j < x} \in SUBSET T /\ {j \in T : j < x} \in SUBSET (1 .. m)
  OBVIOUS
<1>2. IsFiniteSet(T)
  BY PositionsFinite
<1> QED BY <1>1, <1>2, FS_Subset, PositionsFinite DEF Rank

\* Ranks rise,
LEMMA RankRises ==
  ASSUME NEW m \in Nat, NEW T \in SUBSET (1 .. m), NEW x \in T, NEW y \in Int, x < y
  PROVE  Rank(T, x) + 1 <= Rank(T, y)
<1> DEFINE A == {j \in T : j < x}
           B == {j \in T : j < y}
<1>1. A \cup {x} \in SUBSET B /\ x \notin A /\ A \in SUBSET (1 .. m) /\ B \in SUBSET (1 .. m)
  <2>1. \A j \in T : j \in Int
    OBVIOUS
  <2>2. A \in SUBSET (1 .. m) /\ B \in SUBSET (1 .. m)
    OBVIOUS
  <2>3. x \notin A
    BY <2>1
  <2>4. \A j \in A \cup {x} : j \in B
    BY <2>1
  <2> HIDE DEF A, B
  <2> QED BY <2>2, <2>3, <2>4
<1>2. IsFiniteSet(A) /\ IsFiniteSet(B)
  BY <1>1, PositionsFinite
<1> HIDE DEF A, B
<1>3. Cardinality(A \cup {x}) = Cardinality(A) + 1
  BY <1>1, <1>2, FS_AddElement
<1>4. Cardinality(A \cup {x}) <= Cardinality(B)
  BY <1>1, <1>2, FS_Subset
<1> QED BY <1>3, <1>4 DEF Rank, A, B

\* from nothing to all of them,
LEMMA RankBelow ==
  ASSUME NEW m \in Nat, NEW T \in SUBSET (1 .. m), NEW x \in T
  PROVE  Rank(T, x) \in 0 .. Cardinality(T) - 1
<1>1. m + 1 \in Int /\ x < m + 1
  OBVIOUS
<1>2. Rank(T, x) + 1 <= Rank(T, m + 1)
  BY <1>1, RankRises
<1>3. {j \in T : j < m + 1} = T
  <2>1. \A j \in T : j < m + 1
    OBVIOUS
  <2> QED BY <2>1
<1>4. Rank(T, m + 1) = Cardinality(T)
  BY <1>3 DEF Rank
<1>5. Rank(T, x) \in Nat
  BY RankType
<1>6. Cardinality(T) \in Nat
  BY PositionsFinite
<1> QED BY <1>2, <1>4, <1>5, <1>6

\* and leave out no number.
LEMMA RankOnto ==
  ASSUME NEW m \in Nat, NEW T \in SUBSET (1 .. m), NEW k \in 1 .. Cardinality(T)
  PROVE  \E x \in T : Rank(T, x) = k - 1
<1> DEFINE Bad == {b \in Nat : \E U \in SUBSET (1 .. b) :
                                 \E l \in 1 .. Cardinality(U) : \A x \in U : Rank(U, x) # l - 1}
<1>1. SUFFICES ASSUME Bad # {} PROVE FALSE
  OBVIOUS
<1>2. PICK b \in Bad : \A y \in Bad : b <= y
  <2>1. Bad \in SUBSET Nat
    OBVIOUS
  <2> HIDE DEF Bad
  <2> QED BY <1>1, <2>1, LeastNat
<1>3. PICK U \in SUBSET (1 .. b) : \E l \in 1 .. Cardinality(U) : \A x \in U : Rank(U, x) # l - 1
  BY <1>2
<1>4. PICK l \in 1 .. Cardinality(U) : \A x \in U : Rank(U, x) # l - 1
  BY <1>3
<1>5. b # 0
  <2>1. b = 0 => Cardinality(U) \in 0 .. 0
    BY PositionsFinite
  <2> QED BY <1>4, <2>1
<1>6. b \in Nat /\ b - 1 \in Nat /\ b - 1 \notin Bad
  <2>1. b \in Nat
    BY <1>2
  <2>2. b - 1 \in Nat
    BY <1>5, <2>1
  <2>3. b - 1 \notin Bad
    <3>1. b - 1 \in Bad => b <= b - 1
      BY <1>2
    <3> HIDE DEF Bad
    <3> QED BY <2>1, <3>1
  <2> QED BY <2>1, <2>2, <2>3
<1>7. b \in U
  <2>1. b \notin U => U \in SUBSET (1 .. b - 1)
    BY <1>6
  <2> QED BY <1>4, <1>6, <2>1
<1> DEFINE W == U \ {b}
<1>8. W \in SUBSET (1 .. b - 1) /\ W \in SUBSET (1 .. b)
  BY <1>6
<1>9. IsFiniteSet(U) /\ Cardinality(U) = Cardinality(W) + 1 /\ Cardinality(W) \in Nat
  <2>1. IsFiniteSet(U) /\ IsFiniteSet(W) /\ Cardinality(W) \in Nat /\ Cardinality(U) \in Nat
    BY <1>6, <1>8, PositionsFinite
  <2>2. Cardinality(W) = Cardinality(U) - 1
    BY <1>7, <2>1, FS_RemoveElement
  <2> QED BY <2>1, <2>2
<1>10. {j \in U : j < b} = W
  <2>1. \A j \in U : j < b <=> j # b
    BY <1>6
  <2> QED BY <2>1
<1>11. l # Cardinality(U)
  BY <1>4, <1>7, <1>9, <1>10 DEF Rank
<1>12. l \in 1 .. Cardinality(W)
  BY <1>4, <1>9, <1>11
<1>13. PICK x \in W : Rank(W, x) = l - 1
  BY <1>6, <1>8, <1>12
<1>14. {j \in U : j < x} = {j \in W : j < x}
  BY <1>6, <1>8, <1>13
<1>15. Rank(U, x) = l - 1
  BY <1>13, <1>14 DEF Rank
<1> QED BY <1>4, <1>13, <1>15

\* The k-th position.
LEMMA NthIs ==
  ASSUME NEW m \in Nat, NEW T \in SUBSET (1 .. m), NEW k \in 1 .. Cardinality(T)
  PROVE  F!Nth(T, k) \in T /\ Rank(T, F!Nth(T, k)) = k - 1
<1>1. \E x \in T : F!Cardinality({j \in T : j < x}) = k - 1
  BY RankOnto, FileCounts DEF Rank
<1>2. F!Nth(T, k) \in T /\ F!Cardinality({j \in T : j < F!Nth(T, k)}) = k - 1
  BY <1>1 DEF F!Nth
<1> QED BY <1>2, FileCounts DEF Rank

\* Each position is the one of its rank.
LEMMA NthOf ==
  ASSUME NEW m \in Nat, NEW T \in SUBSET (1 .. m), NEW x \in T
  PROVE  Rank(T, x) + 1 \in 1 .. Cardinality(T) /\ F!Nth(T, Rank(T, x) + 1) = x
<1>1. Rank(T, x) \in Nat /\ Rank(T, x) + 1 \in 1 .. Cardinality(T) /\ Cardinality(T) \in Nat
  <2>1. Cardinality(T) \in Nat
    BY PositionsFinite
  <2>2. Rank(T, x) \in 0 .. Cardinality(T) - 1
    BY RankBelow
  <2> QED BY <2>1, <2>2
<1> DEFINE y == F!Nth(T, Rank(T, x) + 1)
<1>2. y \in T /\ Rank(T, y) = Rank(T, x)
  <2>1. y \in T /\ Rank(T, y) = (Rank(T, x) + 1) - 1
    BY <1>1, NthIs
  <2> HIDE DEF y
  <2> QED BY <1>1, <2>1
<1> HIDE DEF y
<1>3. Rank(T, x) \in Nat /\ x \in Int /\ y \in Int
  BY <1>1, <1>2
<1>4. x < y => Rank(T, x) + 1 <= Rank(T, y)
  BY <1>3, RankRises
<1>5. y < x => Rank(T, y) + 1 <= Rank(T, x)
  BY <1>2, <1>3, RankRises
<1>6. x = y
  BY <1>2, <1>3, <1>4, <1>5
<1> QED BY <1>1, <1>6 DEF y

\* The same position by its rank.
LEMMA NthOfRank ==
  ASSUME NEW m \in Nat, NEW T \in SUBSET (1 .. m), NEW x \in T, NEW k \in Nat, Rank(T, x) = k - 1
  PROVE  k \in 1 .. Cardinality(T) /\ F!Nth(T, k) = x
<1>1. Rank(T, x) + 1 = k
  BY RankType
<1> QED BY <1>1, NthOf

\* A position behind all of them comes last.
LEMMA NthMore ==
  ASSUME NEW m \in Nat, NEW T \in SUBSET (1 .. m), NEW x \in Nat, x > m
  PROVE  /\ Cardinality(T \cup {x}) = Cardinality(T) + 1
         /\ \A k \in 1 .. Cardinality(T) : F!Nth(T \cup {x}, k) = F!Nth(T, k)
         /\ F!Nth(T \cup {x}, Cardinality(T) + 1) = x
<1> DEFINE U == T \cup {x}
<1>1. U \in SUBSET (1 .. x) /\ x \notin T
  OBVIOUS
<1>2. IsFiniteSet(T) /\ Cardinality(T) \in Nat
  BY PositionsFinite
<1>3. Cardinality(U) = Cardinality(T) + 1
  BY <1>1, <1>2, FS_AddElement
<1>4. ASSUME NEW k \in 1 .. Cardinality(T) PROVE F!Nth(U, k) = F!Nth(T, k)
  <2> DEFINE y == F!Nth(T, k)
  <2>1. y \in T /\ Rank(T, y) = k - 1
    BY NthIs
  <2> HIDE DEF y
  <2>2. {j \in U : j < y} = {j \in T : j < y}
    BY <2>1
  <2>3. Rank(U, y) = k - 1 /\ y \in U
    BY <2>1, <2>2 DEF Rank
  <2> HIDE DEF U
  <2>4. F!Nth(U, k) = y
    <3>1. k \in Nat
      BY <1>2
    <3> QED BY <1>1, <2>3, <3>1, NthOfRank
  <2> QED BY <2>4 DEF y
<1>5. F!Nth(U, Cardinality(T) + 1) = x
  <2>1. {j \in U : j < x} = T
    <3>1. \A j \in U : j < x <=> j \in T
      OBVIOUS
    <3> QED BY <3>1
  <2>2. Rank(U, x) = Cardinality(T) /\ x \in U
    BY <2>1 DEF Rank
  <2> HIDE DEF U
  <2>3. PICK c : c = Cardinality(T) + 1
    OBVIOUS
  <2>4. c \in Nat /\ Rank(U, x) = c - 1
    BY <1>2, <2>2, <2>3
  <2>5. F!Nth(U, c) = x
    BY ONLY <1>1, <2>2, <2>4, NthOfRank
  <2> QED BY <2>3, <2>5
<1> QED BY <1>3, <1>4, <1>5

\* Append, under a name the provers leave alone.
More(s, v) == Append(s, v)

\* What stands at each position in order, and with one more behind.
Pick(T, v) == [k \in 1 .. Cardinality(T) |-> v[F!Nth(T, k)]]

\* A sequence with one value more, value by value.
LEMMA AppendIs ==
  ASSUME NEW E, NEW s \in Seq(E), NEW v \in E
  PROVE  /\ More(s, v) = [k \in 1 .. Len(s) + 1 |-> More(s, v)[k]]
         /\ \A k \in 1 .. Len(s) : More(s, v)[k] = s[k]
         /\ More(s, v)[Len(s) + 1] = v
<1> DEFINE t == Append(s, v)
<1>1. /\ t \in Seq(E) /\ Len(t) = Len(s) + 1
      /\ \A k \in 1 .. Len(s) : t[k] = s[k]
      /\ t[Len(s) + 1] = v
  BY AppendProperties
<1> HIDE DEF t
<1>2. t = [k \in 1 .. Len(s) + 1 |-> t[k]]
  BY <1>1
<1>3. More(s, v) = t
  BY DEF More, t
<1> QED BY <1>1, <1>2, <1>3

\* A position behind all others adds what stands there.
LEMMA PickMore ==
  ASSUME NEW m \in Nat, NEW T \in SUBSET (1 .. m), NEW x \in Nat, x > m, NEW v, NEW w,
         \A j \in T : w[j] = v[j]
  PROVE  Pick(T \cup {x}, w) = More(Pick(T, v), w[x])
<1> DEFINE l == Cardinality(T)
<1>1. l \in Nat /\ Cardinality(T \cup {x}) = l + 1
  <2>1. l \in Nat
    BY PositionsFinite
  <2>2. Cardinality(T \cup {x}) = l + 1
    BY NthMore
  <2> QED BY <2>1, <2>2
<1> HIDE DEF l
<1> DEFINE E == {v[j] : j \in T} \cup {w[x]}
           s == Pick(T, v)
           t == More(s, w[x])
<1>2. s \in Seq(E) /\ Len(s) = l /\ w[x] \in E
  <2>1. \A k \in 1 .. l : F!Nth(T, k) \in T
    BY NthIs DEF l
  <2>2. \A k \in 1 .. l : v[F!Nth(T, k)] \in E
    BY <2>1
  <2>3. w[x] \in E
    OBVIOUS
  <2> HIDE DEF E
  <2>4. s = [k \in 1 .. l |-> v[F!Nth(T, k)]]
    BY DEF Pick, l
  <2> QED BY <1>1, <2>2, <2>3, <2>4
<1> HIDE DEF E
<1>3. /\ t = [k \in 1 .. l + 1 |-> t[k]]
      /\ \A k \in 1 .. l : t[k] = s[k]
      /\ t[l + 1] = w[x]
  <2> DEFINE y == w[x]
  <2>1. s \in Seq(E) /\ Len(s) = l /\ y \in E
    BY <1>2
  <2> HIDE DEF s, y
  <2>2. /\ More(s, y) = [k \in 1 .. Len(s) + 1 |-> More(s, y)[k]]
        /\ \A k \in 1 .. Len(s) : More(s, y)[k] = s[k]
        /\ More(s, y)[Len(s) + 1] = y
    BY <2>1, AppendIs
  <2> QED BY <2>1, <2>2 DEF y
<1> HIDE DEF t
<1>4. ASSUME NEW k \in 1 .. l + 1
      PROVE  w[F!Nth(T \cup {x}, k)] = t[k]
  <2>1. CASE k = l + 1
    BY <1>3, <2>1, NthMore DEF l
  <2>2. CASE k # l + 1
    <3>1. k \in 1 .. l
      BY <1>1, <2>2
    <3>2. F!Nth(T \cup {x}, k) = F!Nth(T, k) /\ F!Nth(T, k) \in T
      BY <3>1, NthMore, NthIs, ZenonT(30) DEF l
    <3>3. s[k] = v[F!Nth(T, k)]
      BY <3>1 DEF Pick, l
    <3> QED BY <1>3, <3>1, <3>2, <3>3
  <2> QED BY <2>1, <2>2
<1>5. Pick(T \cup {x}, w) = [k \in 1 .. l + 1 |-> w[F!Nth(T \cup {x}, k)]]
  BY <1>1 DEF Pick
<1> QED BY <1>3, <1>4, <1>5 DEF t

\* The values at the positions are all there is to it.
LEMMA PickSame ==
  ASSUME NEW m \in Nat, NEW T \in SUBSET (1 .. m), NEW v, NEW w, \A j \in T : w[j] = v[j]
  PROVE  Pick(T, w) = Pick(T, v)
<1>1. \A k \in 1 .. Cardinality(T) : w[F!Nth(T, k)] = v[F!Nth(T, k)]
  BY NthIs
<1> QED BY <1>1 DEF Pick

-----------------------------------------------------------------------------
(***************************************************************************)
(* What one more element e changes in the meaning of a file f.             *)
(***************************************************************************)
Longer(g, f, e) ==
  /\ Len(f) \in Nat /\ Len(g) = Len(f) + 1
  /\ \A j \in 1 .. Len(f) : g[j] = f[j]
  /\ g[Len(f) + 1] = e

\* The setting of the next element.
Open(f) == F!SettingAt(f, Len(f) + 1)

\* The positions of some kind up to p.
LEMMA BeforeIs ==
  ASSUME NEW f, NEW p \in Int, NEW K
  PROVE  F!Before(f, p, K) \in SUBSET (1 .. p)
  BY DEF F!Before

\* Up to the old end, nothing changes with one more element,
LEMMA BeforeSame ==
  ASSUME NEW f, NEW e, NEW g, Longer(g, f, e), NEW p \in Int, p <= Len(f), NEW K
  PROVE  F!Before(g, p, K) = F!Before(f, p, K)
<1>1. \A j \in 1 .. p : g[j] = f[j]
  BY DEF Longer
<1> QED BY <1>1 DEF F!Before

\* and up to the new one there is at most the new position more.
LEMMA BeforeMore ==
  ASSUME NEW f, NEW e, NEW g, Longer(g, f, e), NEW K
  PROVE  F!Before(g, Len(g), K)
           = F!Before(f, Len(f), K) \cup (IF e.k \in K THEN {Len(g)} ELSE {})
<1>1. Len(f) \in Nat /\ Len(g) = Len(f) + 1 /\ g[Len(g)] = e /\ \A j \in 1 .. Len(f) : g[j] = f[j]
  BY DEF Longer
<1>2. ASSUME NEW j
      PROVE  j \in F!Before(g, Len(g), K)
               <=> j \in F!Before(f, Len(f), K) \/ (j = Len(g) /\ e.k \in K)
  <2>1. j \in 1 .. Len(g) <=> j \in 1 .. Len(f) \/ j = Len(g)
    BY <1>1
  <2> QED BY <1>1, <2>1 DEF F!Before
<1> QED BY <1>2

\* A setting is numbered by the ends before it.
LEMMA SettingType ==
  ASSUME NEW f, NEW p \in Nat, p > 0
  PROVE  F!SettingAt(f, p) \in Nat /\ F!SettingAt(f, p) > 0 /\ F!SettingAt(f, p) <= p
<1> DEFINE B == F!Before(f, p - 1, {"end"})
<1>1. p - 1 \in Nat /\ B \in SUBSET (1 .. p - 1)
  BY BeforeIs
<1> HIDE DEF B
<1>2. Cardinality(B) \in 0 .. p - 1
  BY <1>1, PositionsFinite
<1>3. F!SettingAt(f, p) = 1 + Cardinality(B)
  BY FileCounts DEF F!SettingAt, B
<1> QED BY <1>1, <1>2, <1>3

\* Settings come one after the other.
LEMMA SettingRises ==
  ASSUME NEW f, NEW p \in Nat, p > 0, NEW x \in Nat, p <= x
  PROVE  F!SettingAt(f, p) <= F!SettingAt(f, x)
<1> DEFINE A == F!Before(f, p - 1, {"end"})
           B == F!Before(f, x - 1, {"end"})
<1>1. x - 1 \in Nat /\ A \in SUBSET B /\ B \in SUBSET (1 .. x - 1)
  BY DEF F!Before
<1> HIDE DEF A, B
<1>2. IsFiniteSet(B)
  BY <1>1, PositionsFinite
<1>3. Cardinality(B) \in Nat
  BY <1>2, FS_CardinalityType
<1>4. Cardinality(A) <= Cardinality(B)
  BY <1>1, <1>2, FS_Subset
<1>5. Cardinality(A) \in Nat
  BY <1>1, <1>2, FS_Subset, FS_CardinalityType
<1>6. F!SettingAt(f, p) = 1 + Cardinality(A) /\ F!SettingAt(f, x) = 1 + Cardinality(B)
  BY FileCounts DEF F!SettingAt, A, B
<1> QED BY <1>3, <1>4, <1>5, <1>6

\* The elements read stay in their settings.
LEMMA SettingSame ==
  ASSUME NEW f, NEW e, NEW g, Longer(g, f, e), NEW p \in Nat, p <= Len(f) + 1
  PROVE  F!SettingAt(g, p) = F!SettingAt(f, p)
<1>1. p - 1 \in Int /\ p - 1 <= Len(f)
  BY DEF Longer
<1>2. F!Before(g, p - 1, {"end"}) = F!Before(f, p - 1, {"end"})
  BY <1>1, BeforeSame
<1> QED BY <1>2 DEF F!SettingAt

\* The end of a setting opens the next.
LEMMA OpenNext ==
  ASSUME NEW f, NEW e, NEW g, Longer(g, f, e)
  PROVE  Open(g) = IF e.k = "end" THEN Open(f) + 1 ELSE Open(f)
<1> DEFINE B == F!Before(f, Len(f), {"end"})
           G == F!Before(g, Len(g), {"end"})
<1>1. Len(f) \in Nat /\ Len(g) \in Nat /\ Len(g) > Len(f)
  BY DEF Longer
<1>2. G = B \cup (IF e.k = "end" THEN {Len(g)} ELSE {})
  BY BeforeMore
<1>3. B \in SUBSET (1 .. Len(f))
  BY <1>1, BeforeIs
<1>4. (Len(f) + 1) - 1 = Len(f) /\ (Len(g) + 1) - 1 = Len(g)
  BY <1>1
<1>5. Open(f) = 1 + Cardinality(B) /\ Open(g) = 1 + Cardinality(G)
  BY <1>4, FileCounts DEF Open, F!SettingAt
<1> HIDE DEF B, G
<1>6. Cardinality(B) \in Nat
  BY <1>1, <1>3, PositionsFinite
<1>7. e.k = "end" => Cardinality(G) = Cardinality(B) + 1
  BY <1>1, <1>2, <1>3, NthMore
<1>8. e.k # "end" => G = B
  BY <1>2
<1> QED BY <1>5, <1>6, <1>7, <1>8

\* The elements of a setting are positions of the file.
LEMMA WrittenIs ==
  ASSUME NEW f, Len(f) \in Nat, NEW k, NEW K
  PROVE  F!Written(f, k, K) \in SUBSET (1 .. Len(f))
  BY BeforeIs DEF F!Written

\* A new element is written in the setting that is open.
LEMMA WrittenMore ==
  ASSUME NEW f, NEW e, NEW g, Longer(g, f, e), NEW k, NEW K
  PROVE  F!Written(g, k, K)
           = F!Written(f, k, K) \cup (IF e.k \in K /\ k = Open(f) THEN {Len(g)} ELSE {})
<1>1. Len(f) \in Nat /\ Len(g) = Len(f) + 1
  BY DEF Longer
<1>2. F!Before(g, Len(g), K) = F!Before(f, Len(f), K) \cup (IF e.k \in K THEN {Len(g)} ELSE {})
  BY BeforeMore
<1>3. \A p \in 1 .. Len(f) + 1 : F!SettingAt(g, p) = F!SettingAt(f, p)
  BY <1>1, SettingSame
<1>4. F!Before(f, Len(f), K) \in SUBSET (1 .. Len(f))
  BY <1>1, BeforeIs
<1>5. F!SettingAt(g, Len(g)) = Open(f)
  BY <1>1, <1>3 DEF Open
<1>6. \A p \in F!Before(f, Len(f), K) : F!SettingAt(g, p) = F!SettingAt(f, p)
  BY <1>1, <1>3, <1>4
<1>7. ASSUME NEW p
      PROVE  p \in F!Written(g, k, K)
               <=> p \in F!Written(f, k, K) \/ (p = Len(g) /\ e.k \in K /\ k = Open(f))
  BY <1>2, <1>5, <1>6 DEF F!Written
<1> QED BY <1>7

\* The latest position.
LEMMA LatestMore ==
  ASSUME NEW m \in Nat, NEW T \in SUBSET (1 .. m), NEW x \in Nat, x > m
  PROVE  F!Latest(T \cup {x}) = x
<1> DEFINE U == T \cup {x}
<1>1. x \in U /\ \A j \in U : j <= x
  OBVIOUS
<1>2. \A p \in U : p # x => ~ (x <= p)
  OBVIOUS
<1> HIDE DEF U
<1>3. F!Latest(U) = CHOOSE p \in U : \A j \in U : j <= p
  BY DEF F!Latest
<1>4. F!Latest(U) \in U /\ \A j \in U : j <= F!Latest(U)
  BY <1>1, <1>3
<1> QED BY <1>1, <1>2, <1>4 DEF U

\* There is a latest of some positions.
LEMMA LatestIs ==
  ASSUME NEW m \in Nat, NEW T \in SUBSET (1 .. m), T # {}
  PROVE  F!Latest(T) \in T /\ \A j \in T : j <= F!Latest(T)
<1>1. IsFiniteSet(T) /\ Cardinality(T) \in Nat /\ Cardinality(T) # 0
  BY PositionsFinite, FS_EmptySet
<1>2. Cardinality(T) \in 1 .. Cardinality(T)
  BY <1>1
<1>3. PICK x \in T : Rank(T, x) = Cardinality(T) - 1
  BY <1>2, RankOnto
<1>4. ASSUME NEW j \in T PROVE j <= x
  <2>1. SUFFICES ASSUME x < j PROVE FALSE
    BY <1>3
  <2>2. Rank(T, x) + 1 <= Rank(T, j)
    <3>1. j \in Int
      OBVIOUS
    <3> QED BY <1>3, <2>1, <3>1, RankRises
  <2>3. Rank(T, j) \in 0 .. Cardinality(T) - 1
    BY RankBelow
  <2> QED BY <1>1, <1>3, <2>2, <2>3
<1> QED BY <1>3, <1>4 DEF F!Latest

\* What stands at each position.
Vs(f) == [j \in 1 .. Len(f) |-> f[j].v]
Qs(f) == [j \in 1 .. Len(f) |-> f[j].q]
Ds(f) == [j \in 1 .. Len(f) |-> F!CaldacAt(f, j)]

\* Positions in order, counted our way.
LEMMA OrderedIs ==
  ASSUME NEW T
  PROVE  F!InOrder(T) = [k \in 1 .. Cardinality(T) |-> F!Nth(T, k)]
  BY FileCounts DEF F!InOrder

\* The values of a setting are picked at its positions.
LEMMA ValuesAre ==
  ASSUME NEW f, Len(f) \in Nat, NEW k, NEW kind
  PROVE  F!Values(f, k, kind) = Pick(F!Written(f, k, {kind}), Vs(f))
<1> DEFINE T == F!Written(f, k, {kind})
           w == F!InOrder(T)
<1>1. w = [l \in 1 .. Cardinality(T) |-> F!Nth(T, l)]
  BY OrderedIs
<1>2. T \in SUBSET (1 .. Len(f))
  BY WrittenIs
<1>3. F!Values(f, k, kind) = [l \in DOMAIN w |-> f[w[l]].v]
  BY DEF F!Values
<1> HIDE DEF T, w
<1>4. DOMAIN w = 1 .. Cardinality(T) /\ \A l \in 1 .. Cardinality(T) : w[l] = F!Nth(T, l)
  BY <1>1
<1>5. \A l \in 1 .. Cardinality(T) : F!Nth(T, l) \in 1 .. Len(f)
  BY <1>2, NthIs
<1>6. \A l \in 1 .. Cardinality(T) : f[w[l]].v = Vs(f)[F!Nth(T, l)]
  BY <1>4, <1>5 DEF Vs
<1>7. F!Values(f, k, kind) = [l \in 1 .. Cardinality(T) |-> f[w[l]].v]
  BY <1>3, <1>4
<1> QED BY <1>6, <1>7 DEF Pick, T

\* A new element adds its value to its own setting only.
LEMMA ValuesMore ==
  ASSUME NEW f, NEW e, NEW g, Longer(g, f, e), NEW k, NEW kind
  PROVE  F!Values(g, k, kind)
           = IF e.k = kind /\ k = Open(f) THEN More(F!Values(f, k, kind), e.v) ELSE F!Values(f, k, kind)
<1> DEFINE T == F!Written(f, k, {kind})
           U == F!Written(g, k, {kind})
<1>1. Len(f) \in Nat /\ Len(g) = Len(f) + 1 /\ g[Len(g)] = e /\ \A j \in 1 .. Len(f) : g[j] = f[j]
  BY DEF Longer
<1>2. U = T \cup (IF e.k \in {kind} /\ k = Open(f) THEN {Len(g)} ELSE {})
  BY WrittenMore
<1>3. T \in SUBSET (1 .. Len(f))
  BY <1>1, WrittenIs
<1>4. F!Values(f, k, kind) = Pick(T, Vs(f)) /\ F!Values(g, k, kind) = Pick(U, Vs(g))
  BY <1>1, ValuesAre
<1>5. Vs(g)[Len(g)] = e.v /\ \A j \in T : Vs(g)[j] = Vs(f)[j]
  <2>0. Len(g) \in 1 .. Len(g)
    BY <1>1
  <2>1. \A j \in T : j \in 1 .. Len(f) /\ j \in 1 .. Len(g)
    BY <1>1, <1>3
  <2>2. Vs(g)[Len(g)] = e.v
    BY <1>1, <2>0 DEF Vs
  <2>3. \A j \in T : Vs(g)[j] = Vs(f)[j]
    BY <1>1, <2>1 DEF Vs
  <2> QED BY <2>2, <2>3
<1>0. Len(g) \in Nat /\ Len(g) > Len(f)
  BY <1>1
<1> HIDE DEF T, U
<1>6. CASE e.k = kind /\ k = Open(f)
  <2>1. U = T \cup {Len(g)}
    BY <1>2, <1>6
  <2>2. Pick(T \cup {Len(g)}, Vs(g)) = More(Pick(T, Vs(f)), Vs(g)[Len(g)])
    <3>1. Len(f) \in Nat /\ Len(g) \in Nat /\ Len(g) > Len(f) /\ \A j \in T : Vs(g)[j] = Vs(f)[j]
      BY <1>0, <1>1, <1>5
    <3> QED BY ONLY <1>3, <3>1, PickMore
  <2> QED BY <1>4, <1>5, <1>6, <2>1, <2>2
<1>7. CASE ~ (e.k = kind /\ k = Open(f))
  <2>1. U = T
    BY <1>2, <1>7
  <2>2. Pick(U, Vs(g)) = Pick(T, Vs(f))
    BY <1>1, <1>3, <1>5, <2>1, PickSame
  <2> QED BY <1>4, <1>7, <2>2
<1> QED BY <1>6, <1>7

\* The DACs.
Fields == {"subdevice", "channel", "value"}

\* The DACs that gave a field are positions of the file.
LEMMA GivenIs ==
  ASSUME NEW f, NEW p \in Nat, NEW x
  PROVE  F!Given(f, p, x) \in SUBSET (1 .. p)
  BY BeforeIs DEF F!Given

\* What the DACs read so far gave stays,
LEMMA CaldacSame ==
  ASSUME NEW f, NEW e, NEW g, Longer(g, f, e), NEW p \in Nat, p <= Len(f)
  PROVE  F!CaldacAt(g, p) = F!CaldacAt(f, p)
<1>1. Len(f) \in Nat /\ \A j \in 1 .. Len(f) : g[j] = f[j]
  BY DEF Longer
<1>2. \A j \in 1 .. p : g[j] = f[j]
  BY <1>1
<1>3. F!Before(g, p, {"caldac"}) = F!Before(f, p, {"caldac"})
  BY BeforeSame
<1>4. F!Before(f, p, {"caldac"}) \in SUBSET (1 .. p)
  BY BeforeIs
<1>5. \A x : F!Given(g, p, x) = F!Given(f, p, x)
  BY <1>2, <1>3, <1>4 DEF F!Given
<1>6. ASSUME NEW x, F!Given(f, p, x) # {} PROVE g[F!Latest(F!Given(f, p, x))] = f[F!Latest(F!Given(f, p, x))]
  <2>1. F!Given(f, p, x) \in SUBSET (1 .. p)
    BY GivenIs
  <2>2. F!Latest(F!Given(f, p, x)) \in F!Given(f, p, x)
    BY <1>6, <2>1, LatestIs
  <2> QED BY <1>2, <2>1, <2>2
<1> QED BY <1>5, <1>6 DEF F!CaldacAt

\* and a new one replaces the fields that it gives.
LEMMA CaldacMore ==
  ASSUME NEW f, NEW e, NEW g, Longer(g, f, e)
  PROVE  F!CaldacAt(g, Len(g))
           = IF e.k = "caldac"
               THEN [x \in Fields |-> IF x \in DOMAIN e.given THEN e.given[x] ELSE F!CaldacAt(f, Len(f))[x]]
               ELSE F!CaldacAt(f, Len(f))
<1>1. Len(f) \in Nat /\ Len(g) = Len(f) + 1 /\ g[Len(g)] = e /\ \A j \in 1 .. Len(f) : g[j] = f[j]
  BY DEF Longer
<1>2. F!Before(g, Len(g), {"caldac"})
        = F!Before(f, Len(f), {"caldac"}) \cup (IF e.k \in {"caldac"} THEN {Len(g)} ELSE {})
  BY BeforeMore
<1>3. F!Before(f, Len(f), {"caldac"}) \in SUBSET (1 .. Len(f))
  BY <1>1, BeforeIs
<1> DEFINE T(x) == F!Given(f, Len(f), x)
           U(x) == F!Given(g, Len(g), x)
<1>4. ASSUME NEW x PROVE U(x) = T(x) \cup (IF e.k = "caldac" /\ x \in DOMAIN e.given THEN {Len(g)} ELSE {})
  BY <1>1, <1>2, <1>3 DEF F!Given
<1>5. \A x : T(x) \in SUBSET (1 .. Len(f))
  BY <1>1, GivenIs
<1>6. \A x \in Fields : /\ F!CaldacAt(f, Len(f))[x] = IF T(x) = {} THEN 0 ELSE f[F!Latest(T(x))].given[x]
                        /\ F!CaldacAt(g, Len(g))[x] = IF U(x) = {} THEN 0 ELSE g[F!Latest(U(x))].given[x]
  BY DEF F!CaldacAt, Fields
<1>7. /\ F!CaldacAt(f, Len(f)) = [x \in Fields |-> F!CaldacAt(f, Len(f))[x]]
      /\ F!CaldacAt(g, Len(g)) = [x \in Fields |-> F!CaldacAt(g, Len(g))[x]]
  BY DEF F!CaldacAt, Fields
<1> HIDE DEF T, U
<1>8. ASSUME NEW x \in Fields
      PROVE  F!CaldacAt(g, Len(g))[x]
               = IF e.k = "caldac" /\ x \in DOMAIN e.given THEN e.given[x] ELSE F!CaldacAt(f, Len(f))[x]
  <2>1. CASE e.k = "caldac" /\ x \in DOMAIN e.given
    <3>1. U(x) = T(x) \cup {Len(g)}
      BY <1>4, <2>1
    <3>2. F!Latest(U(x)) = Len(g)
      <4>1. Len(g) \in Nat /\ Len(g) > Len(f)
        BY <1>1
      <4>2. T(x) \in SUBSET (1 .. Len(f))
        BY <1>5
      <4> QED BY <1>1, <3>1, <4>1, <4>2, LatestMore
    <3> QED BY <1>1, <1>6, <2>1, <3>1, <3>2
  <2>2. CASE ~ (e.k = "caldac" /\ x \in DOMAIN e.given)
    <3>1. U(x) = T(x)
      BY <1>4, <2>2
    <3>2. T(x) # {} => F!Latest(T(x)) \in T(x)
      BY <1>1, <1>5, LatestIs
    <3>3. T(x) # {} => g[F!Latest(T(x))] = f[F!Latest(T(x))]
      BY <1>1, <1>5, <3>2
    <3> QED BY <1>6, <2>2, <3>1, <3>3
  <2> QED BY <2>1, <2>2
<1>9. CASE e.k = "caldac"
  BY <1>7, <1>8, <1>9
<1>10. CASE e.k # "caldac"
  BY <1>7, <1>8, <1>10
<1> QED BY <1>9, <1>10

\* The DACs of a setting.
DacsOf(f, k) == Pick(F!Written(f, k, {"caldac"}), Ds(f))

\* The setting that is open gets the new DAC.
LEMMA DacsMore ==
  ASSUME NEW f, NEW e, NEW g, Longer(g, f, e), NEW k
  PROVE  DacsOf(g, k)
           = IF e.k = "caldac" /\ k = Open(f) THEN More(DacsOf(f, k), F!CaldacAt(g, Len(g))) ELSE DacsOf(f, k)
<1> DEFINE T == F!Written(f, k, {"caldac"})
           U == F!Written(g, k, {"caldac"})
<1>1. Len(f) \in Nat /\ Len(g) = Len(f) + 1
  BY DEF Longer
<1>2. U = T \cup (IF e.k \in {"caldac"} /\ k = Open(f) THEN {Len(g)} ELSE {})
  BY WrittenMore
<1>3. T \in SUBSET (1 .. Len(f))
  BY <1>1, WrittenIs
<1>4. Ds(g)[Len(g)] = F!CaldacAt(g, Len(g)) /\ \A j \in 1 .. Len(f) : Ds(g)[j] = F!CaldacAt(g, j)
  BY <1>1 DEF Ds
<1>5. \A j \in 1 .. Len(f) : F!CaldacAt(g, j) = F!CaldacAt(f, j)
  BY <1>1, CaldacSame
<1>6. \A j \in T : Ds(g)[j] = Ds(f)[j]
  BY <1>3, <1>4, <1>5 DEF Ds
<1>0. Len(g) \in Nat /\ Len(g) > Len(f)
  BY <1>1
<1> HIDE DEF T, U
<1>7. CASE e.k = "caldac" /\ k = Open(f)
  <2>1. U = T \cup {Len(g)}
    BY <1>2, <1>7
  <2>2. Pick(T \cup {Len(g)}, Ds(g)) = More(Pick(T, Ds(f)), Ds(g)[Len(g)])
    <3>1. Len(f) \in Nat /\ Len(g) \in Nat /\ Len(g) > Len(f) /\ \A j \in T : Ds(g)[j] = Ds(f)[j]
      BY <1>0, <1>1, <1>6
    <3> QED BY ONLY <1>3, <3>1, PickMore
  <2> QED BY <1>4, <1>7, <2>1, <2>2 DEF DacsOf, T, U
<1>8. CASE ~ (e.k = "caldac" /\ k = Open(f))
  <2>1. U = T
    BY <1>2, <1>8
  <2>2. Pick(U, Ds(g)) = Pick(T, Ds(f))
    BY <1>1, <1>3, <1>6, <2>1, PickSame
  <2> QED BY <1>8, <2>2 DEF DacsOf, T, U
<1> QED BY <1>7, <1>8

\* The polynomial in progress at the end of a file.
Since(f) == {j \in F!Before(f, Len(f), {"coefficient"}) : F!Before(f, Len(f), F!Directions) \subseteq 1 .. j}
PolySoFar(f) ==
  [origin |-> IF F!Before(f, Len(f), {"origin"}) = {} THEN <<0, 1>>
              ELSE f[F!Latest(F!Before(f, Len(f), {"origin"}))].q,
   coeffs |-> Pick(Since(f), Qs(f))]

SinceAt(f, p) == {j \in F!Before(f, p, {"coefficient"}) : F!Before(f, p - 1, F!Directions) \subseteq 1 .. j}

\* The polynomial at a position, picked at positions.
LEMMA PolyAtIs ==
  ASSUME NEW f, Len(f) \in Nat, NEW p \in 1 .. Len(f)
  PROVE  F!PolyAt(f, p)
           = [origin |-> IF F!Before(f, p, {"origin"}) = {} THEN <<0, 1>>
                         ELSE f[F!Latest(F!Before(f, p, {"origin"}))].q,
              coeffs |-> Pick(SinceAt(f, p), Qs(f))]
<1> DEFINE T == SinceAt(f, p)
           w == F!InOrder(T)
<1>1. w = [l \in 1 .. Cardinality(T) |-> F!Nth(T, l)]
  BY OrderedIs
<1>2. T \in SUBSET (1 .. Len(f))
  BY BeforeIs DEF SinceAt
<1>3. F!PolyAt(f, p)
        = [origin |-> IF F!Before(f, p, {"origin"}) = {} THEN <<0, 1>>
                      ELSE f[F!Latest(F!Before(f, p, {"origin"}))].q,
           coeffs |-> [l \in DOMAIN w |-> f[w[l]].q]]
  BY DEF F!PolyAt, SinceAt
<1> HIDE DEF T, w
<1>4. DOMAIN w = 1 .. Cardinality(T) /\ \A l \in 1 .. Cardinality(T) : w[l] = F!Nth(T, l)
  BY <1>1
<1>5. \A l \in 1 .. Cardinality(T) : F!Nth(T, l) \in 1 .. Len(f)
  BY <1>2, NthIs
<1>6. \A l \in 1 .. Cardinality(T) : f[w[l]].q = Qs(f)[F!Nth(T, l)]
  BY <1>4, <1>5 DEF Qs
<1>7. [l \in DOMAIN w |-> f[w[l]].q] = Pick(T, Qs(f))
  BY <1>4, <1>6 DEF Pick
<1> QED BY <1>3, <1>7 DEF T

\* What is read later does not change a polynomial read before.
LEMMA PolySame ==
  ASSUME NEW f, NEW e, NEW g, Longer(g, f, e), NEW p \in 1 .. Len(f)
  PROVE  F!PolyAt(g, p) = F!PolyAt(f, p)
<1>1. Len(f) \in Nat /\ Len(g) = Len(f) + 1 /\ \A j \in 1 .. Len(f) : g[j] = f[j]
  BY DEF Longer
<1>2. \A K : F!Before(g, p, K) = F!Before(f, p, K) /\ F!Before(g, p - 1, K) = F!Before(f, p - 1, K)
  <2>1. p \in Int /\ p - 1 \in Int /\ p <= Len(f) /\ p - 1 <= Len(f)
    BY <1>1
  <2> QED BY <2>1, BeforeSame
<1>3. SinceAt(g, p) = SinceAt(f, p)
  BY <1>2 DEF SinceAt
<1>0. p \in Nat /\ \A j \in 1 .. p : j \in 1 .. Len(f)
  BY <1>1
<1>4. SinceAt(f, p) \in SUBSET (1 .. p)
  BY BeforeIs DEF SinceAt
<1>5. \A j \in SinceAt(f, p) : Qs(g)[j] = Qs(f)[j]
  BY <1>0, <1>1, <1>4 DEF Qs
<1>6. Pick(SinceAt(f, p), Qs(g)) = Pick(SinceAt(f, p), Qs(f))
  BY <1>0, <1>4, <1>5, PickSame
<1> DEFINE T == F!Before(f, p, {"origin"})
<1>7. T \in SUBSET (1 .. p)
  BY BeforeIs
<1> HIDE DEF T
<1>8. T # {} => g[F!Latest(T)] = f[F!Latest(T)]
  <2>1. T # {} => F!Latest(T) \in T
    BY <1>0, <1>7, LatestIs
  <2> QED BY <1>0, <1>1, <1>7, <2>1
<1>9. F!PolyAt(f, p)
        = [origin |-> IF T = {} THEN <<0, 1>> ELSE f[F!Latest(T)].q, coeffs |-> Pick(SinceAt(f, p), Qs(f))]
  BY <1>1, PolyAtIs DEF T
<1>10. F!PolyAt(g, p)
        = [origin |-> IF T = {} THEN <<0, 1>> ELSE g[F!Latest(T)].q, coeffs |-> Pick(SinceAt(g, p), Qs(g))]
  <2>1. p \in 1 .. Len(g) /\ Len(g) \in Nat
    BY <1>1
  <2>2. F!Before(g, p, {"origin"}) = T
    BY <1>2 DEF T
  <2> QED BY <2>1, <2>2, PolyAtIs
<1> QED BY <1>3, <1>6, <1>8, <1>9, <1>10

\* A polynomial is what was in progress,
LEMMA PolyRead ==
  ASSUME NEW f, NEW e, NEW g, Longer(g, f, e), e.k \in F!Directions
  PROVE  F!PolyAt(g, Len(g)) = PolySoFar(f)
<1>1. Len(f) \in Nat /\ Len(g) = Len(f) + 1 /\ \A j \in 1 .. Len(f) : g[j] = f[j]
  BY DEF Longer
<1>2. /\ F!Before(g, Len(g), {"coefficient"}) = F!Before(f, Len(f), {"coefficient"})
      /\ F!Before(g, Len(g), {"origin"}) = F!Before(f, Len(f), {"origin"})
  <2>1. e.k \notin {"coefficient"} /\ e.k \notin {"origin"}
    BY DEF F!Directions
  <2>2. \A K : e.k \notin K => F!Before(g, Len(g), K) = F!Before(f, Len(f), K)
    <3>1. \A K : F!Before(g, Len(g), K) = F!Before(f, Len(f), K) \cup (IF e.k \in K THEN {Len(g)} ELSE {})
      BY BeforeMore
    <3> QED BY <3>1
  <2> QED BY <2>1, <2>2
<1>3. F!Before(g, Len(g) - 1, F!Directions) = F!Before(f, Len(f), F!Directions)
  <2>1. Len(g) - 1 = Len(f)
    BY <1>1
  <2> QED BY <1>1, <2>1, BeforeSame
<1>4. SinceAt(g, Len(g)) = Since(f)
  BY <1>2, <1>3 DEF SinceAt, Since
<1>5. Since(f) \in SUBSET (1 .. Len(f))
  BY <1>1, BeforeIs DEF Since
<1>6. \A j \in Since(f) : Qs(g)[j] = Qs(f)[j]
  BY <1>1, <1>5 DEF Qs
<1>7. Pick(Since(f), Qs(g)) = Pick(Since(f), Qs(f))
  BY <1>1, <1>5, <1>6, PickSame
<1> DEFINE T == F!Before(f, Len(f), {"origin"})
<1>8. T \in SUBSET (1 .. Len(f))
  BY <1>1, BeforeIs
<1> HIDE DEF T
<1>9. T # {} => g[F!Latest(T)] = f[F!Latest(T)]
  <2>1. T # {} => F!Latest(T) \in T
    BY <1>1, <1>8, LatestIs
  <2> QED BY <1>1, <1>8, <2>1
<1>10. F!PolyAt(g, Len(g))
        = [origin |-> IF T = {} THEN <<0, 1>> ELSE g[F!Latest(T)].q, coeffs |-> Pick(Since(f), Qs(g))]
  <2>1. Len(g) \in 1 .. Len(g) /\ Len(g) \in Nat
    BY <1>1
  <2>2. F!Before(g, Len(g), {"origin"}) = T
    BY <1>2 DEF T
  <2> QED BY <1>4, <2>1, <2>2, PolyAtIs
<1> QED BY <1>7, <1>9, <1>10 DEF PolySoFar, T

\* which then begins anew, with the origin it had.
LEMMA PolyProgress ==
  ASSUME NEW f, NEW e, NEW g, Longer(g, f, e)
  PROVE  PolySoFar(g)
           = [origin |-> IF e.k = "origin" THEN e.q ELSE PolySoFar(f).origin,
              coeffs |-> IF e.k \in F!Directions THEN << >>
                         ELSE IF e.k = "coefficient" THEN More(PolySoFar(f).coeffs, e.q)
                         ELSE PolySoFar(f).coeffs]
<1>1. Len(f) \in Nat /\ Len(g) = Len(f) + 1 /\ g[Len(g)] = e /\ \A j \in 1 .. Len(f) : g[j] = f[j]
  BY DEF Longer
<1>2. Len(g) \in Nat /\ Len(g) > Len(f)
  BY <1>1
<1> DEFINE T == F!Before(f, Len(f), {"origin"})
           U == F!Before(g, Len(g), {"origin"})
           A == Since(f)
           B == Since(g)
<1>3. T \in SUBSET (1 .. Len(f)) /\ A \in SUBSET (1 .. Len(f)) /\ B \in SUBSET (1 .. Len(g))
  BY <1>1, <1>2, BeforeIs DEF Since
<1>4. U = T \cup (IF e.k \in {"origin"} THEN {Len(g)} ELSE {})
  BY BeforeMore
<1>5. F!Before(g, Len(g), {"coefficient"})
        = F!Before(f, Len(f), {"coefficient"}) \cup (IF e.k \in {"coefficient"} THEN {Len(g)} ELSE {})
  BY BeforeMore
<1>6. F!Before(g, Len(g), F!Directions)
        = F!Before(f, Len(f), F!Directions) \cup (IF e.k \in F!Directions THEN {Len(g)} ELSE {})
  BY BeforeMore
<1>7. /\ F!Before(f, Len(f), {"coefficient"}) \in SUBSET (1 .. Len(f))
      /\ F!Before(f, Len(f), F!Directions) \in SUBSET (1 .. Len(f))
  BY <1>1, BeforeIs
<1>8. /\ PolySoFar(f).origin = IF T = {} THEN <<0, 1>> ELSE f[F!Latest(T)].q
      /\ PolySoFar(f).coeffs = Pick(A, Qs(f))
      /\ PolySoFar(g) = [origin |-> IF U = {} THEN <<0, 1>> ELSE g[F!Latest(U)].q,
                         coeffs |-> Pick(B, Qs(g))]
  BY DEF PolySoFar
<1>9. \A j \in A : Qs(g)[j] = Qs(f)[j]
  BY <1>1, <1>3 DEF Qs
<1>10. Qs(g)[Len(g)] = e.q
  <2>1. Len(g) \in 1 .. Len(g)
    BY <1>1
  <2> QED BY <1>1, <2>1 DEF Qs
<1>11. e.k \in F!Directions => B = {}
  <2>1. SUFFICES ASSUME e.k \in F!Directions, NEW j \in B PROVE FALSE
    OBVIOUS
  <2>2. j \in F!Before(f, Len(f), {"coefficient"}) /\ Len(g) \in 1 .. j
    BY <1>5, <1>6, <2>1 DEF Since, F!Directions
  <2> QED BY <1>1, <1>7, <2>2
<1>12. e.k = "coefficient" => B = A \cup {Len(g)}
  <2>1. SUFFICES ASSUME e.k = "coefficient" PROVE B = A \cup {Len(g)}
    OBVIOUS
  <2>2. F!Before(g, Len(g), F!Directions) = F!Before(f, Len(f), F!Directions)
    BY <1>6, <2>1 DEF F!Directions
  <2>3. F!Before(f, Len(f), F!Directions) \subseteq 1 .. Len(g)
    BY <1>1, <1>7
  <2>4. F!Before(g, Len(g), {"coefficient"}) = F!Before(f, Len(f), {"coefficient"}) \cup {Len(g)}
    BY <1>5, <2>1
  <2> QED BY <2>2, <2>3, <2>4 DEF Since
<1>13. e.k \notin F!Directions /\ e.k # "coefficient" => B = A
  BY <1>5, <1>6 DEF Since
<1> HIDE DEF T, U, A, B
<1>14. Pick(B, Qs(g)) = IF e.k \in F!Directions THEN << >>
                        ELSE IF e.k = "coefficient" THEN More(Pick(A, Qs(f)), e.q)
                        ELSE Pick(A, Qs(f))
  <2>1. CASE e.k \in F!Directions
    <3>1. Cardinality({}) = 0
      BY FS_EmptySet
    <3>2. Pick({}, Qs(g)) = << >>
      BY <3>1 DEF Pick
    <3> QED BY <1>11, <2>1, <3>2
  <2>2. CASE e.k = "coefficient"
    <3>1. Pick(A \cup {Len(g)}, Qs(g)) = More(Pick(A, Qs(f)), Qs(g)[Len(g)])
      <4>1. Len(f) \in Nat /\ A \in SUBSET (1 .. Len(f))
        BY <1>1, <1>3
      <4> QED BY ONLY <1>2, <1>9, <4>1, PickMore
    <3> QED BY <1>10, <1>12, <2>2, <3>1 DEF F!Directions
  <2>3. CASE e.k \notin F!Directions /\ e.k # "coefficient"
    <3>1. Pick(A, Qs(g)) = Pick(A, Qs(f))
      BY <1>1, <1>3, <1>9, PickSame
    <3> QED BY <1>13, <2>3, <3>1
  <2> QED BY <2>1, <2>2, <2>3
<1>15. (IF U = {} THEN <<0, 1>> ELSE g[F!Latest(U)].q)
         = IF e.k = "origin" THEN e.q ELSE IF T = {} THEN <<0, 1>> ELSE f[F!Latest(T)].q
  <2>1. CASE e.k = "origin"
    <3>1. U = T \cup {Len(g)}
      BY <1>4, <2>1
    <3>2. F!Latest(U) = Len(g)
      BY <1>1, <1>2, <1>3, <3>1, LatestMore
    <3> QED BY <1>1, <2>1, <3>1, <3>2
  <2>2. CASE e.k # "origin"
    <3>1. U = T
      BY <1>4, <2>2
    <3>2. T # {} => F!Latest(T) \in T
      BY <1>1, <1>3, LatestIs
    <3>3. T # {} => g[F!Latest(T)] = f[F!Latest(T)]
      BY <1>1, <1>3, <3>2
    <3> QED BY <2>2, <3>1, <3>3
  <2> QED BY <2>1, <2>2
<1> QED BY <1>8, <1>14, <1>15

\* No positions, no values.
LEMMA NothingPicked ==
  ASSUME NEW v
  PROVE  Pick({}, v) = << >>
<1>1. Cardinality({}) = 0
  BY FS_EmptySet
<1> QED BY <1>1 DEF Pick

\* A polynomial of a setting is read once.
LEMMA PolyOfMore ==
  ASSUME NEW f, NEW e, NEW g, Longer(g, f, e), NEW k, NEW dir \in F!Directions
  PROVE  F!PolyOf(g, k, dir)
           = IF e.k = dir /\ k = Open(f) /\ F!Written(f, k, {dir}) = {} THEN PolySoFar(f) ELSE F!PolyOf(f, k, dir)
<1> DEFINE T == F!Written(f, k, {dir})
           U == F!Written(g, k, {dir})
<1>1. Len(f) \in Nat /\ Len(g) = Len(f) + 1 /\ Len(g) \in Nat /\ Len(g) > Len(f)
  BY DEF Longer
<1>2. U = T \cup (IF e.k \in {dir} /\ k = Open(f) THEN {Len(g)} ELSE {})
  BY WrittenMore
<1>3. T \in SUBSET (1 .. Len(f))
  BY <1>1, WrittenIs
<1>4. /\ F!PolyOf(f, k, dir) = IF T = {} THEN F!NoPoly ELSE F!PolyAt(f, F!Nth(T, 1))
      /\ F!PolyOf(g, k, dir) = IF U = {} THEN F!NoPoly ELSE F!PolyAt(g, F!Nth(U, 1))
  BY DEF F!PolyOf
<1> HIDE DEF T, U
<1>5. CASE T = {}
  <2>1. CASE e.k = dir /\ k = Open(f)
    <3>1. U = {} \cup {Len(g)} /\ U # {}
      BY <1>2, <1>5, <2>1
    <3>2. {} \in SUBSET (1 .. Len(f)) /\ Cardinality({}) = 0
      BY FS_EmptySet
    <3>3. F!Nth({} \cup {Len(g)}, Cardinality({}) + 1) = Len(g)
      BY ONLY <1>1, <3>2, NthMore
    <3>4. F!Nth(U, 1) = Len(g)
      BY <3>1, <3>2, <3>3
    <3>5. F!PolyAt(g, Len(g)) = PolySoFar(f)
      BY <2>1, PolyRead
    <3> QED BY <1>4, <1>5, <2>1, <3>1, <3>4, <3>5 DEF T
  <2>2. CASE ~ (e.k = dir /\ k = Open(f))
    <3>1. U = {}
      BY <1>2, <1>5, <2>2
    <3> QED BY <1>4, <1>5, <2>2, <3>1
  <2> QED BY <2>1, <2>2
<1>6. CASE T # {}
  <2>1. IsFiniteSet(T) /\ Cardinality(T) \in Nat
    BY <1>1, <1>3, PositionsFinite
  <2>2. 1 \in 1 .. Cardinality(T)
    BY <1>6, <2>1, FS_EmptySet
  <2>3. F!Nth(T, 1) \in T
    BY <1>1, <1>3, <2>2, NthIs
  <2>4. F!Nth(U, 1) = F!Nth(T, 1)
    <3>1. CASE U = T
      BY <3>1
    <3>2. CASE U = T \cup {Len(g)}
      <4>1. F!Nth(T \cup {Len(g)}, 1) = F!Nth(T, 1)
        BY ONLY <1>1, <1>3, <2>2, NthMore, ZenonT(30)
      <4> QED BY <3>2, <4>1
    <3> QED BY <1>2, <3>1, <3>2
  <2>5. F!PolyAt(g, F!Nth(T, 1)) = F!PolyAt(f, F!Nth(T, 1))
    BY <1>3, <2>3, PolySame
  <2>6. U # {}
    BY <1>2, <1>6
  <2> QED BY <1>4, <1>6, <2>4, <2>5, <2>6 DEF T
<1> QED BY <1>5, <1>6

\* The subdevice a setting is of: the last one named.
SubOf(f, k) == LET s == F!Values(f, k, "subdevice") IN IF s = << >> THEN 0 ELSE s[Len(s)]

\* A later subdevice replaces an earlier one.
LEMMA SubMore ==
  ASSUME NEW f, NEW e, NEW g, Longer(g, f, e), NEW k
  PROVE  SubOf(g, k) = IF e.k = "subdevice" /\ k = Open(f) THEN e.v ELSE SubOf(f, k)
<1> DEFINE s == F!Values(f, k, "subdevice")
           t == F!Values(g, k, "subdevice")
           T == F!Written(f, k, {"subdevice"})
<1>1. t = IF e.k = "subdevice" /\ k = Open(f) THEN More(s, e.v) ELSE s
  BY ValuesMore
<1>2. Len(f) \in Nat /\ T \in SUBSET (1 .. Len(f)) /\ s = Pick(T, Vs(f))
  BY ValuesAre, WrittenIs DEF Longer
<1>3. \E A : s \in Seq(A) /\ e.v \in A
  <2>1. Cardinality(T) \in Nat
    BY <1>2, PositionsFinite
  <2> DEFINE A == {Vs(f)[F!Nth(T, l)] : l \in 1 .. Cardinality(T)} \cup {e.v}
  <2>2. s = [l \in 1 .. Cardinality(T) |-> Vs(f)[F!Nth(T, l)]]
    BY <1>2 DEF Pick
  <2>3. \A l \in 1 .. Cardinality(T) : Vs(f)[F!Nth(T, l)] \in A
    OBVIOUS
  <2>4. e.v \in A
    OBVIOUS
  <2> HIDE DEF A, T, s
  <2>5. s \in Seq(A)
    BY <2>1, <2>2, <2>3
  <2> QED BY <2>4, <2>5
<1> HIDE DEF s, t, T
<1>4. PICK A : s \in Seq(A) /\ e.v \in A
  BY <1>3
<1>5. /\ More(s, e.v) = [l \in 1 .. Len(s) + 1 |-> More(s, e.v)[l]]
      /\ More(s, e.v)[Len(s) + 1] = e.v
  <2> DEFINE v == e.v
  <2>1. v \in A
    BY <1>4
  <2> HIDE DEF v
  <2>2. /\ More(s, v) = [l \in 1 .. Len(s) + 1 |-> More(s, v)[l]]
        /\ More(s, v)[Len(s) + 1] = v
    BY <1>4, <2>1, AppendIs
  <2> QED BY <2>2 DEF v
<1>6. Len(s) \in Nat /\ Len(More(s, e.v)) = Len(s) + 1 /\ More(s, e.v) # << >>
  <2>1. Len(s) \in Nat
    BY <1>4
  <2> DEFINE x == More(s, e.v)
  <2>2. x = [l \in 1 .. Len(s) + 1 |-> x[l]]
    BY <1>5
  <2> HIDE DEF x
  <2>3. Len(x) = Len(s) + 1 /\ x # << >>
    BY <2>1, <2>2
  <2> QED BY <2>1, <2>3 DEF x
<1>7. CASE e.k = "subdevice" /\ k = Open(f)
  BY <1>1, <1>5, <1>6, <1>7 DEF SubOf, t
<1>8. CASE ~ (e.k = "subdevice" /\ k = Open(f))
  BY <1>1, <1>8 DEF SubOf, s, t
<1> QED BY <1>7, <1>8

\* The meaning of a setting in the words of these lemmas.
LEMMA MeaningIs ==
  ASSUME NEW f, Len(f) \in Nat, NEW k
  PROVE  F!Meaning(f, k)
           = [subdevice |-> SubOf(f, k), channels |-> F!Values(f, k, "channel"),
              ranges |-> F!Values(f, k, "range"), arefs |-> F!Values(f, k, "aref"),
              caldacs |-> DacsOf(f, k),
              to_phys |-> F!PolyOf(f, k, "to_phys"), from_phys |-> F!PolyOf(f, k, "from_phys")]
<1> DEFINE T == F!Written(f, k, {"caldac"})
           w == F!InOrder(T)
<1>1. w = [l \in 1 .. Cardinality(T) |-> F!Nth(T, l)]
  BY OrderedIs
<1>2. T \in SUBSET (1 .. Len(f))
  BY WrittenIs
<1>3. F!Meaning(f, k)
        = [subdevice |-> SubOf(f, k), channels |-> F!Values(f, k, "channel"),
           ranges |-> F!Values(f, k, "range"), arefs |-> F!Values(f, k, "aref"),
           caldacs |-> [l \in DOMAIN w |-> F!CaldacAt(f, w[l])],
           to_phys |-> F!PolyOf(f, k, "to_phys"), from_phys |-> F!PolyOf(f, k, "from_phys")]
  BY DEF F!Meaning, SubOf
<1> HIDE DEF T, w
<1>4. DOMAIN w = 1 .. Cardinality(T) /\ \A l \in 1 .. Cardinality(T) : w[l] = F!Nth(T, l)
  BY <1>1
<1>5. \A l \in 1 .. Cardinality(T) : F!Nth(T, l) \in 1 .. Len(f)
  BY <1>2, NthIs
<1>6. \A l \in 1 .. Cardinality(T) : F!CaldacAt(f, w[l]) = Ds(f)[F!Nth(T, l)]
  BY <1>4, <1>5 DEF Ds
<1>7. [l \in DOMAIN w |-> F!CaldacAt(f, w[l])] = DacsOf(f, k)
  BY <1>4, <1>6 DEF Pick, DacsOf, T
<1> QED BY <1>3, <1>7

\* What one element changes: a field of the setting it is in.
LEMMA MeaningMore ==
  ASSUME NEW f, NEW e, NEW g, Longer(g, f, e), NEW k
  PROVE  F!Meaning(g, k)
           = IF k # Open(f) THEN F!Meaning(f, k)
             ELSE [subdevice |-> IF e.k = "subdevice" THEN e.v ELSE F!Meaning(f, k).subdevice,
                   channels |-> IF e.k = "channel" THEN More(F!Meaning(f, k).channels, e.v)
                                ELSE F!Meaning(f, k).channels,
                   ranges |-> IF e.k = "range" THEN More(F!Meaning(f, k).ranges, e.v)
                              ELSE F!Meaning(f, k).ranges,
                   arefs |-> IF e.k = "aref" THEN More(F!Meaning(f, k).arefs, e.v)
                             ELSE F!Meaning(f, k).arefs,
                   caldacs |-> IF e.k = "caldac" THEN More(F!Meaning(f, k).caldacs, F!CaldacAt(g, Len(g)))
                               ELSE F!Meaning(f, k).caldacs,
                   to_phys |-> IF e.k = "to_phys" /\ F!Written(f, k, {"to_phys"}) = {} THEN PolySoFar(f)
                               ELSE F!Meaning(f, k).to_phys,
                   from_phys |-> IF e.k = "from_phys" /\ F!Written(f, k, {"from_phys"}) = {} THEN PolySoFar(f)
                                 ELSE F!Meaning(f, k).from_phys]
<1>1. Len(f) \in Nat /\ Len(g) \in Nat
  BY DEF Longer
<1>2. SubOf(g, k) = IF e.k = "subdevice" /\ k = Open(f) THEN e.v ELSE SubOf(f, k)
  BY SubMore
<1>3. \A kind : F!Values(g, k, kind)
           = IF e.k = kind /\ k = Open(f) THEN More(F!Values(f, k, kind), e.v) ELSE F!Values(f, k, kind)
  BY ValuesMore
<1>4. DacsOf(g, k)
        = IF e.k = "caldac" /\ k = Open(f) THEN More(DacsOf(f, k), F!CaldacAt(g, Len(g))) ELSE DacsOf(f, k)
  BY DacsMore
<1>5. \A dir \in F!Directions : F!PolyOf(g, k, dir)
        = IF e.k = dir /\ k = Open(f) /\ F!Written(f, k, {dir}) = {} THEN PolySoFar(f) ELSE F!PolyOf(f, k, dir)
  BY PolyOfMore
<1>6. "to_phys" \in F!Directions /\ "from_phys" \in F!Directions
  BY DEF F!Directions
<1>7. F!Meaning(f, k)
           = [subdevice |-> SubOf(f, k), channels |-> F!Values(f, k, "channel"),
              ranges |-> F!Values(f, k, "range"), arefs |-> F!Values(f, k, "aref"),
              caldacs |-> DacsOf(f, k),
              to_phys |-> F!PolyOf(f, k, "to_phys"), from_phys |-> F!PolyOf(f, k, "from_phys")]
  BY <1>1, MeaningIs
<1>8. F!Meaning(g, k)
           = [subdevice |-> SubOf(g, k), channels |-> F!Values(g, k, "channel"),
              ranges |-> F!Values(g, k, "range"), arefs |-> F!Values(g, k, "aref"),
              caldacs |-> DacsOf(g, k),
              to_phys |-> F!PolyOf(g, k, "to_phys"), from_phys |-> F!PolyOf(g, k, "from_phys")]
  BY <1>1, MeaningIs
<1>9. CASE k # Open(f)
  BY <1>2, <1>3, <1>4, <1>5, <1>6, <1>7, <1>8, <1>9
<1>10. CASE k = Open(f)
  <2>1. /\ F!Meaning(f, k).subdevice = SubOf(f, k) /\ F!Meaning(f, k).channels = F!Values(f, k, "channel")
        /\ F!Meaning(f, k).ranges = F!Values(f, k, "range") /\ F!Meaning(f, k).arefs = F!Values(f, k, "aref")
        /\ F!Meaning(f, k).caldacs = DacsOf(f, k)
        /\ F!Meaning(f, k).to_phys = F!PolyOf(f, k, "to_phys")
        /\ F!Meaning(f, k).from_phys = F!PolyOf(f, k, "from_phys")
    BY <1>7
  <2>2. SubOf(g, k) = IF e.k = "subdevice" THEN e.v ELSE F!Meaning(f, k).subdevice
    BY <1>2, <1>10, <2>1
  <2>3. F!Values(g, k, "channel")
          = IF e.k = "channel" THEN More(F!Meaning(f, k).channels, e.v) ELSE F!Meaning(f, k).channels
    BY <1>3, <1>10, <2>1
  <2>4. F!Values(g, k, "range")
          = IF e.k = "range" THEN More(F!Meaning(f, k).ranges, e.v) ELSE F!Meaning(f, k).ranges
    BY <1>3, <1>10, <2>1
  <2>5. F!Values(g, k, "aref")
          = IF e.k = "aref" THEN More(F!Meaning(f, k).arefs, e.v) ELSE F!Meaning(f, k).arefs
    BY <1>3, <1>10, <2>1
  <2>6. DacsOf(g, k)
          = IF e.k = "caldac" THEN More(F!Meaning(f, k).caldacs, F!CaldacAt(g, Len(g)))
            ELSE F!Meaning(f, k).caldacs
    BY <1>4, <1>10, <2>1
  <2>7. F!PolyOf(g, k, "to_phys")
          = IF e.k = "to_phys" /\ F!Written(f, k, {"to_phys"}) = {} THEN PolySoFar(f)
            ELSE F!Meaning(f, k).to_phys
    BY <1>5, <1>6, <1>10, <2>1
  <2>8. F!PolyOf(g, k, "from_phys")
          = IF e.k = "from_phys" /\ F!Written(f, k, {"from_phys"}) = {} THEN PolySoFar(f)
            ELSE F!Meaning(f, k).from_phys
    BY <1>5, <1>6, <1>10, <2>1
  <2> QED BY <1>8, <1>10, <2>2, <2>3, <2>4, <2>5, <2>6, <2>7, <2>8
<1> QED BY <1>9, <1>10

\* The settings that say something are not beyond the open one.
LEMMA CountType ==
  ASSUME NEW f, Len(f) \in Nat
  PROVE  F!SettingCount(f) \in Nat /\ F!SettingCount(f) <= Open(f) /\ Open(f) \in Nat /\ Open(f) > 0
<1> DEFINE T == F!Before(f, Len(f), F!Says)
<1>1. T \in SUBSET (1 .. Len(f))
  BY BeforeIs
<1>2. F!SettingCount(f) = IF T = {} THEN 0 ELSE F!SettingAt(f, F!Latest(T))
  BY DEF F!SettingCount
<1> HIDE DEF T
<1>3. Open(f) \in Nat /\ Open(f) > 0
  <2>1. Len(f) + 1 \in Nat /\ Len(f) + 1 > 0
    OBVIOUS
  <2> QED BY <2>1, SettingType DEF Open
<1>4. CASE T = {}
  BY <1>2, <1>3, <1>4
<1>5. CASE T # {}
  <2>1. F!Latest(T) \in 1 .. Len(f)
    BY <1>1, <1>5, LatestIs
  <2> DEFINE x == F!Latest(T)
  <2>2. x \in Nat /\ x > 0 /\ Len(f) + 1 \in Nat /\ x <= Len(f) + 1
    BY <2>1
  <2> HIDE DEF x
  <2>3. F!SettingAt(f, x) \in Nat /\ F!SettingAt(f, x) <= Open(f)
    BY <2>2, SettingType, SettingRises DEF Open
  <2> QED BY <1>2, <1>3, <1>5, <2>3 DEF x
<1> QED BY <1>4, <1>5

\* An element that says something makes the open setting one of them.
LEMMA CountMore ==
  ASSUME NEW f, NEW e, NEW g, Longer(g, f, e)
  PROVE  F!SettingCount(g) = IF e.k \in F!Says THEN Open(f) ELSE F!SettingCount(f)
<1> DEFINE T == F!Before(f, Len(f), F!Says)
           U == F!Before(g, Len(g), F!Says)
<1>1. Len(f) \in Nat /\ Len(g) = Len(f) + 1 /\ Len(g) \in Nat /\ Len(g) > Len(f)
  BY DEF Longer
<1>2. U = T \cup (IF e.k \in F!Says THEN {Len(g)} ELSE {})
  BY BeforeMore
<1>3. T \in SUBSET (1 .. Len(f))
  BY <1>1, BeforeIs
<1>4. /\ F!SettingCount(f) = IF T = {} THEN 0 ELSE F!SettingAt(f, F!Latest(T))
      /\ F!SettingCount(g) = IF U = {} THEN 0 ELSE F!SettingAt(g, F!Latest(U))
  BY DEF F!SettingCount
<1> HIDE DEF T, U
<1>5. CASE e.k \in F!Says
  <2>1. U = T \cup {Len(g)}
    BY <1>2, <1>5
  <2>2. F!Latest(U) = Len(g)
    BY <1>1, <1>3, <2>1, LatestMore
  <2>3. F!SettingAt(g, Len(g)) = Open(f)
    <3>1. Len(g) <= Len(f) + 1
      BY <1>1
    <3>2. F!SettingAt(g, Len(g)) = F!SettingAt(f, Len(g))
      BY <1>1, <3>1, SettingSame
    <3> QED BY <1>1, <3>2 DEF Open
  <2> QED BY <1>4, <1>5, <2>1, <2>2, <2>3
<1>6. CASE e.k \notin F!Says
  <2>1. U = T
    BY <1>2, <1>6
  <2>2. T # {} => F!SettingAt(g, F!Latest(T)) = F!SettingAt(f, F!Latest(T))
    <3>1. SUFFICES ASSUME T # {} PROVE F!SettingAt(g, F!Latest(T)) = F!SettingAt(f, F!Latest(T))
      OBVIOUS
    <3>2. F!Latest(T) \in 1 .. Len(f)
      BY <1>1, <1>3, <3>1, LatestIs
    <3> DEFINE x == F!Latest(T)
    <3>3. x \in Nat /\ x <= Len(f) + 1
      BY <1>1, <3>2
    <3> HIDE DEF x
    <3>4. F!SettingAt(g, x) = F!SettingAt(f, x)
      BY <3>3, SettingSame
    <3> QED BY <3>4 DEF x
  <2> QED BY <1>4, <1>6, <2>1, <2>2
<1> QED BY <1>5, <1>6

\* Beyond the last setting that says something nothing is said.
LEMMA SaidNothing ==
  ASSUME NEW f, Len(f) \in Nat, NEW k \in Nat, k > F!SettingCount(f), NEW K, K \subseteq F!Says
  PROVE  F!Written(f, k, K) = {}
<1> DEFINE T == F!Before(f, Len(f), F!Says)
<1>1. T \in SUBSET (1 .. Len(f))
  BY BeforeIs
<1>2. F!SettingCount(f) = IF T = {} THEN 0 ELSE F!SettingAt(f, F!Latest(T))
  BY DEF F!SettingCount
<1>3. SUFFICES ASSUME NEW p \in F!Written(f, k, K) PROVE FALSE
  OBVIOUS
<1>4. p \in T /\ F!SettingAt(f, p) = k
  BY <1>3 DEF F!Written, F!Before
<1> HIDE DEF T
<1>5. F!Latest(T) \in T /\ p <= F!Latest(T)
  BY <1>1, <1>4, LatestIs
<1> DEFINE x == F!Latest(T)
<1>6. p \in Nat /\ p > 0 /\ x \in Nat /\ x > 0 /\ p <= x
  <2>1. \A j \in T : j \in Nat /\ j > 0
    BY <1>1
  <2> QED BY <1>4, <1>5, <2>1
<1> HIDE DEF x
<1>7. F!SettingAt(f, p) <= F!SettingAt(f, x) /\ F!SettingAt(f, x) \in Nat
  BY <1>6, SettingRises, SettingType
<1> QED BY <1>2, <1>4, <1>7 DEF x

\* So a setting beyond them is an empty one.
LEMMA EmptyBeyond ==
  ASSUME NEW f, Len(f) \in Nat, NEW k \in Nat, k > F!SettingCount(f)
  PROVE  F!Meaning(f, k) = F!EmptySetting
<1>1. \A kind \in F!Says : F!Written(f, k, {kind}) = {}
  <2>1. \A kind \in F!Says : {kind} \subseteq F!Says
    OBVIOUS
  <2> QED BY <2>1, SaidNothing
<1>2. ASSUME NEW kind \in F!Says PROVE F!Values(f, k, kind) = << >>
  <2>1. F!Values(f, k, kind) = Pick(F!Written(f, k, {kind}), Vs(f))
    BY ValuesAre
  <2>2. F!Written(f, k, {kind}) = {}
    BY <1>1
  <2> QED BY <2>1, <2>2, NothingPicked
<1>3. DacsOf(f, k) = << >>
  BY <1>1, NothingPicked DEF DacsOf, F!Says
<1>4. F!PolyOf(f, k, "to_phys") = F!NoPoly /\ F!PolyOf(f, k, "from_phys") = F!NoPoly
  BY <1>1 DEF F!PolyOf, F!Says, F!Directions
<1>5. /\ F!Values(f, k, "channel") = << >> /\ F!Values(f, k, "range") = << >>
      /\ F!Values(f, k, "aref") = << >> /\ F!Values(f, k, "subdevice") = << >>
  BY <1>2 DEF F!Says
<1>6. SubOf(f, k) = 0
  BY <1>5 DEF SubOf
<1> QED BY <1>3, <1>4, <1>5, <1>6, MeaningIs DEF F!EmptySetting

\* The file with nothing read.
LEMMA EmptyFile ==
  /\ Open(<< >>) = 1 /\ F!SettingCount(<< >>) = 0
  /\ PolySoFar(<< >>) = F!NoPoly
  /\ F!CaldacAt(<< >>, 0) = [subdevice |-> 0, channel |-> 0, value |-> 0]
  /\ \A K : F!Before(<< >>, 0, K) = {}
<1>1. \A K : F!Before(<< >>, 0, K) = {}
  BY DEF F!Before
<1>2. Len(<< >>) = 0 /\ (0 + 1) - 1 = 0
  OBVIOUS
<1>4. Open(<< >>) = 1
  <2>1. F!Cardinality({}) = 0
    BY FileCounts, FS_EmptySet
  <2>2. F!Before(<< >>, (Len(<< >>) + 1) - 1, {"end"}) = {}
    <3>1. (Len(<< >>) + 1) - 1 = 0
      OBVIOUS
    <3> QED BY <1>1, <3>1, Zenon
  <2>3. Open(<< >>) = 1 + F!Cardinality(F!Before(<< >>, (Len(<< >>) + 1) - 1, {"end"}))
    BY DEF Open, F!SettingAt
  <2>4. Open(<< >>) = 1 + 0
    BY <2>1, <2>2, <2>3, Zenon
  <2> QED BY <2>4
<1>5. F!SettingCount(<< >>) = 0
  BY <1>1, <1>2 DEF F!SettingCount
<1>6. Since(<< >>) = {}
  BY <1>1, <1>2 DEF Since
<1>7. PolySoFar(<< >>) = F!NoPoly
  BY <1>1, <1>2, <1>6, NothingPicked DEF PolySoFar, F!NoPoly
<1>8. \A x : F!Given(<< >>, 0, x) = {}
  BY <1>1 DEF F!Given
<1>9. F!CaldacAt(<< >>, 0) = [subdevice |-> 0, channel |-> 0, value |-> 0]
  BY <1>8 DEF F!CaldacAt
<1> QED BY <1>1, <1>4, <1>5, <1>7, <1>9

-----------------------------------------------------------------------------
(***************************************************************************)
(* The parser's state, told from what it has read.                         *)
(***************************************************************************)
Elements == F!Names \cup UNION Themes

CalibShape == calib = [driver |-> calib.driver, board |-> calib.board, settings |-> calib.settings]

FileRead ==
  /\ read \in Seq(Elements)
  /\ index + 1 = Open(read) /\ index \in Nat
  /\ caldac = F!CaldacAt(read, Len(read))
  /\ poly = PolySoFar(read)
  /\ calib.settings = F!File(read)
  /\ \A p \in F!Before(read, Len(read), F!Directions) : F!PolyAt(read, p).coeffs # << >>

\* An element that says nothing leaves the meaning of the file alone.
LEMMA FileSame ==
  ASSUME NEW f, NEW e, NEW g, Longer(g, f, e), e.k \notin F!Says
  PROVE  F!File(g) = F!File(f)
<1>1. Len(f) \in Nat
  BY DEF Longer
<1>2. F!SettingCount(g) = F!SettingCount(f)
  BY CountMore
<1>3. ASSUME NEW k PROVE F!Meaning(g, k) = F!Meaning(f, k)
  <2>1. /\ e.k # "subdevice" /\ e.k # "channel" /\ e.k # "range" /\ e.k # "aref" /\ e.k # "caldac"
        /\ e.k # "to_phys" /\ e.k # "from_phys"
    BY DEF F!Says, F!Directions
  <2>2. CASE k # Open(f)
    BY <2>2, MeaningMore
  <2>3. CASE k = Open(f)
    <3> DEFINE M == F!Meaning(f, k)
    <3>1. F!Meaning(g, k)
            = [subdevice |-> M.subdevice, channels |-> M.channels, ranges |-> M.ranges, arefs |-> M.arefs,
               caldacs |-> M.caldacs, to_phys |-> M.to_phys, from_phys |-> M.from_phys]
      BY <2>1, <2>3, MeaningMore
    <3>2. M = [subdevice |-> M.subdevice, channels |-> M.channels, ranges |-> M.ranges, arefs |-> M.arefs,
               caldacs |-> M.caldacs, to_phys |-> M.to_phys, from_phys |-> M.from_phys]
      <4>1. M = [subdevice |-> SubOf(f, k), channels |-> F!Values(f, k, "channel"),
              ranges |-> F!Values(f, k, "range"), arefs |-> F!Values(f, k, "aref"),
              caldacs |-> DacsOf(f, k),
              to_phys |-> F!PolyOf(f, k, "to_phys"), from_phys |-> F!PolyOf(f, k, "from_phys")]
        BY <1>1, MeaningIs
      <4> HIDE DEF M
      <4> QED BY <4>1
    <3> HIDE DEF M
    <3> QED BY <3>1, <3>2 DEF M
  <2> QED BY <2>2, <2>3
<1> QED BY <1>2, <1>3 DEF F!File

\* What the parser takes next is the next element.
LEMMA Taken ==
  ASSUME NEW e, F!Take(e), read \in Seq(Elements)
  PROVE  /\ e \in Elements /\ read' \in Seq(Elements) /\ Longer(read', read, e)
         /\ pc = "parse" /\ pc' = "parse" /\ path' = path /\ unfilled' = unfilled
         /\ Len(read) < 2 => e \in F!Names
         /\ Len(read) >= 2 => e \in UNION Themes
         /\ Len(read') <= 2 + MaxElements
<1>1. /\ pc = "parse" /\ read' = Append(read, e) /\ UNCHANGED <<pc, path, unfilled>>
      /\ Len(read) < IF Len(read) < 2 \/ ~F!NamesMatch THEN 3 ELSE 2 + MaxElements
      /\ Len(read) < 2 => e \in F!Names
      /\ ~ (Len(read) < 2) => \E t \in Themes : e \in t
  BY DEF F!Take
<1>2. Len(read) \in Nat
  OBVIOUS
<1>3. e \in Elements
  BY <1>1 DEF Elements
<1>4. /\ read' \in Seq(Elements) /\ Len(read') = Len(read) + 1
      /\ \A j \in 1 .. Len(read) : read'[j] = read[j]
      /\ read'[Len(read) + 1] = e
  BY <1>1, <1>3, AppendProperties
<1>5. MaxElements \in Nat /\ MaxElements > 0
  BY AnalogAssumption DEF F!Parameters
<1>6. Len(read') <= 2 + MaxElements
  BY <1>1, <1>2, <1>4, <1>5
<1>7. Longer(read', read, e)
  BY <1>2, <1>4 DEF Longer
<1> QED BY <1>1, <1>2, <1>3, <1>4, <1>6, <1>7

\* The settings there are when one is changed.
LEMMA SettingsAre ==
  ASSUME FileRead
  PROVE  /\ F!Current = Open(read) /\ Open(read) \in Nat /\ Open(read) > 0
         /\ F!Settings = [k \in 1 .. Open(read) |-> F!Meaning(read, k)]
         /\ Len(calib.settings) = F!SettingCount(read) /\ F!SettingCount(read) \in Nat
         /\ F!SettingCount(read) <= Open(read)
         /\ \A k \in 1 .. F!SettingCount(read) : calib.settings[k] = F!Meaning(read, k)
<1>1. Len(read) \in Nat
  BY DEF FileRead
<1>2. /\ F!SettingCount(read) \in Nat /\ F!SettingCount(read) <= Open(read)
      /\ Open(read) \in Nat /\ Open(read) > 0
  BY <1>1, CountType
<1>3. calib.settings = [k \in 1 .. F!SettingCount(read) |-> F!Meaning(read, k)]
  BY DEF FileRead, F!File
<1> DEFINE l == F!SettingCount(read)
           o1 == Open(read)
           s == calib.settings
<1>4. F!Current = o1
  BY DEF FileRead, F!Current
<1> HIDE DEF l, o1, s
<1>5. Len(s) = l /\ \A k \in 1 .. l : s[k] = F!Meaning(read, k)
  BY <1>2, <1>3 DEF l, s
<1>6. F!Settings = [k \in 1 .. IF Len(s) < F!Current THEN F!Current ELSE Len(s) |->
                      IF k <= Len(s) THEN s[k] ELSE F!EmptySetting]
  BY DEF F!Settings, s
<1>7. (IF Len(s) < F!Current THEN F!Current ELSE Len(s)) = o1
  BY <1>2, <1>4, <1>5 DEF l, o1
<1>8. ASSUME NEW k \in 1 .. o1
      PROVE  (IF k <= Len(s) THEN s[k] ELSE F!EmptySetting) = F!Meaning(read, k)
  <2>1. k \in Nat /\ l \in Nat /\ (k <= l => k \in 1 .. l)
    BY <1>2 DEF o1, l
  <2>2. CASE k <= l
    BY <1>5, <2>1, <2>2
  <2>3. CASE ~ (k <= l)
    <3>1. k > F!SettingCount(read)
      BY <2>1, <2>3 DEF l
    <3>2. F!Meaning(read, k) = F!EmptySetting
      BY <1>1, <2>1, <3>1, EmptyBeyond
    <3> QED BY <1>5, <2>3, <3>2
  <2> QED BY <2>2, <2>3
<1>9. F!Settings = [k \in 1 .. o1 |-> F!Meaning(read, k)]
  BY <1>6, <1>7, <1>8
<1> QED BY <1>2, <1>4, <1>5, <1>9 DEF l, o1, s

\* A change of the parser's to the current setting is the one the file means.
LEMMA ChangeKeeps ==
  ASSUME FileRead, CalibShape, NEW e, Longer(read', read, e), e.k \in F!Says,
         NEW field, NEW w, NEW x, F!Change(field, w, x),
         F!Meaning(read', Open(read)) = [F!Meaning(read, Open(read)) EXCEPT ![field] = w]
  PROVE  /\ calib'.settings = F!File(read') /\ CalibShape'
         /\ calib'.driver = calib.driver /\ calib'.board = calib.board
         /\ live' = live + x + F!Count(calib.settings = << >>)
<1> DEFINE o1 == Open(read)
           t == [F!Settings EXCEPT ![F!Current][field] = w]
<1>1. /\ F!Current = o1 /\ o1 \in Nat /\ o1 > 0
      /\ F!Settings = [k \in 1 .. o1 |-> F!Meaning(read, k)]
  BY SettingsAre
<1>2. F!SettingCount(read') = o1
  BY CountMore
<1>3. calib' = [calib EXCEPT !.settings = t] /\ live' = live + x + F!Count(calib.settings = << >>)
  BY DEF F!Change
<1>4. t = [k \in 1 .. o1 |-> IF k = o1 THEN [F!Meaning(read, k) EXCEPT ![field] = w] ELSE F!Meaning(read, k)]
  <2> HIDE DEF o1
  <2>1. t = [[k \in 1 .. o1 |-> F!Meaning(read, k)] EXCEPT ![o1] = [@ EXCEPT ![field] = w]]
    BY <1>1
  <2>2. o1 \in 1 .. o1
    BY <1>1
  <2> HIDE DEF t
  <2> QED BY <2>1, <2>2
<1>5. \A k \in 1 .. o1 : k # o1 => F!Meaning(read', k) = F!Meaning(read, k)
  BY MeaningMore
<1> HIDE DEF t
<1>6. t = [k \in 1 .. o1 |-> F!Meaning(read', k)]
  <2>1. \A k \in 1 .. o1 :
          (IF k = o1 THEN [F!Meaning(read, k) EXCEPT ![field] = w] ELSE F!Meaning(read, k)) = F!Meaning(read', k)
    BY <1>5
  <2> HIDE DEF o1
  <2> QED BY <1>4, <2>1
<1>7. F!File(read)' = [k \in 1 .. F!SettingCount(read') |-> F!Meaning(read', k)]
  BY DEF F!File
<1>8. t = F!File(read')
  BY <1>2, <1>6 DEF F!File
<1>9. /\ calib'.settings = t /\ calib'.driver = calib.driver /\ calib'.board = calib.board
      /\ calib' = [driver |-> calib'.driver, board |-> calib'.board, settings |-> calib'.settings]
  BY <1>3 DEF CalibShape
<1> QED BY <1>3, <1>8, <1>9 DEF CalibShape

\* The fields that are on the heap, and those a file fills.
Heap == {"channels", "ranges", "caldacs"} \cup F!Directions
Owned(f) == {o \in (Nat \ {0}) \X Heap : F!Holds(F!Meaning(f, o[1]), o[2])}

\* The objects of the settings are those of what the file means.
LEMMA OwnedIs ==
  ASSUME NEW f, Len(f) \in Nat, NEW s, s = F!File(f)
  PROVE  {o \in (DOMAIN s) \X Heap : F!Holds(s[o[1]], o[2])} = Owned(f)
<1> DEFINE l == F!SettingCount(f)
<1>1. l \in Nat
  BY CountType
<1>2. DOMAIN s = 1 .. l /\ \A k \in 1 .. l : s[k] = F!Meaning(f, k)
  BY DEF F!File
<1>3. ASSUME NEW k \in Nat \ {0}, k \notin 1 .. l, NEW h \in Heap PROVE ~F!Holds(F!Meaning(f, k), h)
  <2>1. k \in Nat /\ k > l
    BY <1>1, <1>3
  <2>2. F!Meaning(f, k) = F!EmptySetting
    BY <2>1, EmptyBeyond
  <2>3. /\ F!EmptySetting.channels = << >> /\ F!EmptySetting.ranges = << >> /\ F!EmptySetting.caldacs = << >>
        /\ F!EmptySetting.to_phys.coeffs = << >> /\ F!EmptySetting.from_phys.coeffs = << >>
    BY DEF F!EmptySetting, F!NoPoly
  <2>4. h = "channels" \/ h = "ranges" \/ h = "caldacs" \/ h = "to_phys" \/ h = "from_phys"
    BY DEF Heap, F!Directions
  <2> QED BY <2>2, <2>3, <2>4 DEF F!Holds, F!Directions
<1> HIDE DEF l
<1>4. \A k \in 1 .. l : k \in Nat \ {0}
  BY <1>1
<1> QED BY <1>2, <1>3, <1>4 DEF Owned

\* The objects of a file are finitely many.
LEMMA OwnedFinite ==
  ASSUME NEW f, Len(f) \in Nat
  PROVE  IsFiniteSet(Owned(f)) /\ Cardinality(Owned(f)) \in Nat
<1> DEFINE s == F!File(f)
           l == F!SettingCount(f)
<1>1. Owned(f) = {o \in (DOMAIN s) \X Heap : F!Holds(s[o[1]], o[2])}
  BY OwnedIs
<1>2. DOMAIN s = 1 .. l /\ l \in Nat
  BY CountType DEF F!File
<1> HIDE DEF s, l
<1>3. IsFiniteSet(1 .. l)
  BY <1>2, FS_Interval
<1>4. IsFiniteSet(Heap)
  <2>1. Heap = {"channels", "ranges", "caldacs"} \cup {"to_phys", "from_phys"}
    BY DEF Heap, F!Directions
  <2>2. IsFiniteSet({"channels", "ranges", "caldacs"} \cup {"to_phys", "from_phys"})
    <3>1. IsFiniteSet({}) /\ \A S0, x : IsFiniteSet(S0) => IsFiniteSet(S0 \cup {x})
      BY FS_EmptySet, FS_AddElement
    <3>2. IsFiniteSet({} \cup {"channels"})
      BY <3>1
    <3>3. IsFiniteSet(({} \cup {"channels"}) \cup {"ranges"})
      BY <3>1, <3>2
    <3>4. IsFiniteSet((({} \cup {"channels"}) \cup {"ranges"}) \cup {"caldacs"})
      BY <3>1, <3>3
    <3>5. IsFiniteSet(((({} \cup {"channels"}) \cup {"ranges"}) \cup {"caldacs"}) \cup {"to_phys"})
      BY <3>1, <3>4
    <3>6. IsFiniteSet((((({} \cup {"channels"}) \cup {"ranges"}) \cup {"caldacs"}) \cup {"to_phys"}) \cup {"from_phys"})
      BY <3>1, <3>5
    <3>7. (((({} \cup {"channels"}) \cup {"ranges"}) \cup {"caldacs"}) \cup {"to_phys"}) \cup {"from_phys"}
            = {"channels", "ranges", "caldacs"} \cup {"to_phys", "from_phys"}
      OBVIOUS
    <3> QED BY <3>6, <3>7
  <2> QED BY <2>1, <2>2
<1>5. IsFiniteSet((1 .. l) \X Heap)
  BY <1>3, <1>4, FS_Product
<1>6. Owned(f) \subseteq (1 .. l) \X Heap
  BY <1>1, <1>2
<1> QED BY <1>5, <1>6, FS_Subset, FS_CardinalityType

\* A value more in a field of the setting that is open.
LEMMA OwnedMore ==
  ASSUME NEW f, NEW e, NEW g, Longer(g, f, e), NEW field, NEW w,
         F!Meaning(g, Open(f)) = [F!Meaning(f, Open(f)) EXCEPT ![field] = w],
         field \in {"subdevice", "arefs"} \cup Heap,
         field \in Heap => F!Holds(F!Meaning(g, Open(f)), field)
  PROVE  Owned(g) = Owned(f) \cup (IF field \in Heap THEN {<<Open(f), field>>} ELSE {})
<1>1. Open(f) \in Nat \ {0}
  BY CountType DEF Longer
<1>2. \A k : k # Open(f) => F!Meaning(g, k) = F!Meaning(f, k)
  BY MeaningMore
<1>3. ASSUME NEW h \in Heap, h # field
      PROVE  F!Holds(F!Meaning(g, Open(f)), h) <=> F!Holds(F!Meaning(f, Open(f)), h)
  <2>1. F!Meaning(g, Open(f))[h] = F!Meaning(f, Open(f))[h]
    <3> DEFINE M == F!Meaning(f, Open(f))
    <3>1. h \in DOMAIN M
      <4>1. DOMAIN M = {"subdevice", "channels", "ranges", "arefs", "caldacs", "to_phys", "from_phys"}
        BY DEF F!Meaning
      <4> HIDE DEF M
      <4> QED BY <4>1 DEF Heap, F!Directions
    <3> HIDE DEF M
    <3> QED BY <1>3, <3>1 DEF M
  <2> QED BY <2>1 DEF F!Holds
<1>4. ASSUME NEW k \in Nat \ {0}, NEW h \in Heap
      PROVE  F!Holds(F!Meaning(g, k), h)
               <=> F!Holds(F!Meaning(f, k), h) \/ (k = Open(f) /\ h = field)
  BY <1>2, <1>3
<1> QED BY <1>1, <1>4 DEF Owned

CalibNames == calib.driver \in {"ours", "other", F!NULL} /\ calib.board \in {"ours", "other", F!NULL}

\* Nothing is lost while the parser reads.
Reachable == live = F!Count(path) + F!Reached

\* The objects counted by the program are those of the file.
LEMMA ReachedIs ==
  ASSUME NEW f, Len(f) \in Nat, NEW s, s = F!File(f), NEW O1, O1 = {o \in (DOMAIN s) \X Heap : F!Holds(s[o[1]], o[2])}
  PROVE  F!Cardinality(O1) = Cardinality(Owned(f)) /\ Cardinality(Owned(f)) \in Nat
         /\ (s = << >> <=> F!SettingCount(f) = 0)
<1>1. O1 = Owned(f)
  BY OwnedIs
<1>2. F!Cardinality(O1) = Cardinality(Owned(f)) /\ Cardinality(Owned(f)) \in Nat
  BY <1>1, FileCounts, OwnedFinite
<1> DEFINE l == F!SettingCount(f)
<1>3. l \in Nat /\ s = [k \in 1 .. l |-> F!Meaning(f, k)]
  BY CountType DEF F!File
<1> HIDE DEF l
<1>4. s = << >> <=> l = 0
  BY <1>3
<1> QED BY <1>2, <1>4 DEF l

\* The same polynomial in two words.
LEMMA PolyGiven ==
  ASSUME NEW f, Len(f) \in Nat, NEW k, NEW dir \in F!Directions,
         \A p \in F!Before(f, Len(f), F!Directions) : F!PolyAt(f, p).coeffs # << >>
  PROVE  F!Meaning(f, k)[dir] = F!PolyOf(f, k, dir)
         /\ (F!Meaning(f, k)[dir].coeffs = << >> <=> F!Written(f, k, {dir}) = {})
<1> DEFINE T == F!Written(f, k, {dir})
<1>1. F!Meaning(f, k)[dir] = F!PolyOf(f, k, dir)
  <2>1. dir = "to_phys" \/ dir = "from_phys"
    BY DEF F!Directions
  <2> QED BY <2>1, MeaningIs
<1>2. F!PolyOf(f, k, dir) = IF T = {} THEN F!NoPoly ELSE F!PolyAt(f, F!Nth(T, 1))
  BY DEF F!PolyOf
<1>3. T \in SUBSET (1 .. Len(f)) /\ T \subseteq F!Before(f, Len(f), F!Directions)
  <2>1. T \subseteq F!Before(f, Len(f), F!Directions)
    BY DEF F!Written, F!Before
  <2> QED BY <2>1, WrittenIs
<1> HIDE DEF T
<1>4. F!NoPoly.coeffs = << >>
  BY DEF F!NoPoly
<1>5. T # {} => F!Nth(T, 1) \in T
  <2>1. IsFiniteSet(T) /\ Cardinality(T) \in Nat
    BY <1>3, PositionsFinite
  <2>2. T # {} => 1 \in 1 .. Cardinality(T)
    BY <2>1, FS_EmptySet
  <2> QED BY <1>3, <2>2, NthIs
<1>6. T # {} => F!PolyOf(f, k, dir).coeffs # << >>
  BY <1>2, <1>3, <1>5
<1> QED BY <1>1, <1>2, <1>4, <1>6 DEF T

\* What there is to show of a step of the parser that reads e.
LEMMA ReadMore ==
  ASSUME FileRead, NEW e, Longer(read', read, e), read' \in Seq(Elements),
         index' = index + IF e.k = "end" THEN 1 ELSE 0,
         caldac' = IF e.k = "caldac"
                     THEN [x \in Fields |-> IF x \in DOMAIN e.given THEN e.given[x] ELSE caldac[x]]
                     ELSE caldac,
         poly' = [origin |-> IF e.k = "origin" THEN e.q ELSE poly.origin,
                  coeffs |-> IF e.k \in F!Directions THEN << >>
                             ELSE IF e.k = "coefficient" THEN More(poly.coeffs, e.q) ELSE poly.coeffs],
         e.k \in F!Directions => poly.coeffs # << >>,
         calib'.settings = F!File(read')
  PROVE  FileRead'
<1>1. Len(read) \in Nat /\ Len(read') = Len(read) + 1
  BY DEF Longer
<1>2. index' + 1 = Open(read') /\ index' \in Nat
  <2>1. Open(read') = IF e.k = "end" THEN Open(read) + 1 ELSE Open(read)
    BY OpenNext
  <2>2. index + 1 = Open(read) /\ index \in Nat
    BY DEF FileRead
  <2> QED BY <2>1, <2>2
<1>3. caldac' = F!CaldacAt(read', Len(read'))
  BY CaldacMore DEF FileRead
<1>4. poly' = PolySoFar(read')
  BY PolyProgress DEF FileRead
<1>5. ASSUME NEW p \in F!Before(read', Len(read'), F!Directions) PROVE F!PolyAt(read', p).coeffs # << >>
  <2>1. F!Before(read', Len(read'), F!Directions)
          = F!Before(read, Len(read), F!Directions) \cup (IF e.k \in F!Directions THEN {Len(read')} ELSE {})
    BY BeforeMore
  <2>2. CASE p \in F!Before(read, Len(read), F!Directions)
    <3>1. p \in 1 .. Len(read)
      BY <2>2 DEF F!Before
    <3>2. F!PolyAt(read', p) = F!PolyAt(read, p)
      BY <3>1, PolySame
    <3> QED BY <2>2, <3>2 DEF FileRead
  <2>3. CASE e.k \in F!Directions /\ p = Len(read')
    <3>1. F!PolyAt(read', Len(read')) = PolySoFar(read)
      BY <2>3, PolyRead
    <3> QED BY <2>3, <3>1 DEF FileRead
  <2> QED BY <2>1, <2>2, <2>3
<1>6. /\ (Open(read))' = Open(read') /\ (F!CaldacAt(read, Len(read)))' = F!CaldacAt(read', Len(read'))
      /\ (PolySoFar(read))' = PolySoFar(read') /\ (F!File(read))' = F!File(read')
  OBVIOUS
<1> QED BY <1>2, <1>3, <1>4, <1>5 DEF FileRead

\* A change allocates what there is to reach after it.
LEMMA ChangeCounts ==
  ASSUME FileRead, CalibShape, Reachable, NEW e, Longer(read', read, e), e.k \in F!Says,
         NEW field, NEW w, NEW x, F!Change(field, w, x), path' = path,
         F!Meaning(read', Open(read)) = [F!Meaning(read, Open(read)) EXCEPT ![field] = w],
         field \in {"subdevice", "arefs"} \cup Heap,
         field \in Heap => F!Holds(F!Meaning(read', Open(read)), field),
         x = F!Count(field \in Heap /\ ~F!Holds(F!Meaning(read, Open(read)), field))
  PROVE  Reachable'
<1>1. /\ calib'.settings = F!File(read') /\ calib'.driver = calib.driver /\ calib'.board = calib.board
      /\ live' = live + x + F!Count(calib.settings = << >>)
  BY ChangeKeeps
<1> DEFINE A == Owned(read)
           B == Owned(read')
           p1 == <<Open(read), field>>
           s1 == calib.settings
           s2 == calib'.settings
<1>2. Len(read) \in Nat /\ Len(read') \in Nat
  BY DEF Longer
<1>3. /\ F!Cardinality(F!Objects) = Cardinality(A) /\ Cardinality(A) \in Nat
      /\ (s1 = << >> <=> F!SettingCount(read) = 0)
  <2>1. F!Objects = {o1 \in (DOMAIN s1) \X Heap : F!Holds(s1[o1[1]], o1[2])}
    BY DEF F!Objects, Heap
  <2>2. s1 = F!File(read)
    BY DEF FileRead
  <2> QED BY <1>2, <2>1, <2>2, ReachedIs
<1>4. /\ F!Cardinality(F!Objects') = Cardinality(B) /\ Cardinality(B) \in Nat
      /\ (s2 = << >> <=> F!SettingCount(read') = 0)
  <2>1. F!Objects' = {o1 \in (DOMAIN s2) \X Heap : F!Holds(s2[o1[1]], o1[2])}
    BY DEF F!Objects, Heap
  <2>2. s2 = F!File(read')
    BY <1>1
  <2> QED BY <1>2, <2>1, <2>2, ReachedIs
<1>5. F!SettingCount(read') = Open(read) /\ Open(read) \in Nat /\ Open(read) > 0
  <2>1. F!SettingCount(read') = Open(read)
    BY CountMore
  <2> QED BY <2>1, <1>2, CountType
<1>6. B = A \cup (IF field \in Heap THEN {p1} ELSE {})
  BY OwnedMore
<1>7. IsFiniteSet(A)
  BY <1>2, OwnedFinite
<1>8. field \in Heap => (p1 \in A <=> F!Holds(F!Meaning(read, Open(read)), field))
  <2>1. Open(read) \in Nat \ {0}
    BY <1>5
  <2> QED BY <2>1 DEF Owned
<1>9. Cardinality(B) = Cardinality(A) + x
  <2> HIDE DEF A, B, p1
  <2>1. CASE field \in Heap /\ ~F!Holds(F!Meaning(read, Open(read)), field)
    <3>1. p1 \notin A /\ B = A \cup {p1}
      BY <1>6, <1>8, <2>1
    <3>2. Cardinality(A \cup {p1}) = Cardinality(A) + 1
      BY <1>7, <3>1, FS_AddElement
    <3>3. x = 1
      BY <2>1 DEF F!Count
    <3> QED BY <3>1, <3>2, <3>3
  <2>2. CASE ~ (field \in Heap /\ ~F!Holds(F!Meaning(read, Open(read)), field))
    <3>1. B = A
      BY <1>6, <1>8, <2>2
    <3>2. x = 0
      BY <2>2 DEF F!Count
    <3> QED BY <1>3, <3>1, <3>2
  <2> QED BY <2>1, <2>2
<1>10. x \in Nat
  BY DEF F!Count
<1> DEFINE c1 == F!Count(calib.driver # F!NULL) + F!Count(calib.board # F!NULL)
<1>11. /\ F!Reached = 1 + F!Count(calib.driver # F!NULL) + F!Count(calib.board # F!NULL)
                        + F!Count(s1 # << >>) + F!Cardinality(F!Objects)
       /\ F!Reached' = 1 + F!Count(calib'.driver # F!NULL) + F!Count(calib'.board # F!NULL)
                         + F!Count(s2 # << >>) + F!Cardinality(F!Objects')
  BY DEF F!Reached
<1>12. \A P \in BOOLEAN : F!Count(P) \in Nat
  BY DEF F!Count
<1>13. c1 \in Nat /\ F!Count(calib.driver # F!NULL) \in Nat /\ F!Count(calib.board # F!NULL) \in Nat
       /\ F!Count(path) \in Nat
  BY DEF F!Count
<1>14. s2 # << >>
  BY <1>4, <1>5
<1>15. F!Count(s2 # << >>) = 1
  BY <1>14 DEF F!Count
<1>16. F!Count(s1 # << >>) + F!Count(s1 = << >>) = 1 /\ F!Count(s1 # << >>) \in Nat /\ F!Count(s1 = << >>) \in Nat
  BY DEF F!Count
<1>17. live = F!Count(path) + F!Reached
  BY DEF Reachable
<1>18. F!Reached \in Nat /\ F!Reached' = F!Reached + x + F!Count(s1 = << >>)
  <2> DEFINE cd == F!Count(calib.driver # F!NULL)
             cb == F!Count(calib.board # F!NULL)
             cs == F!Count(s1 # << >>)
             cn == F!Count(s1 = << >>)
             k1 == Cardinality(A)
             k2 == Cardinality(B)
  <2>1. F!Reached = 1 + cd + cb + cs + k1
    BY <1>3, <1>11
  <2>2. F!Reached' = 1 + cd + cb + 1 + k2
    BY <1>1, <1>4, <1>11, <1>15
  <2>3. cd \in Nat /\ cb \in Nat /\ k1 \in Nat /\ k2 = k1 + x /\ cs + cn = 1 /\ cs \in Nat /\ cn \in Nat
    BY <1>3, <1>9, <1>13, <1>16
  <2>4. x \in Nat
    BY <1>10
  <2> HIDE DEF cd, cb, cs, cn, k1, k2
  <2>5. F!Reached \in Nat /\ F!Reached' = F!Reached + x + cn
    BY <2>1, <2>2, <2>3, <2>4
  <2> QED BY <2>5 DEF cn
<1>19. live' = F!Count(path) + F!Reached'
  <2> DEFINE cn == F!Count(s1 = << >>)
             cp == F!Count(path)
             r1 == F!Reached
             r2 == F!Reached'
  <2>1. live' = live + x + cn /\ live = cp + r1 /\ r2 = r1 + x + cn /\ r1 \in Nat
    BY <1>1, <1>17, <1>18
  <2>2. cn \in Nat /\ cp \in Nat /\ x \in Nat
    BY <1>10, <1>13, <1>16
  <2> HIDE DEF cn, cp, r1, r2
  <2>3. live' = cp + r2
    BY <2>1, <2>2
  <2> QED BY <2>3 DEF cp, r2
<1>20. F!Count(path)' = F!Count(path)
  BY DEF F!Count
<1> QED BY <1>19, <1>20 DEF Reachable

\* The meaning of a setting is a record of seven fields.
LEMMA MeaningShape ==
  ASSUME NEW f, Len(f) \in Nat, NEW k
  PROVE  F!Meaning(f, k)
           = [subdevice |-> F!Meaning(f, k).subdevice, channels |-> F!Meaning(f, k).channels,
              ranges |-> F!Meaning(f, k).ranges, arefs |-> F!Meaning(f, k).arefs,
              caldacs |-> F!Meaning(f, k).caldacs,
              to_phys |-> F!Meaning(f, k).to_phys, from_phys |-> F!Meaning(f, k).from_phys]
<1> DEFINE M == F!Meaning(f, k)
<1>1. M = [subdevice |-> SubOf(f, k), channels |-> F!Values(f, k, "channel"),
           ranges |-> F!Values(f, k, "range"), arefs |-> F!Values(f, k, "aref"),
           caldacs |-> DacsOf(f, k),
           to_phys |-> F!PolyOf(f, k, "to_phys"), from_phys |-> F!PolyOf(f, k, "from_phys")]
  BY MeaningIs
<1> HIDE DEF M
<1> QED BY <1>1 DEF M

\* A setting with one field changed.
Record7(a, b, c, d, e, f, g) ==
  [subdevice |-> a, channels |-> b, ranges |-> c, arefs |-> d, caldacs |-> e, to_phys |-> f, from_phys |-> g]

\* The field in which an element changes the setting it is in.
FieldOf(kind) ==
  IF kind = "channel" THEN "channels" ELSE IF kind = "range" THEN "ranges"
  ELSE IF kind = "aref" THEN "arefs" ELSE IF kind = "caldac" THEN "caldacs" ELSE kind

\* A record with one field replaced, under a name the provers leave alone.
Put(r, h, w) == [r EXCEPT ![h] = w]

\* The field that an element changes, and to what.
LEMMA MeaningChanged ==
  ASSUME NEW f, NEW e, NEW g, Longer(g, f, e), NEW h, h = FieldOf(e.k)
  PROVE  /\ e.k = "subdevice" => F!Meaning(g, Open(f)) = Put(F!Meaning(f, Open(f)), h, e.v)
         /\ e.k \in {"channel", "range", "aref"} =>
              F!Meaning(g, Open(f)) = Put(F!Meaning(f, Open(f)), h, More(F!Meaning(f, Open(f))[h], e.v))
         /\ e.k = "caldac" =>
              F!Meaning(g, Open(f))
                = Put(F!Meaning(f, Open(f)), h, More(F!Meaning(f, Open(f))[h], F!CaldacAt(g, Len(g))))
         /\ e.k \in F!Directions /\ F!Written(f, Open(f), {e.k}) = {} =>
              F!Meaning(g, Open(f)) = Put(F!Meaning(f, Open(f)), h, PolySoFar(f))
<1> DEFINE M == F!Meaning(f, Open(f))
           G == F!Meaning(g, Open(f))
<1>1. M = [subdevice |-> M.subdevice, channels |-> M.channels, ranges |-> M.ranges, arefs |-> M.arefs,
           caldacs |-> M.caldacs, to_phys |-> M.to_phys, from_phys |-> M.from_phys]
  BY MeaningShape DEF Longer
<1>2. G = [subdevice |-> IF e.k = "subdevice" THEN e.v ELSE M.subdevice,
           channels |-> IF e.k = "channel" THEN More(M.channels, e.v) ELSE M.channels,
           ranges |-> IF e.k = "range" THEN More(M.ranges, e.v) ELSE M.ranges,
           arefs |-> IF e.k = "aref" THEN More(M.arefs, e.v) ELSE M.arefs,
           caldacs |-> IF e.k = "caldac" THEN More(M.caldacs, F!CaldacAt(g, Len(g))) ELSE M.caldacs,
           to_phys |-> IF e.k = "to_phys" /\ F!Written(f, Open(f), {"to_phys"}) = {} THEN PolySoFar(f)
                       ELSE M.to_phys,
           from_phys |-> IF e.k = "from_phys" /\ F!Written(f, Open(f), {"from_phys"}) = {} THEN PolySoFar(f)
                         ELSE M.from_phys]
  BY MeaningMore
<1> DEFINE d1 == F!CaldacAt(g, Len(g))
           p1 == PolySoFar(f)
           v1 == e.v
           a1 == More(M.channels, v1)
           a2 == More(M.ranges, v1)
           a3 == More(M.arefs, v1)
           a4 == More(M.caldacs, d1)
           w1 == F!Written(f, Open(f), {"to_phys"})
           w2 == F!Written(f, Open(f), {"from_phys"})
<1>3. G = [subdevice |-> IF e.k = "subdevice" THEN v1 ELSE M.subdevice,
           channels |-> IF e.k = "channel" THEN a1 ELSE M.channels,
           ranges |-> IF e.k = "range" THEN a2 ELSE M.ranges,
           arefs |-> IF e.k = "aref" THEN a3 ELSE M.arefs,
           caldacs |-> IF e.k = "caldac" THEN a4 ELSE M.caldacs,
           to_phys |-> IF e.k = "to_phys" /\ w1 = {} THEN p1 ELSE M.to_phys,
           from_phys |-> IF e.k = "from_phys" /\ w2 = {} THEN p1 ELSE M.from_phys]
  BY <1>2
<1> DEFINE m1 == M.subdevice
           m2 == M.channels
           m3 == M.ranges
           m4 == M.arefs
           m5 == M.caldacs
           m6 == M.to_phys
           m7 == M.from_phys
<1>10. M = Record7(m1, m2, m3, m4, m5, m6, m7)
  BY <1>1 DEF Record7
<1>11. G = Record7(IF e.k = "subdevice" THEN v1 ELSE m1, IF e.k = "channel" THEN a1 ELSE m2,
                   IF e.k = "range" THEN a2 ELSE m3, IF e.k = "aref" THEN a3 ELSE m4,
                   IF e.k = "caldac" THEN a4 ELSE m5, IF e.k = "to_phys" /\ w1 = {} THEN p1 ELSE m6,
                   IF e.k = "from_phys" /\ w2 = {} THEN p1 ELSE m7)
  BY <1>3 DEF Record7
<1>12. /\ e.k = "subdevice" => h = "subdevice"
       /\ e.k = "channel" => h = "channels"
       /\ e.k = "range" => h = "ranges"
       /\ e.k = "aref" => h = "arefs"
       /\ e.k = "caldac" => h = "caldacs"
       /\ e.k = "to_phys" => h = "to_phys"
       /\ e.k = "from_phys" => h = "from_phys"
  BY DEF FieldOf
<1> HIDE DEF M, G, d1, p1, v1, a1, a2, a3, a4, w1, w2, m1, m2, m3, m4, m5, m6, m7
<1>4. e.k = "subdevice" => G = [M EXCEPT ![h] = v1]
  <2>1. SUFFICES ASSUME e.k = "subdevice" PROVE G = [M EXCEPT ![h] = v1]
    OBVIOUS
  <2>2. h = "subdevice" /\ G = Record7(v1, m2, m3, m4, m5, m6, m7)
    BY <1>11, <1>12, <2>1
  <2>3. [Record7(m1, m2, m3, m4, m5, m6, m7) EXCEPT ![h] = v1] = Record7(v1, m2, m3, m4, m5, m6, m7)
    BY ONLY <2>2 DEF Record7
  <2> QED BY ONLY <1>10, <2>2, <2>3
<1>14. e.k = "channel" => G = [M EXCEPT ![h] = a1]
  <2>1. SUFFICES ASSUME e.k = "channel" PROVE G = [M EXCEPT ![h] = a1]
    OBVIOUS
  <2>2. h = "channels" /\ G = Record7(m1, a1, m3, m4, m5, m6, m7)
    BY <1>11, <1>12, <2>1
  <2>3. [Record7(m1, m2, m3, m4, m5, m6, m7) EXCEPT ![h] = a1] = Record7(m1, a1, m3, m4, m5, m6, m7)
    BY ONLY <2>2 DEF Record7
  <2> QED BY ONLY <1>10, <2>2, <2>3
<1>15. e.k = "range" => G = [M EXCEPT ![h] = a2]
  <2>1. SUFFICES ASSUME e.k = "range" PROVE G = [M EXCEPT ![h] = a2]
    OBVIOUS
  <2>2. h = "ranges" /\ G = Record7(m1, m2, a2, m4, m5, m6, m7)
    BY <1>11, <1>12, <2>1
  <2>3. [Record7(m1, m2, m3, m4, m5, m6, m7) EXCEPT ![h] = a2] = Record7(m1, m2, a2, m4, m5, m6, m7)
    BY ONLY <2>2 DEF Record7
  <2> QED BY ONLY <1>10, <2>2, <2>3
<1>16. e.k = "aref" => G = [M EXCEPT ![h] = a3]
  <2>1. SUFFICES ASSUME e.k = "aref" PROVE G = [M EXCEPT ![h] = a3]
    OBVIOUS
  <2>2. h = "arefs" /\ G = Record7(m1, m2, m3, a3, m5, m6, m7)
    BY <1>11, <1>12, <2>1
  <2>3. [Record7(m1, m2, m3, m4, m5, m6, m7) EXCEPT ![h] = a3] = Record7(m1, m2, m3, a3, m5, m6, m7)
    BY ONLY <2>2 DEF Record7
  <2> QED BY ONLY <1>10, <2>2, <2>3
<1>6. e.k = "caldac" => G = [M EXCEPT ![h] = a4]
  <2>1. SUFFICES ASSUME e.k = "caldac" PROVE G = [M EXCEPT ![h] = a4]
    OBVIOUS
  <2>2. h = "caldacs" /\ G = Record7(m1, m2, m3, m4, a4, m6, m7)
    BY <1>11, <1>12, <2>1
  <2>3. [Record7(m1, m2, m3, m4, m5, m6, m7) EXCEPT ![h] = a4] = Record7(m1, m2, m3, m4, a4, m6, m7)
    BY ONLY <2>2 DEF Record7
  <2> QED BY ONLY <1>10, <2>2, <2>3
<1>17. e.k = "to_phys" /\ w1 = {} => G = [M EXCEPT ![h] = p1]
  <2>1. SUFFICES ASSUME e.k = "to_phys" /\ w1 = {} PROVE G = [M EXCEPT ![h] = p1]
    OBVIOUS
  <2>2. h = "to_phys" /\ G = Record7(m1, m2, m3, m4, m5, p1, m7)
    BY <1>11, <1>12, <2>1
  <2>3. [Record7(m1, m2, m3, m4, m5, m6, m7) EXCEPT ![h] = p1] = Record7(m1, m2, m3, m4, m5, p1, m7)
    BY ONLY <2>2 DEF Record7
  <2> QED BY ONLY <1>10, <2>2, <2>3
<1>18. e.k = "from_phys" /\ w2 = {} => G = [M EXCEPT ![h] = p1]
  <2>1. SUFFICES ASSUME e.k = "from_phys" /\ w2 = {} PROVE G = [M EXCEPT ![h] = p1]
    OBVIOUS
  <2>2. h = "from_phys" /\ G = Record7(m1, m2, m3, m4, m5, m6, p1)
    BY <1>11, <1>12, <2>1
  <2>3. [Record7(m1, m2, m3, m4, m5, m6, m7) EXCEPT ![h] = p1] = Record7(m1, m2, m3, m4, m5, m6, p1)
    BY ONLY <2>2 DEF Record7
  <2> QED BY ONLY <1>10, <2>2, <2>3
<1>8. e.k \in {"channel", "range", "aref"} => G = [M EXCEPT ![h] = More(M[h], v1)]
  BY <1>12, <1>14, <1>15, <1>16 DEF a1, a2, a3
<1>9. e.k \in F!Directions /\ F!Written(f, Open(f), {e.k}) = {} => G = [M EXCEPT ![h] = p1]
  BY <1>17, <1>18 DEF F!Directions, w1, w2
<1>13. e.k = "caldac" => G = [M EXCEPT ![h] = More(M[h], F!CaldacAt(g, Len(g)))]
  BY <1>6, <1>12 DEF a4, d1
<1> QED BY <1>4, <1>8, <1>9, <1>13 DEF M, G, v1, p1, Put

\* A list with one more is not empty.
LEMMA PickGrows ==
  ASSUME NEW m \in Nat, NEW T \in SUBSET (1 .. m), NEW v, NEW w
  PROVE  More(Pick(T, v), w) # << >> /\ Len(More(Pick(T, v), w)) = Len(Pick(T, v)) + 1
         /\ Len(Pick(T, v)) \in Nat
<1> DEFINE A == {v[F!Nth(T, l)] : l \in 1 .. Cardinality(T)} \cup {w}
           s == Pick(T, v)
           t == More(s, w)
<1>1. Cardinality(T) \in Nat
  BY PositionsFinite
<1>2. s = [l \in 1 .. Cardinality(T) |-> v[F!Nth(T, l)]]
  BY DEF Pick
<1>3. (\A l \in 1 .. Cardinality(T) : v[F!Nth(T, l)] \in A) /\ w \in A
  OBVIOUS
<1> HIDE DEF A, s
<1>4. s \in Seq(A) /\ w \in A
  BY <1>1, <1>2, <1>3
<1>5. t = [l \in 1 .. Len(s) + 1 |-> t[l]]
  BY <1>4, AppendIs
<1>6. Len(s) \in Nat
  BY <1>4
<1> HIDE DEF t
<1>7. t # << >> /\ Len(t) = Len(s) + 1
  BY <1>5, <1>6, SMTT(30)
<1> QED BY <1>6, <1>7 DEF t, s

\* The lists of a setting grow so.
LEMMA ListsGrow ==
  ASSUME NEW f, Len(f) \in Nat, NEW k, NEW l \in {"channels", "ranges", "arefs", "caldacs"}, NEW w
  PROVE  More(F!Meaning(f, k)[l], w) # << >> /\ Len(More(F!Meaning(f, k)[l], w)) = Len(F!Meaning(f, k)[l]) + 1
         /\ Len(F!Meaning(f, k)[l]) \in Nat
<1>1. ASSUME NEW kind
      PROVE  LET s == F!Values(f, k, kind)
             IN  More(s, w) # << >> /\ Len(More(s, w)) = Len(s) + 1 /\ Len(s) \in Nat
  <2>1. F!Values(f, k, kind) = Pick(F!Written(f, k, {kind}), Vs(f))
    BY ValuesAre
  <2>2. F!Written(f, k, {kind}) \in SUBSET (1 .. Len(f))
    BY WrittenIs
  <2> QED BY <2>1, <2>2, PickGrows
<1>2. LET s == DacsOf(f, k)
      IN  More(s, w) # << >> /\ Len(More(s, w)) = Len(s) + 1 /\ Len(s) \in Nat
  <2>2. F!Written(f, k, {"caldac"}) \in SUBSET (1 .. Len(f))
    BY WrittenIs
  <2> QED BY <2>2, PickGrows DEF DacsOf
<1>3. /\ F!Meaning(f, k).channels = F!Values(f, k, "channel") /\ F!Meaning(f, k).ranges = F!Values(f, k, "range")
      /\ F!Meaning(f, k).arefs = F!Values(f, k, "aref") /\ F!Meaning(f, k).caldacs = DacsOf(f, k)
  BY MeaningIs
<1>4. CASE l = "channels"
  BY <1>1, <1>3, <1>4
<1>5. CASE l = "ranges"
  BY <1>1, <1>3, <1>5
<1>6. CASE l = "arefs"
  BY <1>1, <1>3, <1>6
<1>7. CASE l = "caldacs"
  BY <1>2, <1>3, <1>7
<1> QED BY <1>4, <1>5, <1>6, <1>7

ArefsFit(f) == \A k : Len(F!Meaning(f, k).arefs) <= MaxArefs

\* While a file is read.
Reading ==
  /\ pc \in {"parse", "inverse"}
  /\ FileRead /\ CalibShape /\ CalibNames /\ Reachable /\ ArefsFit(read)
  /\ index = 0 \/ index <= Len(read) - 2
  /\ Len(poly.coeffs) <= MaxCoefs /\ Len(read) <= 2 + MaxElements

\* No more analog references than fit.
LEMMA ArefsMore ==
  ASSUME NEW f, NEW e, NEW g, Longer(g, f, e), ArefsFit(f),
         e.k = "aref" => Len(F!Meaning(f, Open(f)).arefs) < MaxArefs
  PROVE  ArefsFit(g)
<1>1. SUFFICES ASSUME NEW k PROVE Len(F!Meaning(g, k).arefs) <= MaxArefs
  BY DEF ArefsFit
<1> DEFINE M == F!Meaning(f, k)
<1>2. Len(M.arefs) <= MaxArefs
  BY DEF ArefsFit
<1>3. F!Meaning(g, k).arefs = IF k = Open(f) /\ e.k = "aref" THEN More(M.arefs, e.v) ELSE M.arefs
  <2>1. k # Open(f) => F!Meaning(g, k) = M
    BY MeaningMore
  <2>2. k = Open(f) => F!Meaning(g, k).arefs = IF e.k = "aref" THEN More(M.arefs, e.v) ELSE M.arefs
    BY MeaningMore
  <2> QED BY <2>1, <2>2
<1>4. Len(More(M.arefs, e.v)) = Len(M.arefs) + 1 /\ Len(M.arefs) \in Nat
  <2>1. M.arefs = M["arefs"]
    OBVIOUS
  <2> QED BY <2>1, ListsGrow DEF Longer
<1>5. MaxArefs \in Nat
  BY AnalogAssumption DEF F!Parameters
<1> HIDE DEF M
<1>6. CASE k = Open(f) /\ e.k = "aref"
  <2>1. Len(M.arefs) < MaxArefs
    BY <1>6 DEF M
  <2> QED BY <1>3, <1>4, <1>5, <1>6, <2>1
<1>7. CASE ~ (k = Open(f) /\ e.k = "aref")
  BY <1>2, <1>3, <1>7
<1> QED BY <1>6, <1>7

\* An element that says something about the setting that is open.
LEMMA ReadSays ==
  ASSUME Reading, NEW e, F!Take(e), e.k \in F!Says,
         NEW field, field = FieldOf(e.k), NEW w, NEW x, F!Change(field, w, x),
         F!Meaning(read', Open(read)) = [F!Meaning(read, Open(read)) EXCEPT ![field] = w],
         field \in Heap => F!Holds(F!Meaning(read', Open(read)), field),
         x = F!Count(field \in Heap /\ ~F!Holds(F!Meaning(read, Open(read)), field)),
         index' = index,
         caldac' = IF e.k = "caldac"
                     THEN [y \in Fields |-> IF y \in DOMAIN e.given THEN e.given[y] ELSE caldac[y]]
                     ELSE caldac,
         poly' = [origin |-> poly.origin, coeffs |-> IF e.k \in F!Directions THEN << >> ELSE poly.coeffs],
         e.k \in F!Directions => poly.coeffs # << >>,
         e.k = "aref" => Len(F!Meaning(read, Open(read)).arefs) < MaxArefs
  PROVE  Reading'
<1>1. /\ FileRead /\ CalibShape /\ CalibNames /\ Reachable /\ ArefsFit(read)
      /\ index = 0 \/ index <= Len(read) - 2
      /\ Len(poly.coeffs) <= MaxCoefs /\ Len(read) <= 2 + MaxElements
  BY DEF Reading
<1>2. /\ read' \in Seq(Elements) /\ Longer(read', read, e) /\ Len(read') <= 2 + MaxElements
      /\ pc' = "parse" /\ path' = path
  BY <1>1, Taken DEF FileRead
<1>3. /\ calib'.settings = F!File(read') /\ CalibShape'
      /\ calib'.driver = calib.driver /\ calib'.board = calib.board
  BY <1>1, <1>2, ChangeKeeps
<1>4. /\ e.k # "end" /\ e.k # "origin" /\ e.k # "coefficient"
  BY DEF F!Says, F!Directions
<1>5. FileRead'
  <2>1. index' = index + IF e.k = "end" THEN 1 ELSE 0
    BY <1>1, <1>4 DEF FileRead
  <2>2. poly' = [origin |-> IF e.k = "origin" THEN e.q ELSE poly.origin,
                  coeffs |-> IF e.k \in F!Directions THEN << >>
                             ELSE IF e.k = "coefficient" THEN More(poly.coeffs, e.q) ELSE poly.coeffs]
    BY <1>4
  <2> QED BY <1>1, <1>2, <1>3, <2>1, <2>2, ReadMore
<1>6. Reachable'
  <2>1. field \in {"subdevice", "arefs"} \cup Heap
    BY DEF FieldOf, F!Says, F!Directions, Heap
  <2> QED BY <1>1, <1>2, <2>1, ChangeCounts
<1>7. ArefsFit(read')
  BY <1>1, <1>2, ArefsMore
<1>8. CalibNames'
  BY <1>1, <1>3 DEF CalibNames
<1>9. Len(poly'.coeffs) <= MaxCoefs
  <2>1. Len(<< >>) <= MaxCoefs
    BY AnalogAssumption DEF F!Parameters
  <2> QED BY <1>1, <2>1
<1>10. index' = 0 \/ index' <= Len(read') - 2
  <2>1. Len(read) \in Nat /\ Len(read') = Len(read) + 1 /\ index \in Nat
    BY <1>1, <1>2 DEF Longer, FileRead
  <2> QED BY <1>1, <2>1
<1>11. ArefsFit(read)' = ArefsFit(read')
  OBVIOUS
<1> QED BY <1>2, <1>3, <1>5, <1>6, <1>7, <1>8, <1>9, <1>10, <1>11 DEF Reading

\* An element that says nothing of the kind.
LEMMA ReadOther ==
  ASSUME Reading, NEW e, F!Take(e), e.k \notin F!Says,
         index' = index + IF e.k = "end" THEN 1 ELSE 0,
         e.k = "end" => Len(read) >= 2,
         caldac' = caldac,
         poly' = [origin |-> IF e.k = "origin" THEN e.q ELSE poly.origin,
                  coeffs |-> IF e.k = "coefficient" THEN More(poly.coeffs, e.q) ELSE poly.coeffs],
         Len(poly'.coeffs) <= MaxCoefs,
         calib'.settings = calib.settings, CalibShape', CalibNames', Reachable'
  PROVE  Reading'
<1>1. /\ FileRead /\ CalibShape /\ CalibNames /\ Reachable /\ ArefsFit(read)
      /\ index = 0 \/ index <= Len(read) - 2
      /\ Len(poly.coeffs) <= MaxCoefs /\ Len(read) <= 2 + MaxElements
  BY DEF Reading
<1>2. /\ read' \in Seq(Elements) /\ Longer(read', read, e) /\ Len(read') <= 2 + MaxElements
      /\ pc' = "parse" /\ path' = path
  BY <1>1, Taken DEF FileRead
<1>3. e.k \notin F!Directions /\ e.k # "caldac" /\ e.k # "aref"
  BY DEF F!Says
<1>4. calib'.settings = F!File(read')
  <2>1. F!File(read') = F!File(read)
    BY <1>2, FileSame
  <2> QED BY <1>1, <2>1 DEF FileRead
<1>5. FileRead'
  <2>1. poly' = [origin |-> IF e.k = "origin" THEN e.q ELSE poly.origin,
                  coeffs |-> IF e.k \in F!Directions THEN << >>
                             ELSE IF e.k = "coefficient" THEN More(poly.coeffs, e.q) ELSE poly.coeffs]
    BY <1>3
  <2> QED BY <1>1, <1>2, <1>3, <1>4, <2>1, ReadMore
<1>6. ArefsFit(read')
  BY <1>1, <1>2, <1>3, ArefsMore
<1>7. index' = 0 \/ index' <= Len(read') - 2
  <2>1. Len(read) \in Nat /\ Len(read') = Len(read) + 1 /\ index \in Nat
    BY <1>1, <1>2 DEF Longer, FileRead
  <2> QED BY <1>1, <2>1
<1>8. ArefsFit(read)' = ArefsFit(read')
  OBVIOUS
<1> QED BY <1>2, <1>5, <1>6, <1>7, <1>8 DEF Reading

\* Names are elements of their own.
LEMMA NameKinds ==
  ASSUME NEW e \in F!Names
  PROVE  /\ e.k = "driver" \/ e.k = "board"
         /\ e.name \in {"ours", "other"} /\ e.k \notin F!Says
         /\ e.k # "end" /\ e.k # "origin" /\ e.k # "coefficient"
  BY DEF F!Names, F!Says, F!Directions

\* With the same settings there are the same objects in them.
LEMMA ReachedSame ==
  ASSUME FileRead, calib'.settings = calib.settings,
         NEW x \in Nat, live' = live + x, path' = path, Reachable,
         F!Count(calib'.driver # F!NULL) + F!Count(calib'.board # F!NULL)
           = F!Count(calib.driver # F!NULL) + F!Count(calib.board # F!NULL) + x
  PROVE  Reachable'
<1> DEFINE s1 == calib.settings
           k1 == F!Cardinality(F!Objects)
           cd == F!Count(calib.driver # F!NULL)
           cb == F!Count(calib.board # F!NULL)
           ed == F!Count(calib'.driver # F!NULL)
           eb == F!Count(calib'.board # F!NULL)
           cs == F!Count(s1 # << >>)
           cp == F!Count(path)
<1>1. k1 \in Nat
  <2>1. F!Objects = {o1 \in (DOMAIN s1) \X Heap : F!Holds(s1[o1[1]], o1[2])}
    BY DEF F!Objects, Heap
  <2>2. s1 = F!File(read) /\ Len(read) \in Nat
    BY DEF FileRead
  <2> QED BY <2>1, <2>2, ReachedIs
<1>2. F!Objects' = F!Objects
  BY DEF F!Objects
<1>3. F!Reached = 1 + cd + cb + cs + k1 /\ F!Reached' = 1 + ed + eb + cs + k1
  <2>1. F!Cardinality(F!Objects') = k1
    BY <1>2
  <2>2. F!Reached' = 1 + ed + eb + F!Count(calib'.settings # << >>) + F!Cardinality(F!Objects')
    BY DEF F!Reached
  <2> QED BY <2>1, <2>2 DEF F!Reached
<1>4. cd \in Nat /\ cb \in Nat /\ ed \in Nat /\ eb \in Nat /\ cs \in Nat /\ cp \in Nat
  BY DEF F!Count
<1>5. ed + eb = cd + cb + x
  OBVIOUS
<1>6. live = cp + F!Reached /\ F!Count(path)' = cp
  BY DEF Reachable, F!Count
<1> HIDE DEF cd, cb, ed, eb, cs, cp, k1
<1>7. live' = cp + F!Reached'
  BY <1>1, <1>3, <1>4, <1>5, <1>6
<1> QED BY <1>6, <1>7 DEF Reachable

\* driver_name and board_name.
LEMMA ReadsName == ASSUME Reading, F!ReadName PROVE Reading'
<1>1. PICK e \in F!Names :
        /\ F!Take(e) /\ calib[e.k] = F!NULL
        /\ \/ calib' = [calib EXCEPT ![e.k] = e.name] /\ live' = live + 1
           \/ UNCHANGED <<calib, live>>
        /\ UNCHANGED <<caldac, poly, index>>
  BY DEF F!ReadName
<1>2. /\ e.k = "driver" \/ e.k = "board"
      /\ e.name \in {"ours", "other"} /\ e.k \notin F!Says
      /\ e.k # "end" /\ e.k # "origin" /\ e.k # "coefficient"
  BY NameKinds
<1>3. /\ FileRead /\ CalibShape /\ CalibNames /\ Reachable /\ Len(poly.coeffs) <= MaxCoefs
  BY DEF Reading
<1>4. poly = [origin |-> poly.origin, coeffs |-> poly.coeffs]
  <2> DEFINE w == PolySoFar(read)
  <2>1. w = [origin |-> w.origin, coeffs |-> w.coeffs]
    BY DEF PolySoFar
  <2> HIDE DEF w
  <2> QED BY <1>3, <2>1 DEF FileRead, w
<1>5. path' = path
  BY <1>1, <1>3, Taken DEF FileRead
<1>6. index \in Nat
  BY <1>3 DEF FileRead
<1>7. CalibShape' /\ CalibNames' /\ Reachable' /\ calib'.settings = calib.settings
  <2>1. CASE UNCHANGED <<calib, live>>
    <3>1. CalibShape' /\ CalibNames' /\ calib'.settings = calib.settings
      BY <1>3, <2>1 DEF CalibShape, CalibNames
    <3>2. F!Objects' = F!Objects /\ F!Reached' = F!Reached /\ F!Count(path)' = F!Count(path)
      BY <1>5, <2>1 DEF F!Objects, F!Reached
    <3> QED BY <1>3, <2>1, <3>1, <3>2 DEF Reachable
  <2>2. CASE calib' = [calib EXCEPT ![e.k] = e.name] /\ live' = live + 1
    <3>1. CASE e.k = "driver"
      <4>1. /\ calib' = [driver |-> e.name, board |-> calib.board, settings |-> calib.settings]
            /\ calib.driver = F!NULL
        <5> DEFINE a == calib.driver
                   b == calib.board
                   c == calib.settings
                   w == e.name
                   h == e.k
        <5>1. calib = [driver |-> a, board |-> b, settings |-> c]
          BY <1>3 DEF CalibShape
        <5>2. calib' = [calib EXCEPT ![h] = w] /\ h = "driver"
          BY <2>2, <3>1
        <5>3. calib.driver = F!NULL
          BY <1>1, <3>1
        <5> HIDE DEF a, b, c, w, h
        <5>4. calib' = [driver |-> w, board |-> b, settings |-> c]
          BY ONLY <5>1, <5>2
        <5> QED BY <5>3, <5>4 DEF b, c, w
      <4> DEFINE cd == calib'.driver
      <4>2. calib'.driver = e.name /\ calib'.board = calib.board /\ calib'.settings = calib.settings
        BY <4>1
      <4>3. CalibShape' /\ CalibNames'
        BY <1>2, <1>3, <4>1, <4>2 DEF CalibShape, CalibNames
      <4>4. F!Count(calib'.driver # F!NULL) = 1 /\ F!Count(calib.driver # F!NULL) = 0
        BY <1>2, <4>1, <4>2 DEF F!Count, F!NULL
      <4>5. F!Count(calib.board # F!NULL) \in Nat
        BY DEF F!Count
      <4>6. F!Count(calib'.driver # F!NULL) + F!Count(calib'.board # F!NULL)
              = F!Count(calib.driver # F!NULL) + F!Count(calib.board # F!NULL) + 1
        BY <4>2, <4>4, <4>5
      <4>7. Reachable'
        BY <1>3, <1>5, <2>2, <4>2, <4>6, ReachedSame
      <4> QED BY <4>2, <4>3, <4>7
    <3>2. CASE e.k = "board"
      <4>1. /\ calib' = [driver |-> calib.driver, board |-> e.name, settings |-> calib.settings]
            /\ calib.board = F!NULL
        <5> DEFINE a == calib.driver
                   b == calib.board
                   c == calib.settings
                   w == e.name
                   h == e.k
        <5>1. calib = [driver |-> a, board |-> b, settings |-> c]
          BY <1>3 DEF CalibShape
        <5>2. calib' = [calib EXCEPT ![h] = w] /\ h = "board"
          BY <2>2, <3>2
        <5>3. calib.board = F!NULL
          BY <1>1, <3>2
        <5> HIDE DEF a, b, c, w, h
        <5>4. calib' = [driver |-> a, board |-> w, settings |-> c]
          BY ONLY <5>1, <5>2
        <5> QED BY <5>3, <5>4 DEF a, c, w
      <4>2. calib'.driver = calib.driver /\ calib'.board = e.name /\ calib'.settings = calib.settings
        BY <4>1
      <4>3. CalibShape' /\ CalibNames'
        BY <1>2, <1>3, <4>1, <4>2 DEF CalibShape, CalibNames
      <4>4. F!Count(calib'.board # F!NULL) = 1 /\ F!Count(calib.board # F!NULL) = 0
        BY <1>2, <4>1, <4>2 DEF F!Count, F!NULL
      <4>5. F!Count(calib.driver # F!NULL) \in Nat
        BY DEF F!Count
      <4>6. F!Count(calib'.driver # F!NULL) + F!Count(calib'.board # F!NULL)
              = F!Count(calib.driver # F!NULL) + F!Count(calib.board # F!NULL) + 1
        BY <4>2, <4>4, <4>5
      <4>7. Reachable'
        BY <1>3, <1>5, <2>2, <4>2, <4>6, ReachedSame
      <4> QED BY <4>2, <4>3, <4>7
    <3> QED BY <1>2, <3>1, <3>2
  <2> QED BY <1>1, <2>1, <2>2
<1>8. index' = index + IF e.k = "end" THEN 1 ELSE 0
  BY <1>1, <1>2, <1>6
<1>9. poly' = [origin |-> IF e.k = "origin" THEN e.q ELSE poly.origin,
               coeffs |-> IF e.k = "coefficient" THEN More(poly.coeffs, e.q) ELSE poly.coeffs]
  BY <1>1, <1>2, <1>4
<1>10. Len(poly'.coeffs) <= MaxCoefs /\ caldac' = caldac
  BY <1>1, <1>3
<1> QED BY <1>1, <1>2, <1>7, <1>8, <1>9, <1>10, ReadOther

\* The polynomial in progress is a record of two fields.
LEMMA PolyShape ==
  ASSUME FileRead
  PROVE  poly = [origin |-> poly.origin, coeffs |-> poly.coeffs] /\ Len(poly.coeffs) \in Nat
<1> DEFINE w == PolySoFar(read)
<1>1. w = [origin |-> w.origin, coeffs |-> w.coeffs] /\ w.coeffs = Pick(Since(read), Qs(read))
  BY DEF PolySoFar
<1>2. Len(Pick(Since(read), Qs(read))) \in Nat
  <2>1. Len(read) \in Nat
    BY DEF FileRead
  <2>2. Since(read) \in SUBSET (1 .. Len(read))
    BY <2>1, BeforeIs DEF Since
  <2> QED BY <2>1, <2>2, PickGrows
<1>3. poly = w
  BY DEF FileRead
<1> HIDE DEF w
<1> QED BY <1>1, <1>2, <1>3

\* A step that changes no object.
LEMMA CalibSame ==
  ASSUME CalibShape, CalibNames, Reachable, UNCHANGED <<calib, live, path>>
  PROVE  CalibShape' /\ CalibNames' /\ Reachable' /\ calib'.settings = calib.settings
<1>1. CalibShape' /\ CalibNames' /\ calib'.settings = calib.settings
  BY DEF CalibShape, CalibNames
<1>2. F!Objects' = F!Objects /\ F!Reached' = F!Reached /\ F!Count(path)' = F!Count(path)
  BY DEF F!Objects, F!Reached
<1> QED BY <1>1, <1>2 DEF Reachable

\* add_polynomial_coefficient.
LEMMA ReadsCoefficient == ASSUME Reading, F!ReadCoefficient PROVE Reading'
<1>1. PICK e \in UNION Themes :
        /\ e.k = "coefficient" /\ F!Take(e) /\ Len(poly.coeffs) < MaxCoefs
        /\ poly' = [poly EXCEPT !.coeffs = Append(poly.coeffs, e.q)]
        /\ UNCHANGED <<calib, caldac, index, live>>
  BY DEF F!ReadCoefficient
<1>2. /\ FileRead /\ CalibShape /\ CalibNames /\ Reachable
  BY DEF Reading
<1>3. path' = path
  BY <1>1, <1>2, Taken DEF FileRead
<1>4. CalibShape' /\ CalibNames' /\ Reachable' /\ calib'.settings = calib.settings
  BY <1>1, <1>2, <1>3, CalibSame
<1>5. poly = [origin |-> poly.origin, coeffs |-> poly.coeffs] /\ Len(poly.coeffs) \in Nat
  BY <1>2, PolyShape
<1>6. poly' = [origin |-> poly.origin, coeffs |-> More(poly.coeffs, e.q)]
  <2> DEFINE x == More(poly.coeffs, e.q)
             a == poly.origin
             b == poly.coeffs
  <2>1. poly' = [poly EXCEPT !.coeffs = x]
    BY <1>1 DEF More
  <2>2. poly = [origin |-> a, coeffs |-> b]
    BY <1>5
  <2> HIDE DEF x, a, b
  <2>3. poly' = [origin |-> a, coeffs |-> x]
    BY <2>1, <2>2
  <2> QED BY <2>3 DEF a, x
<1>7. Len(More(poly.coeffs, e.q)) = Len(poly.coeffs) + 1
  <2>1. Len(read) \in Nat
    BY <1>2 DEF FileRead
  <2>2. Since(read) \in SUBSET (1 .. Len(read))
    BY <2>1, BeforeIs DEF Since
  <2>3. poly.coeffs = Pick(Since(read), Qs(read))
    BY <1>2 DEF FileRead, PolySoFar
  <2> QED BY <2>1, <2>2, <2>3, PickGrows
<1>8. Len(poly'.coeffs) <= MaxCoefs
  <2>1. MaxCoefs \in Nat
    BY AnalogAssumption DEF F!Parameters
  <2> QED BY <1>1, <1>5, <1>6, <1>7, <2>1
<1>9. e.k \notin F!Says /\ e.k # "end" /\ e.k # "origin"
  BY <1>1 DEF F!Says, F!Directions
<1>10. index' = index + IF e.k = "end" THEN 1 ELSE 0
  BY <1>1, <1>2, <1>9 DEF FileRead
<1>11. poly' = [origin |-> IF e.k = "origin" THEN e.q ELSE poly.origin,
                coeffs |-> IF e.k = "coefficient" THEN More(poly.coeffs, e.q) ELSE poly.coeffs]
  BY <1>1, <1>6, <1>9
<1> QED BY <1>1, <1>4, <1>8, <1>9, <1>10, <1>11, ReadOther

\* The origin of a polynomial.
LEMMA ReadsOrigin == ASSUME Reading, F!ReadOrigin PROVE Reading'
<1>1. PICK e \in UNION Themes :
        /\ e.k = "origin" /\ F!Take(e)
        /\ poly' = [poly EXCEPT !.origin = e.q]
        /\ UNCHANGED <<calib, caldac, index, live>>
  BY DEF F!ReadOrigin
<1>2. /\ FileRead /\ CalibShape /\ CalibNames /\ Reachable /\ Len(poly.coeffs) <= MaxCoefs
  BY DEF Reading
<1>3. path' = path
  BY <1>1, <1>2, Taken DEF FileRead
<1>4. CalibShape' /\ CalibNames' /\ Reachable' /\ calib'.settings = calib.settings
  BY <1>1, <1>2, <1>3, CalibSame
<1>5. poly = [origin |-> poly.origin, coeffs |-> poly.coeffs] /\ Len(poly.coeffs) \in Nat
  BY <1>2, PolyShape
<1>6. poly' = [origin |-> e.q, coeffs |-> poly.coeffs]
  <2> DEFINE x == e.q
             a == poly.origin
             b == poly.coeffs
  <2>1. poly' = [poly EXCEPT !.origin = x]
    BY <1>1
  <2>2. poly = [origin |-> a, coeffs |-> b]
    BY <1>5
  <2> HIDE DEF x, a, b
  <2>3. poly' = [origin |-> x, coeffs |-> b]
    BY <2>1, <2>2
  <2> QED BY <2>3 DEF b, x
<1>8. Len(poly'.coeffs) <= MaxCoefs
  BY <1>2, <1>6
<1>9. e.k \notin F!Says /\ e.k # "end" /\ e.k # "coefficient"
  BY <1>1 DEF F!Says, F!Directions
<1>10. index' = index + IF e.k = "end" THEN 1 ELSE 0
  BY <1>1, <1>2, <1>9 DEF FileRead
<1>11. poly' = [origin |-> IF e.k = "origin" THEN e.q ELSE poly.origin,
                coeffs |-> IF e.k = "coefficient" THEN More(poly.coeffs, e.q) ELSE poly.coeffs]
  BY <1>1, <1>6, <1>9
<1> QED BY <1>1, <1>4, <1>8, <1>9, <1>10, <1>11, ReadOther

\* The end of a setting.
LEMMA ReadsEnd == ASSUME Reading, F!ReadEnd PROVE Reading'
<1>1. PICK e \in UNION Themes :
        /\ e.k = "end" /\ F!Take(e) /\ index' = index + 1
        /\ UNCHANGED <<calib, caldac, poly, live>>
  BY DEF F!ReadEnd
<1>2. /\ FileRead /\ CalibShape /\ CalibNames /\ Reachable /\ Len(poly.coeffs) <= MaxCoefs
  BY DEF Reading
<1>3. path' = path /\ (Len(read) < 2 => e \in F!Names) /\ Len(read) \in Nat
  BY <1>1, <1>2, Taken DEF FileRead
<1>4. CalibShape' /\ CalibNames' /\ Reachable' /\ calib'.settings = calib.settings
  BY <1>1, <1>2, <1>3, CalibSame
<1>5. poly = [origin |-> poly.origin, coeffs |-> poly.coeffs]
  BY <1>2, PolyShape
<1>6. e.k \notin F!Says /\ e.k # "origin" /\ e.k # "coefficient"
  BY <1>1 DEF F!Says, F!Directions
<1>7. Len(read) >= 2
  <2>1. e \notin F!Names
    BY <1>1, NameKinds
  <2> QED BY <1>3, <2>1
<1>8. poly' = [origin |-> IF e.k = "origin" THEN e.q ELSE poly.origin,
               coeffs |-> IF e.k = "coefficient" THEN More(poly.coeffs, e.q) ELSE poly.coeffs]
  BY <1>1, <1>5, <1>6
<1>9. Len(poly'.coeffs) <= MaxCoefs /\ index' = index + IF e.k = "end" THEN 1 ELSE 0
  BY <1>1, <1>2
<1> QED BY <1>1, <1>4, <1>6, <1>7, <1>8, <1>9, ReadOther

\* What a step that changes a setting may take for granted.
LEMMA OpenSetting ==
  ASSUME Reading, NEW e, F!Take(e)
  PROVE  /\ FileRead /\ Len(read) \in Nat /\ Longer(read', read, e)
         /\ F!Settings[F!Current] = F!Meaning(read, Open(read))
         /\ caldac = F!CaldacAt(read, Len(read)) /\ poly = PolySoFar(read)
         /\ poly = [origin |-> poly.origin, coeffs |-> poly.coeffs]
<1>1. FileRead
  BY DEF Reading
<1>2. Len(read) \in Nat /\ Longer(read', read, e)
  BY <1>1, Taken DEF FileRead
<1>3. F!Settings[F!Current] = F!Meaning(read, Open(read))
  <2> DEFINE o1 == Open(read)
             s1 == F!Settings
             c1 == F!Current
  <2>1. c1 = o1 /\ o1 \in Nat /\ o1 > 0 /\ s1 = [k \in 1 .. o1 |-> F!Meaning(read, k)]
    BY <1>1, SettingsAre
  <2> HIDE DEF o1, s1, c1
  <2>2. s1[c1] = F!Meaning(read, o1)
    BY <2>1
  <2> QED BY <2>2 DEF o1, s1, c1
<1> QED BY <1>1, <1>2, <1>3, PolyShape DEF FileRead

\* The subdevice of a setting.
LEMMA ReadsSubdevice == ASSUME Reading, F!ReadSubdevice PROVE Reading'
<1>1. PICK e \in UNION Themes :
        /\ e.k = "subdevice" /\ F!Take(e) /\ F!Change("subdevice", e.v, 0)
        /\ UNCHANGED <<caldac, poly, index>>
  BY DEF F!ReadSubdevice
<1>2. PICK h : h = "subdevice"
  OBVIOUS
<1>3. h = FieldOf(e.k) /\ e.k \in F!Says /\ h \notin Heap /\ e.k \notin F!Directions
  BY <1>1, <1>2 DEF FieldOf, F!Says, Heap, F!Directions
<1>4. Longer(read', read, e) /\ poly = [origin |-> poly.origin, coeffs |-> poly.coeffs]
  BY <1>1, OpenSetting
<1>5. F!Meaning(read', Open(read)) = [F!Meaning(read, Open(read)) EXCEPT ![h] = e.v]
  <2>1. F!Meaning(read', Open(read)) = Put(F!Meaning(read, Open(read)), h, e.v)
    BY <1>1, <1>3, <1>4, MeaningChanged, ZenonT(30)
  <2> QED BY <2>1 DEF Put
<1>6. F!Change(h, e.v, 0)
  BY <1>1, <1>2
<1>7. 0 = F!Count(h \in Heap /\ ~F!Holds(F!Meaning(read, Open(read)), h))
  BY <1>3 DEF F!Count
<1>8. /\ index' = index
      /\ caldac' = IF e.k = "caldac"
                     THEN [y \in Fields |-> IF y \in DOMAIN e.given THEN e.given[y] ELSE caldac[y]]
                     ELSE caldac
      /\ poly' = [origin |-> poly.origin, coeffs |-> IF e.k \in F!Directions THEN << >> ELSE poly.coeffs]
  BY <1>1, <1>3, <1>4
<1> QED BY <1>1, <1>3, <1>5, <1>6, <1>7, <1>8, ReadSays

\* add_channel, add_range and add_aref.
LEMMA ReadsListed == ASSUME Reading, F!ReadListed PROVE Reading'
<1>1. PICK e \in UNION Themes :
        /\ e.k \in {"channel", "range", "aref"} /\ F!Take(e)
        /\ LET l == F!ListOf(e.k)
               old == F!Settings[F!Current][l]
           IN  /\ l = "arefs" => Len(old) < MaxArefs
               /\ F!Change(l, Append(old, e.v), F!Count(l # "arefs" /\ old = << >>))
        /\ UNCHANGED <<caldac, poly, index>>
  BY DEF F!ReadListed
<1>2. PICK h : h = F!ListOf(e.k)
  OBVIOUS
<1>3. /\ h = FieldOf(e.k) /\ e.k \in F!Says /\ e.k \notin F!Directions /\ e.k # "caldac"
      /\ h \in {"channels", "ranges", "arefs"} /\ h \notin F!Directions
      /\ e.k = "aref" <=> h = "arefs"
      /\ h \in Heap <=> h # "arefs"
  BY <1>1, <1>2 DEF FieldOf, F!ListOf, F!Says, Heap, F!Directions
<1>4. /\ FileRead /\ Len(read) \in Nat /\ Longer(read', read, e)
      /\ F!Settings[F!Current] = F!Meaning(read, Open(read))
      /\ poly = [origin |-> poly.origin, coeffs |-> poly.coeffs]
  BY <1>1, OpenSetting
<1> DEFINE old == F!Meaning(read, Open(read))[h]
           w == More(old, e.v)
           x == F!Count(h # "arefs" /\ old = << >>)
<1>5. F!Meaning(read', Open(read)) = [F!Meaning(read, Open(read)) EXCEPT ![h] = w]
  <2>1. F!Meaning(read', Open(read)) = Put(F!Meaning(read, Open(read)), h, w)
    BY <1>1, <1>3, <1>4, MeaningChanged, ZenonT(30)
  <2> QED BY <2>1 DEF Put
<1>6. F!Change(h, w, x) /\ (h = "arefs" => Len(old) < MaxArefs)
  BY <1>1, <1>2, <1>4 DEF More
<1>7. w # << >>
  BY <1>3, <1>4, ListsGrow
<1>8. F!Meaning(read', Open(read))[h] = w
  <2>1. h \in DOMAIN F!Meaning(read, Open(read))
    <3> DEFINE M == F!Meaning(read, Open(read))
    <3>1. DOMAIN M = {"subdevice", "channels", "ranges", "arefs", "caldacs", "to_phys", "from_phys"}
      BY DEF F!Meaning
    <3> HIDE DEF M
    <3> QED BY <1>3, <3>1 DEF M
  <2> DEFINE M == F!Meaning(read, Open(read))
             G == F!Meaning(read', Open(read))
  <2> HIDE DEF M, G, w
  <2>2. G[h] = w
    BY <1>5, <2>1 DEF M, G
  <2> QED BY <2>2 DEF G
<1>9. F!Holds(F!Meaning(read', Open(read)), h)
  BY <1>3, <1>7, <1>8 DEF F!Holds
<1>10. x = F!Count(h \in Heap /\ ~F!Holds(F!Meaning(read, Open(read)), h))
  <2>1. (h # "arefs" /\ old = << >>) <=> (h \in Heap /\ ~F!Holds(F!Meaning(read, Open(read)), h))
    BY <1>3 DEF F!Holds
  <2> QED BY <2>1 DEF F!Count
<1>11. /\ index' = index
       /\ caldac' = IF e.k = "caldac"
                      THEN [y \in Fields |-> IF y \in DOMAIN e.given THEN e.given[y] ELSE caldac[y]]
                      ELSE caldac
       /\ poly' = [origin |-> poly.origin, coeffs |-> IF e.k \in F!Directions THEN << >> ELSE poly.coeffs]
  BY <1>1, <1>3, <1>4
<1>12. e.k = "aref" => Len(F!Meaning(read, Open(read)).arefs) < MaxArefs
  BY <1>3, <1>6
<1> HIDE DEF w, x
<1> QED BY <1>1, <1>3, <1>5, <1>6, <1>9, <1>10, <1>11, <1>12, ReadSays

\* add_caldac.
LEMMA ReadsCaldac == ASSUME Reading, F!ReadCaldac PROVE Reading'
<1>1. PICK e \in UNION Themes :
        /\ e.k = "caldac" /\ F!Take(e)
        /\ caldac' = [y \in DOMAIN caldac |-> IF y \in DOMAIN e.given THEN e.given[y] ELSE caldac[y]]
        /\ LET old == F!Settings[F!Current].caldacs
           IN  F!Change("caldacs", Append(old, caldac'), F!Count(old = << >>))
        /\ UNCHANGED <<poly, index>>
  BY DEF F!ReadCaldac
<1>2. PICK h : h = "caldacs"
  OBVIOUS
<1>3. h = FieldOf(e.k) /\ e.k \in F!Says /\ e.k \notin F!Directions /\ h \in Heap /\ h \notin F!Directions
  BY <1>1, <1>2 DEF FieldOf, F!Says, Heap, F!Directions
<1>4. /\ FileRead /\ Len(read) \in Nat /\ Longer(read', read, e)
      /\ F!Settings[F!Current] = F!Meaning(read, Open(read))
      /\ caldac = F!CaldacAt(read, Len(read))
      /\ poly = [origin |-> poly.origin, coeffs |-> poly.coeffs]
  BY <1>1, OpenSetting
<1>5. DOMAIN caldac = Fields
  <2>1. DOMAIN F!CaldacAt(read, Len(read)) = Fields
    BY DEF F!CaldacAt, Fields
  <2> QED BY <1>4, <2>1
<1>6. /\ caldac' = [y \in Fields |-> IF y \in DOMAIN e.given THEN e.given[y] ELSE caldac[y]]
      /\ caldac' = F!CaldacAt(read', Len(read'))
  <2>1. caldac' = [y \in Fields |-> IF y \in DOMAIN e.given THEN e.given[y] ELSE caldac[y]]
    BY <1>1, <1>5
  <2>2. F!CaldacAt(read', Len(read'))
          = [y \in Fields |-> IF y \in DOMAIN e.given THEN e.given[y] ELSE F!CaldacAt(read, Len(read))[y]]
    BY <1>1, <1>4, CaldacMore
  <2> QED BY <1>4, <2>1, <2>2
<1> DEFINE old == F!Meaning(read, Open(read))[h]
           d1 == F!CaldacAt(read', Len(read'))
           w == More(old, d1)
           x == F!Count(old = << >>)
<1>7. F!Meaning(read', Open(read)) = [F!Meaning(read, Open(read)) EXCEPT ![h] = w]
  <2>1. F!Meaning(read', Open(read)) = Put(F!Meaning(read, Open(read)), h, w)
    BY <1>1, <1>3, <1>4, MeaningChanged
  <2> QED BY <2>1 DEF Put
<1>8. F!Change(h, w, x)
  <2>1. old = F!Settings[F!Current].caldacs
    BY <1>2, <1>4
  <2> DEFINE o1 == F!Settings[F!Current].caldacs
  <2>2. F!Change("caldacs", Append(o1, caldac'), F!Count(o1 = << >>))
    BY <1>1
  <2> HIDE DEF o1, old, d1
  <2>3. o1 = old /\ caldac' = d1
    BY <1>6, <2>1 DEF o1, d1
  <2> QED BY <1>2, <2>2, <2>3 DEF More
<1>9. w # << >>
  BY <1>2, <1>4, ListsGrow
<1>10. F!Meaning(read', Open(read))[h] = w
  <2>1. h \in DOMAIN F!Meaning(read, Open(read))
    <3> DEFINE M == F!Meaning(read, Open(read))
    <3>1. DOMAIN M = {"subdevice", "channels", "ranges", "arefs", "caldacs", "to_phys", "from_phys"}
      BY DEF F!Meaning
    <3> HIDE DEF M
    <3> QED BY <1>2, <3>1 DEF M
  <2> DEFINE M == F!Meaning(read, Open(read))
             G == F!Meaning(read', Open(read))
  <2> HIDE DEF M, G, w
  <2>2. G[h] = w
    BY <1>7, <2>1 DEF M, G
  <2> QED BY <2>2 DEF G
<1>11. F!Holds(F!Meaning(read', Open(read)), h)
  BY <1>3, <1>9, <1>10 DEF F!Holds
<1>12. x = F!Count(h \in Heap /\ ~F!Holds(F!Meaning(read, Open(read)), h))
  <2>1. (old = << >>) <=> (h \in Heap /\ ~F!Holds(F!Meaning(read, Open(read)), h))
    BY <1>3 DEF F!Holds
  <2> QED BY <2>1 DEF F!Count
<1>13. /\ index' = index
       /\ caldac' = IF e.k = "caldac"
                      THEN [y \in Fields |-> IF y \in DOMAIN e.given THEN e.given[y] ELSE caldac[y]]
                      ELSE caldac
       /\ poly' = [origin |-> poly.origin, coeffs |-> IF e.k \in F!Directions THEN << >> ELSE poly.coeffs]
  BY <1>1, <1>3, <1>4, <1>6
<1>14. e.k # "aref"
  BY <1>1
<1> HIDE DEF w, x
<1> QED BY <1>1, <1>3, <1>7, <1>8, <1>11, <1>12, <1>13, <1>14, ReadSays

\* add_polynomial.
LEMMA ReadsPolynomial == ASSUME Reading, F!ReadPolynomial PROVE Reading'
<1>1. PICK e \in UNION Themes :
        /\ e.k \in F!Directions /\ F!Take(e)
        /\ poly.coeffs # << >> /\ F!Settings[F!Current][e.k].coeffs = << >>
        /\ F!Change(e.k, poly, 1)
        /\ poly' = [poly EXCEPT !.coeffs = << >>]
        /\ UNCHANGED <<caldac, index>>
  BY DEF F!ReadPolynomial
<1>2. PICK h : h = e.k
  OBVIOUS
<1>3. h = FieldOf(e.k) /\ e.k \in F!Says /\ h \in F!Directions /\ h \in Heap /\ e.k # "caldac" /\ e.k # "aref"
  BY <1>1, <1>2 DEF FieldOf, F!Says, Heap, F!Directions
<1>4. /\ FileRead /\ Len(read) \in Nat /\ Longer(read', read, e)
      /\ F!Settings[F!Current] = F!Meaning(read, Open(read))
      /\ poly = PolySoFar(read)
      /\ poly = [origin |-> poly.origin, coeffs |-> poly.coeffs]
  BY <1>1, OpenSetting
<1>5. F!Meaning(read, Open(read))[h].coeffs = << >>
  BY <1>1, <1>2, <1>4
<1>6. F!Written(read, Open(read), {h}) = {}
  <2>1. \A p \in F!Before(read, Len(read), F!Directions) : F!PolyAt(read, p).coeffs # << >>
    BY <1>4 DEF FileRead
  <2> QED BY <1>3, <1>4, <1>5, <2>1, PolyGiven
<1>7. F!Meaning(read', Open(read)) = [F!Meaning(read, Open(read)) EXCEPT ![h] = poly]
  <2>0. F!Written(read, Open(read), {e.k}) = {}
    BY <1>2, <1>6
  <2>1. F!Meaning(read', Open(read)) = Put(F!Meaning(read, Open(read)), h, PolySoFar(read))
    BY <1>1, <1>3, <1>4, <2>0, MeaningChanged
  <2> QED BY <1>4, <2>1 DEF Put
<1>8. F!Change(h, poly, 1)
  BY <1>1, <1>2
<1>9. F!Meaning(read', Open(read))[h] = poly
  <2>1. h \in DOMAIN F!Meaning(read, Open(read))
    <3> DEFINE M == F!Meaning(read, Open(read))
    <3>1. DOMAIN M = {"subdevice", "channels", "ranges", "arefs", "caldacs", "to_phys", "from_phys"}
      BY DEF F!Meaning
    <3> HIDE DEF M
    <3> QED BY <1>3, <3>1 DEF M, F!Directions
  <2> DEFINE M == F!Meaning(read, Open(read))
             G == F!Meaning(read', Open(read))
  <2> HIDE DEF M, G
  <2>2. G[h] = poly
    BY <1>7, <2>1 DEF M, G
  <2> QED BY <2>2 DEF G
<1>10. F!Holds(F!Meaning(read', Open(read)), h)
  BY <1>1, <1>3, <1>9 DEF F!Holds
<1>11. 1 = F!Count(h \in Heap /\ ~F!Holds(F!Meaning(read, Open(read)), h))
  BY <1>3, <1>5 DEF F!Holds, F!Count
<1>12. poly' = [origin |-> poly.origin, coeffs |-> IF e.k \in F!Directions THEN << >> ELSE poly.coeffs]
  <2> DEFINE a == poly.origin
             b == poly.coeffs
  <2>1. poly' = [poly EXCEPT !.coeffs = << >>] /\ poly = [origin |-> a, coeffs |-> b]
    BY <1>1, <1>4
  <2> HIDE DEF a, b
  <2>2. poly' = [origin |-> a, coeffs |-> << >>]
    BY <2>1
  <2> QED BY <1>1, <2>2 DEF a
<1>13. /\ index' = index
       /\ caldac' = IF e.k = "caldac"
                      THEN [y \in Fields |-> IF y \in DOMAIN e.given THEN e.given[y] ELSE caldac[y]]
                      ELSE caldac
  BY <1>1, <1>3
<1> QED BY <1>1, <1>3, <1>7, <1>8, <1>10, <1>11, <1>12, <1>13, ReadSays

-----------------------------------------------------------------------------
(***************************************************************************)
(* fill_inverse_linear_polynomials.                                        *)
(***************************************************************************)
Lacking(m) == \E d \in F!Directions : F!Lacks(m, d)
LackingDir(m) == IF F!Lacks(m, "to_phys") THEN "to_phys" ELSE "from_phys"

\* What the inverse adds to a setting.
LEMMA FillIs ==
  ASSUME NEW f, Len(f) \in Nat, NEW k, NEW m, m = F!Meaning(f, k)
  PROVE  F!Fill(m)
           = [subdevice |-> m.subdevice, channels |-> m.channels, ranges |-> m.ranges, arefs |-> m.arefs,
              caldacs |-> m.caldacs,
              to_phys |-> IF F!Lacks(m, "to_phys") THEN F!InverseLinear(m.from_phys) ELSE m.to_phys,
              from_phys |-> IF F!Lacks(m, "from_phys") THEN F!InverseLinear(m.to_phys) ELSE m.from_phys]
<1> DEFINE a == m.subdevice
           b == m.channels
           c == m.ranges
           d == m.arefs
           e == m.caldacs
           v == m.to_phys
           w == m.from_phys
           x == IF F!Lacks(m, "to_phys") THEN F!InverseLinear(m.from_phys) ELSE m.to_phys
           y == IF F!Lacks(m, "from_phys") THEN F!InverseLinear(m.to_phys) ELSE m.from_phys
<1>1. m = [subdevice |-> a, channels |-> b, ranges |-> c, arefs |-> d, caldacs |-> e,
           to_phys |-> v, from_phys |-> w]
  BY MeaningShape
<1>2. F!Fill(m) = [m EXCEPT !.to_phys = x, !.from_phys = y]
  <2>1. F!Fill(m)
          = [m EXCEPT !.to_phys = IF F!Lacks(m, "to_phys") THEN F!InverseLinear(m.from_phys) ELSE @,
                      !.from_phys = IF F!Lacks(m, "from_phys") THEN F!InverseLinear(m.to_phys) ELSE @]
    BY DEF F!Fill
  <2> HIDE DEF a, b, c, d, e, v, w
  <2>2. F!Fill(m) = [m EXCEPT !.to_phys = x, !.from_phys = y]
    BY <1>1, <2>1 DEF v, w
  <2> QED BY <2>2
<1> HIDE DEF a, b, c, d, e, v, w, x, y
<1>3. F!Fill(m) = [subdevice |-> a, channels |-> b, ranges |-> c, arefs |-> d, caldacs |-> e,
                   to_phys |-> x, from_phys |-> y]
  <2>1. PICK r1 : r1 = [m EXCEPT !.to_phys = x]
    OBVIOUS
  <2>2. r1 = [subdevice |-> a, channels |-> b, ranges |-> c, arefs |-> d, caldacs |-> e,
              to_phys |-> x, from_phys |-> w]
    BY ONLY <1>1, <2>1
  <2>3. F!Fill(m) = [r1 EXCEPT !.from_phys = y]
    BY ONLY <1>1, <1>2, <2>1
  <2>4. PICK r2 : r2 = [r1 EXCEPT !.from_phys = y]
    OBVIOUS
  <2>5. r2 = [subdevice |-> a, channels |-> b, ranges |-> c, arefs |-> d, caldacs |-> e,
              to_phys |-> x, from_phys |-> y]
    BY ONLY <2>2, <2>4
  <2> QED BY <2>3, <2>4, <2>5
<1> QED BY <1>3 DEF a, b, c, d, e, v, w, x, y

\* The inverse is the one object more.
LEMMA FillHolds ==
  ASSUME NEW f, Len(f) \in Nat, NEW k, NEW m, m = F!Meaning(f, k), Lacking(m)
  PROVE  /\ LackingDir(m) \in F!Directions /\ ~F!Holds(m, LackingDir(m)) /\ F!Lacks(m, LackingDir(m))
         /\ \A h \in Heap : F!Holds(F!Fill(m), h) <=> F!Holds(m, h) \/ h = LackingDir(m)
         /\ F!Fill(m)[LackingDir(m)] = F!InverseLinear(m[F!Other(LackingDir(m))])
         /\ F!Fill(m)[F!Other(LackingDir(m))] = m[F!Other(LackingDir(m))]
<1> DEFINE a == m.to_phys
           b == m.from_phys
<1>1. /\ F!Lacks(m, "to_phys") <=> a.coeffs = << >> /\ F!Invertible(b)
      /\ F!Lacks(m, "from_phys") <=> b.coeffs = << >> /\ F!Invertible(a)
  BY DEF F!Lacks, F!Other
<1>2. F!Lacks(m, "to_phys") \/ F!Lacks(m, "from_phys")
  BY DEF Lacking, F!Directions
<1>3. \A p : F!Invertible(p) => p.coeffs # << >>
  <2>1. Len(<< >>) # 2
    OBVIOUS
  <2> QED BY <2>1 DEF F!Invertible
<1>4. \A p : F!InverseLinear(p).coeffs # << >>
  BY DEF F!InverseLinear
<1>5. F!Fill(m)
        = [subdevice |-> m.subdevice, channels |-> m.channels, ranges |-> m.ranges, arefs |-> m.arefs,
           caldacs |-> m.caldacs,
           to_phys |-> IF F!Lacks(m, "to_phys") THEN F!InverseLinear(b) ELSE a,
           from_phys |-> IF F!Lacks(m, "from_phys") THEN F!InverseLinear(a) ELSE b]
  BY FillIs
<1> DEFINE w == F!Fill(m)
<1>6. /\ w.channels = m.channels /\ w.ranges = m.ranges /\ w.caldacs = m.caldacs
      /\ w.to_phys = IF F!Lacks(m, "to_phys") THEN F!InverseLinear(b) ELSE a
      /\ w.from_phys = IF F!Lacks(m, "from_phys") THEN F!InverseLinear(a) ELSE b
  BY <1>5
<1> HIDE DEF w
<1>7. \A h \in Heap : F!Holds(w, h) <=> F!Holds(m, h) \/ h = LackingDir(m)
  BY <1>1, <1>2, <1>3, <1>4, <1>6 DEF Heap, F!Directions, F!Holds, LackingDir
<1>8. LackingDir(m) \in F!Directions /\ ~F!Holds(m, LackingDir(m)) /\ F!Lacks(m, LackingDir(m))
  BY <1>1, <1>2 DEF F!Directions, F!Holds, LackingDir
<1>9. w[LackingDir(m)] = F!InverseLinear(m[F!Other(LackingDir(m))])
  BY <1>1, <1>2, <1>6 DEF LackingDir, F!Other
<1>10. w[F!Other(LackingDir(m))] = m[F!Other(LackingDir(m))]
  BY <1>1, <1>2, <1>3, <1>6 DEF LackingDir, F!Other
<1> QED BY <1>7, <1>8, <1>9, <1>10 DEF w

\* Settings some of which are filled, and the objects of settings.
FillIn(s, lk) == [k \in DOMAIN s |-> IF k \in lk THEN F!Fill(s[k]) ELSE s[k]]
HeldIn(s) == {o \in (DOMAIN s) \X Heap : F!Holds(s[o[1]], o[2])}

\* Each inverse is one object more.
LEMMA FillCounts ==
  ASSUME NEW f, Len(f) \in Nat, NEW s, s = F!File(f),
         NEW lk, lk \subseteq DOMAIN s, \A k \in lk : Lacking(s[k])
  PROVE  /\ Cardinality(HeldIn(FillIn(s, lk))) = Cardinality(HeldIn(s)) + Cardinality(lk)
         /\ Cardinality(HeldIn(s)) \in Nat /\ Cardinality(lk) \in Nat
         /\ FillIn(s, lk) = << >> <=> s = << >>
<1> DEFINE t == FillIn(s, lk)
           O1 == HeldIn(s)
           O2 == HeldIn(t)
           l == F!SettingCount(f)
<1>0. /\ O1 = {o \in (DOMAIN s) \X Heap : F!Holds(s[o[1]], o[2])}
      /\ O2 = {o \in (DOMAIN t) \X Heap : F!Holds(t[o[1]], o[2])}
      /\ t = [k \in DOMAIN s |-> IF k \in lk THEN F!Fill(s[k]) ELSE s[k]]
  BY DEF HeldIn, FillIn
<1>1. l \in Nat /\ s = [k \in 1 .. l |-> F!Meaning(f, k)]
  BY CountType DEF F!File
<1>2. O1 = Owned(f)
  BY <1>0, OwnedIs
<1>3. IsFiniteSet(O1) /\ Cardinality(O1) \in Nat
  BY <1>2, OwnedFinite
<1> HIDE DEF l, t, O1, O2
<1>4. lk \in SUBSET (1 .. l) /\ DOMAIN s = 1 .. l /\ DOMAIN t = 1 .. l
  BY <1>0, <1>1
<1>5. IsFiniteSet(lk) /\ Cardinality(lk) \in Nat
  BY <1>1, <1>4, PositionsFinite
<1> DEFINE d1 == [k \in lk |-> <<k, LackingDir(s[k])>>]
           D1 == {<<k, LackingDir(s[k])>> : k \in lk}
<1>6. Cardinality(D1) = Cardinality(lk) /\ IsFiniteSet(D1)
  <2>1. d1 \in [lk -> D1]
    OBVIOUS
  <2>2. \A x, y \in lk : d1[x] = d1[y] => x = y
    OBVIOUS
  <2>3. \A y \in D1 : \E x \in lk : d1[x] = y
    OBVIOUS
  <2> HIDE DEF d1, D1
  <2>4. d1 \in Bijection(lk, D1)
    BY <2>1, <2>2, <2>3, Fun_IsBij
  <2>5. ExistsBijection(lk, D1)
    BY <2>4 DEF ExistsBijection
  <2> QED BY <1>5, <2>5, FS_Bijection
<1>7. ASSUME NEW k \in 1 .. l, NEW h \in Heap
      PROVE  F!Holds(t[k], h) <=> F!Holds(s[k], h) \/ (k \in lk /\ h = LackingDir(s[k]))
  <2>1. s[k] = F!Meaning(f, k) /\ t[k] = IF k \in lk THEN F!Fill(s[k]) ELSE s[k]
    BY <1>0, <1>1
  <2>2. CASE k \in lk
    <3>1. Lacking(s[k])
      BY <2>2
    <3> QED BY <2>1, <2>2, <3>1, FillHolds
  <2>3. CASE k \notin lk
    BY <2>1, <2>3
  <2> QED BY <2>2, <2>3
<1>8. ASSUME NEW k \in lk PROVE LackingDir(s[k]) \in Heap /\ ~F!Holds(s[k], LackingDir(s[k]))
  <2>1. Lacking(s[k]) /\ s[k] = F!Meaning(f, k)
    BY <1>1, <1>4
  <2>2. LackingDir(s[k]) \in F!Directions /\ ~F!Holds(s[k], LackingDir(s[k]))
    BY <2>1, FillHolds
  <2> QED BY <2>2 DEF Heap
<1>9. O2 = O1 \cup D1 /\ O1 \cap D1 = {}
  <2>1. \A o1 : o1 \in O2 <=> o1 \in O1 \/ o1 \in D1
    BY <1>0, <1>4, <1>7, <1>8
  <2>2. O1 \cap D1 = {}
    BY <1>0, <1>8
  <2> HIDE DEF O1, O2, D1
  <2> QED BY <2>1, <2>2
<1> HIDE DEF O1, O2, D1
<1>10. Cardinality(O1 \cup D1) = Cardinality(O1) + Cardinality(D1) - Cardinality(O1 \cap D1)
  BY <1>3, <1>6, FS_Union
<1>11. Cardinality({}) = 0
  BY FS_EmptySet
<1>12. Cardinality(O2) = Cardinality(O1) + Cardinality(lk)
  <2>1. Cardinality(O1 \cap D1) = 0
    BY <1>9, <1>11
  <2>2. Cardinality(O2) = Cardinality(O1) + Cardinality(D1) - Cardinality(O1 \cap D1)
    BY <1>9, <1>10
  <2> QED BY <1>3, <1>5, <1>6, <2>1, <2>2
<1>13. t = << >> <=> s = << >>
  <2>1. s = << >> <=> l = 0
    BY <1>1
  <2>2. t = << >> <=> l = 0
    BY <1>0, <1>1, <1>4
  <2> QED BY <2>1, <2>2
<1> QED BY <1>3, <1>5, <1>12, <1>13 DEF O1, O2, t

-----------------------------------------------------------------------------
(***************************************************************************)
(* The invariant of a calibration.                                         *)
(***************************************************************************)
FileFine ==
  /\ read \in Seq(Elements)
  /\ \A p \in F!Before(read, Len(read), F!Directions) : F!PolyAt(read, p).coeffs # << >>

\* The settings with the inverses there was memory for.
Filled(f, u) ==
  [k \in 1 .. F!SettingCount(f) |->
     IF Lacking(F!Meaning(f, k)) /\ k \notin u THEN F!Fill(F!Meaning(f, k)) ELSE F!Meaning(f, k)]

Loaded ==
  /\ FileFine /\ CalibNames /\ Reachable /\ ArefsFit(read)
  /\ calib.settings = Filled(read, unfilled)
  /\ Len(read) <= 2 + MaxElements /\ path = FALSE

Fresh ==
  /\ read = << >> /\ calib = F!NoCalib /\ poly = F!NoPoly /\ index = 0
  /\ caldac = [subdevice |-> 0, channel |-> 0, value |-> 0]

NoFile == calib = F!NoCalib /\ read = << >> /\ path = FALSE

CalibInv ==
  /\ pc \in {"start", "open", "unopened", "failed", "parse", "inverse", "loaded", "apply",
             "answered", "crashed", "closed"}
  /\ path \in BOOLEAN /\ Len(poly.coeffs) <= MaxCoefs /\ index \in 0 .. MaxElements
  /\ pc = "start" => Fresh /\ path = FALSE /\ live = 0
  /\ pc = "open" => Fresh /\ live = F!Count(path) + 1
  /\ pc = "unopened" => NoFile /\ live = 1
  /\ pc \in {"failed", "closed"} => NoFile /\ live = 0
  /\ pc \in {"parse", "inverse"} => Reading
  /\ pc \in {"loaded", "apply", "answered", "crashed"} => Loaded

\* The invariant holds at first.
LEMMA CalibBegins == ASSUME F!Init PROVE CalibInv
<1>1. /\ pc = "start" /\ Fresh /\ path = FALSE /\ live = 0
  BY DEF F!Init, Fresh
<1>2. Len(poly.coeffs) <= MaxCoefs /\ index \in 0 .. MaxElements
  <2>1. MaxCoefs \in Nat /\ MaxElements \in Nat
    BY AnalogAssumption DEF F!Parameters
  <2>2. poly.coeffs = << >> /\ index = 0
    BY <1>1 DEF Fresh, F!NoPoly
  <2> QED BY <2>1, <2>2
<1> QED BY <1>1, <1>2 DEF CalibInv

\* Before the first element.
LEMMA FreshRead ==
  ASSUME Fresh, live = F!Count(path) + 1
  PROVE  /\ FileRead /\ CalibShape /\ CalibNames /\ Reachable /\ ArefsFit(read)
         /\ index = 0 /\ Len(poly.coeffs) <= MaxCoefs /\ Len(read) <= 2 + MaxElements
<1>1. Len(<< >>) = 0 /\ << >> \in Seq(Elements)
  OBVIOUS
<1>2. MaxCoefs \in Nat /\ MaxElements \in Nat /\ MaxArefs \in Nat
  BY AnalogAssumption DEF F!Parameters
<1>3. calib = [driver |-> F!NULL, board |-> F!NULL, settings |-> << >>]
  BY DEF Fresh, F!NoCalib
<1>4. calib.driver = F!NULL /\ calib.board = F!NULL /\ calib.settings = << >>
  BY <1>3
<1>5. F!File(<< >>) = << >>
  <2>1. F!File(<< >>) = [k \in 1 .. 0 |-> F!Meaning(<< >>, k)]
    BY EmptyFile DEF F!File
  <2> QED BY <2>1
<1>6. FileRead
  BY <1>1, <1>4, <1>5, EmptyFile DEF Fresh, FileRead
<1>7. CalibShape /\ CalibNames
  BY <1>3, <1>4 DEF CalibShape, CalibNames
<1>8. Reachable
  <2>1. F!Objects = {}
    BY <1>4 DEF F!Objects
  <2>2. F!Cardinality(F!Objects) = 0
    BY <2>1, FileCounts, FS_EmptySet
  <2>3. F!Reached = 1
    BY <1>4, <2>2 DEF F!Reached, F!Count
  <2> QED BY <2>3 DEF Reachable
<1>9. ArefsFit(read)
  <2>1. SUFFICES ASSUME NEW k PROVE Len(F!Meaning(<< >>, k).arefs) <= MaxArefs
    BY DEF ArefsFit, Fresh
  <2>2. F!Written(<< >>, k, {"aref"}) = {}
    BY <1>1, EmptyFile DEF F!Written
  <2>4. Len(<< >>) \in Nat
    BY <1>1
  <2>3. F!Values(<< >>, k, "aref") = << >>
    <3>1. F!Values(<< >>, k, "aref") = Pick(F!Written(<< >>, k, {"aref"}), Vs(<< >>))
      BY <2>4, ValuesAre
    <3> QED BY <2>2, <3>1, NothingPicked
  <2>5. F!Meaning(<< >>, k).arefs = << >>
    BY <2>3, <2>4, MeaningIs
  <2> QED BY <1>1, <1>2, <2>5
<1>10. Len(poly.coeffs) <= MaxCoefs /\ Len(read) <= 2 + MaxElements
  <2>1. poly.coeffs = << >> /\ read = << >>
    BY DEF Fresh, F!NoPoly
  <2> QED BY <1>1, <1>2, <2>1
<1>11. index = 0
  BY DEF Fresh
<1> QED BY <1>6, <1>7, <1>8, <1>9, <1>10, <1>11

\* Filled is FillIn.
LEMMA FilledIs ==
  ASSUME NEW f, NEW u
  PROVE  LET lk == {k \in DOMAIN F!File(f) : Lacking(F!File(f)[k]) /\ k \notin u}
         IN  Filled(f, u) = FillIn(F!File(f), lk)
  BY DEF F!File, Filled, FillIn

\* What there is to reach is a number.
LEMMA ReachedNat ==
  ASSUME NEW f, Len(f) \in Nat, NEW u, calib.settings = F!File(f) \/ calib.settings = Filled(f, u)
  PROVE  F!Reached \in Nat
<1> DEFINE s == F!File(f)
           lk == {k \in DOMAIN s : Lacking(s[k]) /\ k \notin u}
           t == FillIn(s, lk)
<1>1. Filled(f, u) = t
  BY FilledIs
<1>2. lk \subseteq DOMAIN s /\ \A k \in lk : Lacking(s[k])
  OBVIOUS
<1> HIDE DEF lk
<1>3. Cardinality(HeldIn(s)) \in Nat /\ Cardinality(HeldIn(t)) \in Nat
  <2>1. /\ Cardinality(HeldIn(t)) = Cardinality(HeldIn(s)) + Cardinality(lk)
        /\ Cardinality(HeldIn(s)) \in Nat /\ Cardinality(lk) \in Nat
    BY <1>2, FillCounts
  <2> QED BY <2>1
<1>4. F!Cardinality(F!Objects) \in Nat
  <2>1. F!Objects = HeldIn(calib.settings)
    BY DEF F!Objects, Heap, HeldIn
  <2> HIDE DEF s, t
  <2>2. F!Objects = HeldIn(s) \/ F!Objects = HeldIn(t)
    BY <1>1, <2>1 DEF s
  <2> QED BY <1>3, <2>2, FileCounts
<1>5. \A P \in BOOLEAN : F!Count(P) \in Nat
  BY DEF F!Count
<1>6. /\ F!Count(calib.driver # F!NULL) \in Nat /\ F!Count(calib.board # F!NULL) \in Nat
      /\ F!Count(calib.settings # << >>) \in Nat
  BY DEF F!Count
<1> QED BY <1>4, <1>6 DEF F!Reached

\* The inverses are filled in.
LEMMA FillsInverse == ASSUME Reading, F!FillInverse PROVE Loaded' /\ pc' = "loaded"
<1>1. /\ FileRead /\ CalibShape /\ CalibNames /\ Reachable /\ ArefsFit(read) /\ Len(read) <= 2 + MaxElements
  BY DEF Reading
<1> DEFINE s == calib.settings
           u == unfilled'
           lacking == {k \in DOMAIN s : Lacking(s[k])}
           lk == lacking \ u
           t == FillIn(s, lk)
<1>2. /\ unfilled' \in SUBSET lacking
      /\ calib' = [calib EXCEPT !.settings = t]
      /\ path' = FALSE /\ live' = (live + F!Cardinality(lk)) - F!Count(path)
      /\ pc' = "loaded" /\ read' = read
  BY DEF F!FillInverse, F!Goto, F!FreePath, Lacking, FillIn
<1>3. Len(read) \in Nat /\ s = F!File(read)
  BY <1>1 DEF FileRead
<1>4. lk \subseteq DOMAIN s /\ \A k \in lk : Lacking(s[k])
  OBVIOUS
<1>5. Filled(read, u) = t
  <2>1. lk = {k \in DOMAIN s : Lacking(s[k]) /\ k \notin u}
    OBVIOUS
  <2> HIDE DEF lk, u, s
  <2>2. lk = {k \in DOMAIN F!File(read) : Lacking(F!File(read)[k]) /\ k \notin u}
    BY <1>3, <2>1
  <2>3. Filled(read, u) = FillIn(F!File(read), lk)
    BY <2>2, FilledIs
  <2> QED BY <1>3, <2>3
<1>6. /\ Cardinality(HeldIn(t)) = Cardinality(HeldIn(s)) + Cardinality(lk)
      /\ Cardinality(HeldIn(s)) \in Nat /\ Cardinality(lk) \in Nat
      /\ t = << >> <=> s = << >>
  <2> HIDE DEF lk, s
  <2> QED BY <1>3, <1>4, FillCounts
<1> HIDE DEF t, lk
<1>7. calib'.settings = t /\ calib'.driver = calib.driver /\ calib'.board = calib.board
  <2> DEFINE a == calib.driver
             b == calib.board
  <2>1. calib = [driver |-> a, board |-> b, settings |-> s]
    BY <1>1 DEF CalibShape
  <2> HIDE DEF a, b, s
  <2>2. calib' = [driver |-> a, board |-> b, settings |-> t]
    BY <1>2, <2>1
  <2>3. calib'.settings = t /\ calib'.driver = a /\ calib'.board = b
    BY <2>2
  <2> QED BY <2>3 DEF a, b
<1>8. Reachable'
  <2>1. F!Objects = HeldIn(s) /\ F!Objects' = HeldIn(t)
    BY <1>7 DEF F!Objects, Heap, HeldIn
  <2> DEFINE cd == F!Count(calib.driver # F!NULL)
             cb == F!Count(calib.board # F!NULL)
             cs == F!Count(s # << >>)
             ds == F!Count(calib'.settings # << >>)
             k1 == F!Cardinality(F!Objects)
             k2 == F!Cardinality(F!Objects')
             kl == F!Cardinality(lk)
             cp == F!Count(path)
             r1 == F!Reached
             r2 == F!Reached'
  <2>2. r1 = 1 + cd + cb + cs + k1
    BY DEF F!Reached
  <2>3. r2 = 1 + cd + cb + ds + k2
    BY <1>7 DEF F!Reached
  <2>4. ds = cs
    BY <1>6, <1>7 DEF F!Count
  <2>5. k1 = Cardinality(HeldIn(s)) /\ k2 = Cardinality(HeldIn(t)) /\ kl = Cardinality(lk)
    BY <2>1, FileCounts
  <2>6. k2 = k1 + kl /\ k1 \in Nat /\ kl \in Nat
    BY <1>6, <2>5
  <2>7. live = cp + r1 /\ live' = (live + kl) - cp
    BY <1>1, <1>2 DEF Reachable
  <2>8. cd \in Nat /\ cb \in Nat /\ cs \in Nat /\ cp \in Nat
    BY DEF F!Count
  <2>9. F!Count(path)' = 0
    BY <1>2 DEF F!Count
  <2> HIDE DEF cd, cb, cs, ds, k1, k2, kl, cp, r1, r2
  <2>10. live' = 0 + r2
    BY <2>2, <2>3, <2>4, <2>6, <2>7, <2>8
  <2> QED BY <2>9, <2>10 DEF Reachable, r2
<1>9. FileFine'
  <2>1. FileFine
    BY <1>1 DEF FileFine, FileRead
  <2> QED BY <1>2, <2>1 DEF FileFine
<1>10. CalibNames' /\ ArefsFit(read)' /\ Len(read)' <= 2 + MaxElements
  BY <1>1, <1>2, <1>7 DEF CalibNames, ArefsFit
<1>11. calib'.settings = Filled(read', unfilled')
  BY <1>2, <1>5, <1>7 DEF u
<1>12. (calib.settings = Filled(read, unfilled))' <=> calib'.settings = Filled(read', unfilled')
  OBVIOUS
<1> QED BY <1>2, <1>8, <1>9, <1>10, <1>11, <1>12 DEF Loaded

\* While the program asks, what was loaded stays.
LEMMA LoadedSame ==
  ASSUME Loaded, UNCHANGED <<read, calib, path, live, unfilled>>
  PROVE  Loaded'
<1>1. FileFine' /\ CalibNames' /\ ArefsFit(read)' /\ path' = FALSE /\ Len(read)' <= 2 + MaxElements
  BY DEF Loaded, FileFine, CalibNames, ArefsFit
<1>2. calib'.settings = Filled(read', unfilled')
  BY DEF Loaded
<1>3. Reachable'
  <2>1. F!Objects' = F!Objects /\ F!Reached' = F!Reached /\ F!Count(path)' = F!Count(path)
    BY DEF F!Objects, F!Reached
  <2> QED BY <2>1 DEF Reachable, Loaded
<1>4. (calib.settings = Filled(read, unfilled))' <=> calib'.settings = Filled(read', unfilled')
  OBVIOUS
<1> QED BY <1>1, <1>2, <1>3, <1>4 DEF Loaded

\* The parser's steps.
LEMMA ParserKeeps == ASSUME CalibInv, F!ParseStep PROVE CalibInv'
<1>1. MaxElements \in Nat /\ MaxCoefs \in Nat
  BY AnalogAssumption DEF F!Parameters
<1>2. /\ path \in BOOLEAN /\ Len(poly.coeffs) <= MaxCoefs /\ index \in 0 .. MaxElements
  BY DEF CalibInv
<1>3. CASE F!Start
  <2>1. pc = "start" /\ Fresh /\ path = FALSE /\ live = 0
    BY <1>3 DEF F!Start, CalibInv
  <2>2. UNCHANGED <<read, calib, caldac, poly, index, unfilled>>
    BY <1>3 DEF F!Start, F!parser
  <2>3. CASE path' \in BOOLEAN /\ live' = F!Count(path)' + 1 /\ pc' = "open"
    <3>1. Fresh'
      BY <2>1, <2>2 DEF Fresh
    <3> QED BY <1>2, <2>2, <2>3, <3>1 DEF CalibInv
  <2>4. CASE UNCHANGED <<path, live>> /\ pc' = "failed"
    <3>1. NoFile'
      BY <2>1, <2>2, <2>4 DEF NoFile, Fresh
    <3> QED BY <1>2, <2>1, <2>2, <2>4, <3>1 DEF CalibInv
  <2> QED BY <1>3, <2>3, <2>4 DEF F!Start, F!Goto, F!Count
<1>4. CASE F!OpenFails
  <2>1. pc = "open" /\ Fresh /\ live = F!Count(path) + 1
    BY <1>4 DEF F!OpenFails, CalibInv
  <2>2. /\ UNCHANGED <<read, calib, caldac, poly, index, unfilled>> /\ pc' = "unopened"
        /\ path' = FALSE /\ live' = live - F!Count(path)
    BY <1>4 DEF F!OpenFails, F!parser, F!Goto, F!FreePath
  <2>3. live' = 1
    BY <2>1, <2>2 DEF F!Count
  <2>4. NoFile'
    BY <2>1, <2>2 DEF NoFile, Fresh
  <2> QED BY <1>2, <2>2, <2>3, <2>4 DEF CalibInv
<1>5. CASE F!Open
  <2>1. pc = "open" /\ Fresh /\ live = F!Count(path) + 1
    BY <1>5 DEF F!Open, CalibInv
  <2>2. pc' = "parse" /\ UNCHANGED <<read, calib, caldac, poly, index, path, live, unfilled>>
    BY <1>5 DEF F!Open, F!parser, F!Goto
  <2>3. Fresh' /\ live' = F!Count(path)' + 1
    BY <2>1, <2>2 DEF Fresh
  <2>4. /\ FileRead /\ CalibShape /\ CalibNames /\ Reachable /\ ArefsFit(read)
        /\ index = 0 /\ Len(poly.coeffs) <= MaxCoefs /\ Len(read) <= 2 + MaxElements
    BY <2>1, FreshRead
  <2>5. FileRead' /\ CalibShape' /\ CalibNames' /\ ArefsFit(read)'
    BY <2>2, <2>4 DEF FileRead, CalibShape, CalibNames, ArefsFit
  <2>6. Reachable'
    BY <2>2, <2>4, CalibSame
  <2>7. Reading'
    BY <2>2, <2>4, <2>5, <2>6 DEF Reading
  <2> QED BY <1>2, <2>2, <2>7 DEF CalibInv
<1>6. CASE F!Abort
  <2>1. pc = "parse" /\ Reading
    BY <1>6 DEF F!Abort, CalibInv
  <2>2. /\ pc' = "failed" /\ path' = FALSE /\ live' = (live - F!Reached) - F!Count(path)
        /\ read' = << >> /\ calib' = F!NoCalib /\ UNCHANGED <<caldac, poly, index, unfilled>>
    BY <1>6 DEF F!Abort, F!Goto, F!FreePath
  <2>3. F!Reached \in Nat
    BY <2>1, ReachedNat DEF Reading, FileRead
  <2>4. live = F!Count(path) + F!Reached
    BY <2>1 DEF Reading, Reachable
  <2>5. F!Count(path) \in Nat
    BY DEF F!Count
  <2>6. live' = 0
    BY <2>2, <2>3, <2>4, <2>5
  <2>7. NoFile'
    BY <2>2 DEF NoFile
  <2> QED BY <1>2, <2>2, <2>6, <2>7 DEF CalibInv
<1>7. CASE \/ F!ReadName \/ F!ReadListed \/ F!ReadSubdevice \/ F!ReadCaldac
           \/ F!ReadCoefficient \/ F!ReadOrigin \/ F!ReadPolynomial \/ F!ReadEnd
  <2>1. pc = "parse" /\ \E e : F!Take(e)
    BY <1>7 DEF F!ReadName, F!ReadListed, F!ReadSubdevice, F!ReadCaldac,
                F!ReadCoefficient, F!ReadOrigin, F!ReadPolynomial, F!ReadEnd, F!Take
  <2>2. Reading
    BY <2>1 DEF CalibInv
  <2>3. Reading'
    BY <1>7, <2>2, ReadsName, ReadsListed, ReadsSubdevice, ReadsCaldac,
       ReadsCoefficient, ReadsOrigin, ReadsPolynomial, ReadsEnd
  <2>4. pc' = "parse" /\ path' = path
    <3>1. PICK e : F!Take(e)
      BY <2>1
    <3> QED BY <2>2, <3>1, Taken DEF Reading, FileRead
  <2>5. index' \in 0 .. MaxElements /\ Len(poly.coeffs)' <= MaxCoefs
    <3>1. index' \in Nat /\ Len(read') \in Nat
      BY <2>3 DEF Reading, FileRead
    <3>2. (index' = 0 \/ index' <= Len(read') - 2) /\ Len(read') <= 2 + MaxElements
      BY <2>3 DEF Reading
    <3>3. Len(poly.coeffs)' <= MaxCoefs
      BY <2>3 DEF Reading
    <3> QED BY <1>1, <3>1, <3>2, <3>3
  <2> QED BY <1>2, <2>3, <2>4, <2>5 DEF CalibInv
<1>8. CASE F!EndOfFile
  <2>1. pc = "parse" /\ Reading
    BY <1>8 DEF F!EndOfFile, CalibInv
  <2>2. pc' = "inverse" /\ UNCHANGED <<read, calib, caldac, poly, index, path, live, unfilled>>
    BY <1>8 DEF F!EndOfFile, F!parser, F!Goto
  <2>3. FileRead' /\ CalibShape' /\ CalibNames' /\ ArefsFit(read)'
    BY <2>1, <2>2 DEF Reading, FileRead, CalibShape, CalibNames, ArefsFit
  <2>4. Reachable'
    BY <2>1, <2>2, CalibSame DEF Reading
  <2>5. Reading'
    BY <2>1, <2>2, <2>3, <2>4 DEF Reading
  <2> QED BY <1>2, <2>2, <2>5 DEF CalibInv
<1>9. CASE F!FillInverse
  <2>1. pc = "inverse" /\ UNCHANGED <<poly, index>>
    BY <1>9 DEF F!FillInverse
  <2>2. Reading
    BY <2>1 DEF CalibInv
  <2>3. Loaded' /\ pc' = "loaded"
    BY <1>9, <2>2, FillsInverse
  <2>4. path' = FALSE
    BY <1>9 DEF F!FillInverse, F!FreePath
  <2> QED BY <1>2, <2>1, <2>3, <2>4 DEF CalibInv
<1> QED BY <1>3, <1>4, <1>5, <1>6, <1>7, <1>8, <1>9 DEF F!ParseStep

\* The steps of the program that uses it.
LEMMA UserKeeps == ASSUME CalibInv, F!UseStep PROVE CalibInv'
<1>1. /\ path \in BOOLEAN /\ Len(poly.coeffs) <= MaxCoefs /\ index \in 0 .. MaxElements
  BY DEF CalibInv
<1>2. ASSUME pc \in {"loaded", "apply", "answered", "crashed"}, pc' \in {"apply", "answered", "crashed"},
             UNCHANGED <<read, calib, caldac, poly, index, path, live, unfilled>>
      PROVE  CalibInv'
  <2>1. Loaded
    BY <1>2 DEF CalibInv
  <2>2. Loaded'
    BY <1>2, <2>1, LoadedSame
  <2> QED BY <1>1, <1>2, <2>2 DEF CalibInv
<1>3. CASE F!Apply
  <2>1. pc = "loaded" /\ UNCHANGED <<read, calib, caldac, poly, index, path, live, unfilled>>
    BY <1>3 DEF F!Apply, F!Ask, F!unasked, F!parser
  <2>2. pc' \in {"apply", "answered", "crashed"}
    BY <1>3 DEF F!Apply, F!Goto
  <2> QED BY <1>2, <2>1, <2>2
<1>4. CASE F!NextSetting
  <2>1. pc = "apply" /\ pc' = pc /\ UNCHANGED <<read, calib, caldac, poly, index, path, live, unfilled>>
    BY <1>4 DEF F!NextSetting, F!AtSetting, F!unasked, F!parser
  <2> QED BY <1>2, <2>1
<1>5. CASE F!WriteCaldac
  <2>1. pc = "apply" /\ UNCHANGED <<read, calib, caldac, poly, index, path, live, unfilled>>
    BY <1>5 DEF F!WriteCaldac, F!AtSetting, F!unasked, F!parser
  <2>2. pc' = pc \/ pc' = "answered"
    BY <1>5 DEF F!WriteCaldac, F!Goto
  <2> QED BY <1>2, <2>1, <2>2
<1>6. CASE F!Applied
  <2>1. pc = "apply" /\ pc' = "answered" /\ UNCHANGED <<read, calib, caldac, poly, index, path, live, unfilled>>
    BY <1>6 DEF F!Applied, F!Goto, F!unasked, F!parser
  <2> QED BY <1>2, <2>1
<1>7. CASE F!Softcal
  <2>1. pc = "loaded" /\ pc' = "answered" /\ UNCHANGED <<read, calib, caldac, poly, index, path, live, unfilled>>
    BY <1>7 DEF F!Softcal, F!Ask, F!Goto, F!unasked, F!parser
  <2> QED BY <1>2, <2>1
<1>8. CASE F!GetHardcal
  <2>1. pc = "loaded" /\ pc' = "answered" /\ UNCHANGED <<read, calib, caldac, poly, index, path, live, unfilled>>
    BY <1>8 DEF F!GetHardcal, F!Ask, F!Goto, F!unasked, F!parser
  <2> QED BY <1>2, <2>1
<1>9. CASE F!Cleanup
  <2>1. /\ pc \in {"loaded", "answered"} /\ pc' = "closed" /\ live' = live - F!Reached
        /\ calib' = F!NoCalib /\ read' = << >> /\ UNCHANGED <<poly, index, path>>
    BY <1>9 DEF F!Cleanup, F!Goto
  <2>2. Loaded
    BY <2>1 DEF CalibInv
  <2>3. F!Reached \in Nat
    BY <2>2, ReachedNat DEF Loaded, FileFine
  <2>4. live = F!Reached /\ path = FALSE
    BY <2>2, <2>3 DEF Loaded, Reachable, F!Count
  <2>5. live' = 0 /\ NoFile'
    BY <2>1, <2>3, <2>4 DEF NoFile
  <2> QED BY <1>1, <2>1, <2>5 DEF CalibInv
<1> QED BY <1>3, <1>4, <1>5, <1>6, <1>7, <1>8, <1>9 DEF F!UseStep

\* The invariant holds throughout.
LEMMA CalibRuns == AnalogSpec => []CalibInv
<1>1. AnalogSpec => AnalogInit /\ [][AnalogNext]_analogVars
  BY PTL DEF AnalogSpec
<1>2. AnalogInit => CalibInv
  BY CalibBegins DEF AnalogInit
<1>3. ASSUME CalibInv, [AnalogNext]_analogVars PROVE CalibInv'
  <2>1. F!Next \/ UNCHANGED calibOnly
    BY <1>3 DEF AnalogNext, UsesInsn, UsesSlow, Converts, Calibrates, analogVars
  <2>2. CASE F!Next
    BY <1>3, <2>2, ParserKeeps, UserKeeps DEF F!Next
  <2>3. CASE UNCHANGED calibOnly
    <3>1. UNCHANGED <<pc, read, calib, caldac, poly, index, path, live, unfilled>>
      BY <2>3 DEF calibOnly
    <3>2. Fresh' <=> Fresh
      BY <3>1 DEF Fresh
    <3>3. NoFile' <=> NoFile
      BY <3>1 DEF NoFile
    <3>4. pc \in {"parse", "inverse"} => Reading'
      <4>1. SUFFICES ASSUME Reading PROVE Reading'
        BY <1>3 DEF CalibInv
      <4>2. FileRead' /\ CalibShape' /\ CalibNames' /\ ArefsFit(read)'
        BY <3>1, <4>1 DEF Reading, FileRead, CalibShape, CalibNames, ArefsFit
      <4>3. Reachable'
        BY <3>1, <4>1, CalibSame DEF Reading
      <4> QED BY <3>1, <4>1, <4>2, <4>3 DEF Reading
    <3>5. pc \in {"loaded", "apply", "answered", "crashed"} => Loaded'
      BY <1>3, <3>1, LoadedSame DEF CalibInv
    <3>6. F!Count(path)' = F!Count(path)
      BY <3>1 DEF F!Count
    <3> QED BY <1>3, <3>1, <3>2, <3>3, <3>4, <3>5, <3>6 DEF CalibInv
  <2> QED BY <2>1, <2>2, <2>3
<1> QED BY <1>1, <1>2, <1>3, PTL

\* Whatever elements a file is made of, the structure that the parser hands over
\* says what the file says, each value in the setting it was written in; and of
\* what the parser allocates nothing is lost, whatever fails.
THEOREM ParsedRight == AnalogSpec => []ParsedAsWritten
<1>1. CalibInv => ParsedAsWritten
  <2>1. SUFFICES ASSUME CalibInv PROVE F!ParsedAsWritten /\ F!NothingLost
    BY DEF ParsedAsWritten
  <2>2. F!ParsedAsWritten
    BY <2>1 DEF CalibInv, Reading, FileRead, F!ParsedAsWritten
  <2>3. F!NothingLost
    <3>1. F!Count(FALSE) = 0 /\ F!Count(path) \in Nat
      BY DEF F!Count
    <3>2. CASE pc = "start"
      <4>1. path = FALSE /\ live = 0
        BY <2>1, <3>2 DEF CalibInv
      <4>2. F!Count(path) = 0
        BY <4>1 DEF F!Count
      <4> QED BY <3>2, <4>1, <4>2 DEF F!NothingLost
    <3>3. CASE pc = "open"
      BY <2>1, <3>1, <3>3 DEF CalibInv, F!NothingLost
    <3>4. CASE pc = "unopened"
      <4>1. path = FALSE /\ live = 1
        BY <2>1, <3>4 DEF CalibInv, NoFile
      <4>2. F!Count(path) = 0
        BY <4>1 DEF F!Count
      <4> QED BY <3>4, <4>1, <4>2 DEF F!NothingLost
    <3>5. CASE pc \in {"failed", "closed"}
      <4>1. path = FALSE /\ live = 0
        BY <2>1, <3>5 DEF CalibInv, NoFile
      <4>2. F!Count(path) = 0
        BY <4>1 DEF F!Count
      <4> QED BY <3>5, <4>1, <4>2 DEF F!NothingLost
    <3>6. CASE pc \in {"parse", "inverse"}
      BY <2>1, <3>6 DEF CalibInv, Reading, Reachable, F!NothingLost
    <3>7. CASE pc \in {"loaded", "apply", "answered", "crashed"}
      BY <2>1, <3>7 DEF CalibInv, Loaded, Reachable, F!NothingLost
    <3> QED BY <2>1, <3>2, <3>3, <3>4, <3>5, <3>6, <3>7 DEF CalibInv
  <2> QED BY <2>2, <2>3
<1> QED BY <1>1, CalibRuns, PTL

-----------------------------------------------------------------------------
(***************************************************************************)
(* The kinds of values, where the invariants above do not tell them.       *)
(***************************************************************************)

\* Conversions of a call, beside those of other processes.
OfCall == IF ReadCall THEN count ELSE IF fn = "delayed" /\ at = "done" THEN 1 ELSE 0

InsnKinds ==
  /\ bigEndian \in BOOLEAN /\ mux \in Chans /\ dac \in Halves \X Halves
  /\ conv <= 2 * MaxN + OfCall

\* A call or another process converts no more than that.
LEMMA InsnKindsKept ==
  ASSUME InsnInv, InsnKinds, D!Next
  PROVE  InsnKinds'
<1>1. /\ conv \in Nat /\ chan \in Chans /\ value \in Halves \X Halves /\ 0 \in Halves
      /\ MaxN \in Nat /\ MaxN > 0 /\ OfCall \in Nat
  BY InsnConstants DEF InsnInv, InsnTypes, Portions, OfCall
<1>2. CASE D!CallRead \/ D!CallReadN \/ D!CallHint \/ D!CallDelayed \/ D!CallWrite
  <2>1. /\ at = "idle" /\ at' = "in" /\ count' = count
        /\ UNCHANGED <<bigEndian, mux, dac, conv>>
    BY <1>2 DEF D!CallRead, D!CallReadN, D!CallHint, D!CallDelayed, D!CallWrite, D!Call, D!config, D!device
  <2>2. count = 0 /\ fn = "none"
    BY <2>1 DEF InsnInv, Behind
  <2>3. OfCall = 0 /\ OfCall' = 0
    BY <2>1, <2>2 DEF OfCall, ReadCall
  <2> QED BY <2>1, <2>3 DEF InsnKinds
<1>3. CASE D!ReadInsn \/ D!ReadTrig
  <2>1. ReadCall /\ at = "in" /\ n > 0 /\ UNCHANGED <<fn, bigEndian>>
    BY <1>3 DEF D!ReadInsn, D!ReadTrig, D!Reading, D!In, ReadCall, D!call, D!config
  <2>2. D!ChunkSize \in Nat /\ count \in Nat
    BY <2>1, ChunkBounds
  <2>3. \/ UNCHANGED <<mux, conv, dac, count>>
        \/ /\ mux' = chan /\ dac' = dac /\ count' = count + D!ChunkSize
           /\ \E k \in 0 .. D!ChunkSize : conv' = conv + k
    <3>1. CASE D!ReadInsn
      BY <2>2, <3>1 DEF D!ReadInsn, D!Converts, D!NextChunk, D!Answer, D!device
    <3>2. CASE D!ReadTrig
      BY <3>2 DEF D!ReadTrig, D!Converts, D!NextChunk, D!Answer, D!device
    <3> QED BY <1>3, <3>1, <3>2
  <2>4. OfCall = count /\ OfCall' = count'
    BY <2>1 DEF OfCall, ReadCall
  <2> QED BY <1>1, <2>1, <2>2, <2>3, <2>4 DEF InsnKinds
<1>4. CASE D!ReadDone \/ D!Hint
  <2>1. UNCHANGED <<bigEndian, mux, dac, conv, fn, count>> /\ fn # "delayed"
    BY <1>4 DEF D!ReadDone, D!Hint, D!In, D!Answer, D!config, D!device, D!call
  <2>2. OfCall' = OfCall
    BY <2>1 DEF OfCall, ReadCall
  <2> QED BY <2>1, <2>2 DEF InsnKinds
<1>5. CASE D!Delayed \/ D!DelayedStops
  <2>1. /\ at = "in" /\ at' = "done" /\ fn = "delayed" /\ fn' = fn /\ bigEndian' = bigEndian
        /\ mux' \in {mux, chan} /\ dac' = dac /\ conv' \in {conv, conv + 1}
    <3>1. CASE D!Delayed
      BY <3>1 DEF D!Delayed, D!In, D!Converts, D!Answer, D!config, D!call
    <3>2. CASE D!DelayedStops
      BY <1>1, <3>2 DEF D!DelayedStops, D!In, D!Converts, D!Answer, D!config, D!call, D!device
    <3> QED BY <1>5, <3>1, <3>2
  <2>2. OfCall = 0 /\ OfCall' = 1
    BY <2>1 DEF OfCall, ReadCall
  <2> QED BY <1>1, <2>1, <2>2 DEF InsnKinds
<1>6. CASE D!Write
  <2>1. UNCHANGED <<bigEndian, mux, conv, fn, count>> /\ fn = "write"
    BY <1>6 DEF D!Write, D!In, D!Answer, D!config, D!device, D!call
  <2>2. OfCall' = OfCall
    BY <2>1 DEF OfCall, ReadCall
  <2>3. value = <<value[1], value[2]>> /\ value[1] \in Halves /\ value[2] \in Halves
    BY <1>1
  <2>4. D!Received(D!TrigData) \in Halves \X Halves
    BY <1>1, <2>3 DEF D!Received, D!TrigData
  <2>5. dac' = dac \/ dac' = value \/ dac' = D!Received(D!TrigData)
    BY <1>6 DEF D!Write, D!device
  <2> QED BY <1>1, <2>1, <2>2, <2>4, <2>5 DEF InsnKinds
<1>7. CASE D!Looked
  <2>1. UNCHANGED <<bigEndian, mux, dac>> /\ conv' = 0 /\ count' = 0 /\ fn' = "none"
    BY <1>7 DEF D!Looked, D!config
  <2>2. OfCall' = 0
    BY <2>1 DEF OfCall, ReadCall
  <2> QED BY <1>1, <2>1, <2>2 DEF InsnKinds
<1>8. CASE D!Tick \/ D!OtherRead
  <2>1. UNCHANGED <<bigEndian, dac, fn, at, count>> /\ mux' \in Chans
        /\ (conv' = conv \/ (conv < 2 * MaxN /\ conv' = conv + 1))
    BY <1>8 DEF D!Tick, D!OtherRead, D!Converts, D!config, D!call, InsnKinds
  <2>2. OfCall' = OfCall
    BY <2>1 DEF OfCall, ReadCall
  <2> QED BY <1>1, <2>1, <2>2 DEF InsnKinds
<1> QED BY <1>2, <1>3, <1>4, <1>5, <1>6, <1>7, <1>8 DEF D!Next

SvKinds ==
  /\ sv.chan \in S!SvChans /\ fn \in {"none", "sv", "timed"} /\ heap \in 0 .. 1 /\ ret \in {-1, 0}
  /\ fn = "timed" => taken = << >>

\* One array at most, and an answer.
LEMMA SvKindsKept ==
  ASSUME SvInv, SvKinds, S!Next
  PROVE  SvKinds'
<1>1. sv = [subdevice |-> sv.subdevice, chan |-> sv.chan, maxdata |-> sv.maxdata, n |-> sv.n]
  BY DEF SvInv, SvTypes
<1>2. CASE S!SetField
  <2>1. UNCHANGED <<fn, heap, taken, ret>>
    BY <1>2 DEF S!SetField, S!call
  <2>2. sv'.chan \in S!SvChans
    <3>1. PICK ch \in S!SvChans, k \in 0 .. MaxN : sv' = [sv EXCEPT !.chan = ch, !.n = k]
      BY <1>2 DEF S!SetField
    <3> QED BY <1>1, <3>1
  <2> QED BY <2>1, <2>2 DEF SvKinds
<1>3. CASE S!Update
  <2>1. UNCHANGED <<fn, heap, taken, ret>> /\ sv'.chan = sv.chan
    BY <1>1, <1>3 DEF S!Update, S!call
  <2> QED BY <2>1 DEF SvKinds
<1>4. CASE S!Measure \/ S!Timed
  <2>1. heap = 0 /\ taken = << >> /\ ret = 0
    BY <1>4 DEF S!Measure, S!Timed, SvInv, SvPhase
  <2>2. fn' \in {"sv", "timed"} /\ heap' \in {heap, heap + 1} /\ ret' \in {ret, -1} /\ taken' = taken
    BY <1>4 DEF S!Measure, S!Timed
  <2>3. sv'.chan = sv.chan
    <3>1. CASE S!Measure
      BY <3>1 DEF S!Measure
    <3>2. CASE S!Timed
      <4>1. PICK k \in 0 .. MaxN : sv' = [sv EXCEPT !.n = k]
        BY <3>2 DEF S!Timed
      <4> QED BY <1>1, <4>1
    <3> QED BY <1>4, <3>1, <3>2
  <2> QED BY <2>1, <2>2, <2>3 DEF SvKinds
<1>5. CASE S!Collect
  <2>1. UNCHANGED <<sv, fn, heap, ret>> /\ fn = "sv"
    BY <1>5 DEF S!Collect, S!Collecting, S!call
  <2> QED BY <2>1 DEF SvKinds
<1>6. CASE S!StopCollecting \/ S!Average \/ S!TimedDone \/ S!ReadFails
  <2>1. UNCHANGED <<sv, fn, taken>> /\ ret' \in {-1, 0} /\ heap' \in {heap - 1, heap} /\ at = "in"
    BY <1>6 DEF S!StopCollecting, S!Average, S!TimedDone, S!ReadFails, S!Finish, S!Collecting, S!Reading,
       SvInv, SvPhase
  <2>2. heap = 1
    BY <2>1 DEF SvInv, SvPhase
  <2> QED BY <2>1, <2>2 DEF SvKinds
<1>7. CASE S!Read
  BY <1>7 DEF S!Read, S!call, SvKinds
<1>8. CASE S!ReadEnd
  BY <1>8 DEF S!ReadEnd, S!vars, S!call, SvKinds
<1>9. CASE S!Looked
  BY <1>9 DEF S!Looked, SvKinds
<1> QED BY <1>2, <1>3, <1>4, <1>5, <1>6, <1>7, <1>8, <1>9 DEF S!Next, S!CallStep

CalibKinds == found \in BOOLEAN /\ answer \in {-1, 0} /\ DOMAIN board = Dacs

\* What a program is told of a calibration.
LEMMA CalibKindsKept ==
  ASSUME CalibKinds, F!Next
  PROVE  CalibKinds'
<1>1. CASE F!ParseStep
  BY <1>1 DEF CalibKinds, F!ParseStep, F!Start, F!OpenFails, F!Open, F!Abort, F!ReadName, F!ReadListed,
     F!ReadSubdevice, F!ReadCaldac, F!ReadCoefficient, F!ReadOrigin, F!ReadPolynomial, F!ReadEnd,
     F!EndOfFile, F!FillInverse, F!Take, F!asking
<1>2. CASE F!Apply \/ F!Softcal \/ F!GetHardcal \/ F!Applied \/ F!Cleanup
  <2>1. UNCHANGED <<found, board>>
    BY <1>2 DEF F!Apply, F!Softcal, F!GetHardcal, F!Applied, F!Cleanup, F!Ask, F!asking
  <2>2. answer' \in {answer, -1, 0}
    BY <1>2 DEF F!Apply, F!Softcal, F!GetHardcal, F!Applied, F!Cleanup, F!asking
  <2> QED BY <2>1, <2>2 DEF CalibKinds
<1>3. CASE F!NextSetting
  <2>1. found' \in BOOLEAN
    BY <1>3, Zenon DEF F!NextSetting
  <2> QED BY <1>3, <2>1 DEF F!NextSetting, CalibKinds
<1>4. CASE F!WriteCaldac
  <2>1. UNCHANGED found /\ answer' \in {answer, -1} /\ DOMAIN board' = DOMAIN board
    BY <1>4 DEF F!WriteCaldac
  <2> QED BY <2>1 DEF CalibKinds
<1> QED BY <1>1, <1>2, <1>3, <1>4 DEF F!Next, F!UseStep

\* The three of them where they run.
Kinds ==
  /\ by \in {"insn", "slow", "convert", "calib"}
  /\ by = "insn" => InsnInv /\ InsnKinds
  /\ by = "slow" => SvInv /\ SvKinds
  /\ CalibKinds

\* They hold throughout.
LEMMA KindsHold == AnalogSpec => []Kinds
<1>1. AnalogSpec => AnalogInit /\ [][AnalogNext]_analogVars
  BY PTL DEF AnalogSpec
<1>2. ASSUME AnalogInit PROVE Kinds
  <2>1. by \in {"insn", "slow", "convert", "calib"} /\ F!Init
    BY <1>2 DEF AnalogInit
  <2>2. ASSUME by = "insn" PROVE InsnInv /\ InsnKinds
    <3>1. D!Init
      BY <1>2, <2>2 DEF AnalogInit
    <3>2. bigEndian \in BOOLEAN
      BY <3>1, Zenon DEF D!Init
    <3>3. mux \in Chans /\ conv = 0 /\ dac = <<0, 0>> /\ fn = "none"
      BY <3>1 DEF D!Init, D!Idle
    <3> QED BY <3>1, <3>2, <3>3, InsnBegins, InsnConstants DEF InsnKinds, OfCall, ReadCall
  <2>3. ASSUME by = "slow" PROVE SvInv /\ SvKinds
    <3>1. S!Init
      BY <1>2, <2>3 DEF AnalogInit
    <3>2. sv.chan \in S!SvChans
      BY <3>1 DEF S!Init
    <3>3. fn = "none" /\ heap = 0 /\ ret = 0
      BY <3>1 DEF S!Init, S!Idle
    <3>4. SvKinds
      BY <3>2, <3>3 DEF SvKinds
    <3> QED BY <3>1, <3>4, SvBegins
  <2>4. CalibKinds
    BY <2>1 DEF F!Init, CalibKinds
  <2> QED BY <2>1, <2>2, <2>3, <2>4 DEF Kinds
<1>3. ASSUME Kinds, [AnalogNext]_analogVars PROVE Kinds'
  <2>1. CASE AnalogNext
    <3>1. by' = by /\ (by = "insn" => D!Next) /\ (by = "slow" => S!Next) /\ (F!Next \/ UNCHANGED calibOnly)
      BY <2>1 DEF AnalogNext, UsesInsn, UsesSlow, Converts, Calibrates
    <3>2. by = "insn" => (InsnInv /\ InsnKinds)'
      BY <1>3, <3>1, InsnStep, InsnKindsKept DEF Kinds
    <3>3. by = "slow" => (SvInv /\ SvKinds)'
      <4>1. SvInv /\ S!Next => SvInv'
        BY SvBetweenKeeps, CollectKeeps, MeasuredKeeps, BlockReadKeeps, BlockKeeps DEF S!Next, S!CallStep
      <4> QED BY <1>3, <3>1, <4>1, SvKindsKept DEF Kinds
    <3>4. CalibKinds'
      BY <1>3, <3>1, CalibKindsKept DEF Kinds, CalibKinds, calibOnly
    <3> QED BY <1>3, <3>1, <3>2, <3>3, <3>4 DEF Kinds
  <2>2. CASE UNCHANGED analogVars
    <3>1. /\ UNCHANGED <<by, at, fn, n, ret, insn, insnlist, lsampl, bigEndian, mux, settle, conv, dac>>
          /\ UNCHANGED <<chan, arg, value, count, buf, sv, fresh, data, val, heap, taken, trig, bytes>>
          /\ UNCHANGED <<found, answer, board>>
      BY <2>2 DEF analogVars, common, insnOnly, slowOnly, calibOnly
    <3>2. (InsnInv /\ InsnKinds)' <=> InsnInv /\ InsnKinds
      BY <3>1 DEF InsnInv, InsnTypes, Portions, InFront, Behind, Told, ReadCall, D!Good, D!SameChunk,
         D!DelayedSettled, D!Done, InsnKinds, OfCall
    <3>3. (SvInv /\ SvKinds)' <=> SvInv /\ SvKinds
      BY <3>1 DEF SvInv, SvTypes, SvPhase, Collected, BlockSoFar, S!AveragesAll, S!BlockIsStream, S!BufferFreed,
         S!Left, S!Width, SvKinds
    <3> QED BY <1>3, <3>1, <3>2, <3>3 DEF Kinds, CalibKinds
  <2> QED BY <1>3, <2>1, <2>2
<1> QED BY <1>1, <1>2, <1>3, PTL

\* The type of DataInsn,
LEMMA InsnTypesMean ==
  ASSUME InsnInv, InsnKinds
  PROVE  D!TypeOK
<1>1. OfCall <= MaxN /\ OfCall \in Nat
  BY InsnConstants DEF OfCall, InsnInv, Portions
<1>2. conv \in 0 .. 3 * MaxN
  BY <1>1, InsnConstants DEF InsnKinds, InsnInv, InsnTypes
<1>3. fn = "read_n" => n + count = arg /\ n \in 0 .. MaxN
  BY InsnConstants DEF InsnInv, Portions, ReadCall
<1> QED BY <1>2, <1>3 DEF InsnKinds, InsnInv, InsnTypes, D!TypeOK

\* of SlowVoltage,
LEMMA SvTypesMean ==
  ASSUME SvInv, SvKinds
  PROVE  S!TypeOK
<1>1. n \in Nat /\ sv.n \in 0 .. MaxN /\ MaxN \in Nat /\ bytes \in Nat
  BY SvConstants DEF SvInv, SvTypes
<1>2. at # "idle" => n <= sv.n /\ Len(taken) <= sv.n
  <2>1. ASSUME at # "idle" PROVE fn \in {"sv", "timed"}
    BY <2>1 DEF SvInv, SvTypes, SvPhase
  <2>2. CASE at # "idle" /\ fn = "sv"
    BY <1>1, <2>2 DEF SvInv, Collected
  <2>3. CASE at # "idle" /\ fn = "timed"
    <3>1. taken = << >> /\ Len(taken) = 0
      BY <2>3 DEF SvKinds
    <3> QED BY <1>1, <2>3, <3>1 DEF SvInv, BlockSoFar
  <2> QED BY <2>1, <2>2, <2>3
<1>3. n \in 0 .. MaxN
  BY <1>1, <1>2 DEF SvInv, SvTypes, SvPhase
<1> QED BY <1>2, <1>3 DEF S!TypeOK, SvKinds, SvInv, SvTypes

\* and of CalibFile: objects are counted by a number, and each setting has
\* no more analog references than there is room for.
LEMMA CalibTypesMean ==
  ASSUME CalibInv, CalibKinds
  PROVE  F!TypeOK
<1>1. CASE pc \in {"start", "open", "unopened", "failed", "closed"}
  <2>1. read = << >> /\ calib = F!NoCalib /\ live \in Nat
    BY <1>1 DEF CalibInv, Fresh, NoFile, F!Count
  <2>2. MaxElements \in Nat /\ Len(read) = 0
    BY <2>1, AnalogAssumption DEF F!Parameters
  <2> QED BY <1>1, <2>1, <2>2 DEF CalibInv, CalibKinds, F!TypeOK, F!NoCalib
<1>2. CASE pc \in {"parse", "inverse"}
  <2>1. Reading
    BY <1>2 DEF CalibInv
  <2>2. Len(read) \in Nat /\ calib.settings = F!File(read) /\ CalibNames /\ Reachable /\ ArefsFit(read)
    BY <2>1 DEF Reading, FileRead
  <2>3. F!Reached \in Nat /\ F!Count(path) \in Nat
    BY <2>2, ReachedNat DEF F!Count
  <2>4. live \in Nat
    BY <2>2, <2>3 DEF Reachable
  <2>5. ASSUME NEW k \in DOMAIN calib.settings PROVE Len(calib.settings[k].arefs) <= MaxArefs
    BY <2>2, <2>5 DEF F!File, ArefsFit
  <2> QED BY <2>1, <2>2, <2>4, <2>5 DEF CalibInv, CalibKinds, CalibNames, Reading, F!TypeOK
<1>3. CASE pc \in {"loaded", "apply", "answered", "crashed"}
  <2>1. Loaded
    BY <1>3 DEF CalibInv
  <2>2. Len(read) \in Nat /\ calib.settings = Filled(read, unfilled) /\ CalibNames /\ Reachable /\ ArefsFit(read)
    BY <2>1 DEF Loaded, FileFine
  <2>3. F!Reached \in Nat /\ F!Count(path) \in Nat
    BY <2>2, ReachedNat DEF F!Count
  <2>4. live \in Nat
    BY <2>2, <2>3 DEF Reachable
  <2>5. ASSUME NEW k \in DOMAIN calib.settings PROVE Len(calib.settings[k].arefs) <= MaxArefs
    <3>1. PICK m : m = F!Meaning(read, k)
      OBVIOUS
    <3>2. calib.settings[k] = m \/ calib.settings[k] = F!Fill(m)
      BY <2>2, <2>5, <3>1 DEF Filled
    <3>3. F!Fill(m).arefs = m.arefs
      BY <2>2, <3>1, FillIs
    <3> QED BY <2>2, <3>1, <3>2, <3>3 DEF ArefsFit
  <2> QED BY <2>1, <2>2, <2>4, <2>5 DEF CalibInv, CalibKinds, CalibNames, Loaded, F!TypeOK
<1> QED BY <1>1, <1>2, <1>3 DEF CalibInv

\* Every variable of the analog calls holds a value of its kind.
THEOREM AnalogTypes == AnalogSpec => []AnalogTypeOK
<1>1. Kinds /\ CalibInv /\ (by = "convert" => ConvInv) => AnalogTypeOK
  <2>1. ConvInv => C!TypeOK
    BY DEF ConvInv, ToPhysInv, FromPhysInv, C!TypeOK
  <2> QED BY <2>1, InsnTypesMean, SvTypesMean, CalibTypesMean DEF Kinds, AnalogTypeOK
<1> QED BY <1>1, KindsHold, CalibRuns, ConvRuns, PTL

-----------------------------------------------------------------------------
(***************************************************************************)
(* lib/calib.c: comedi_apply_parsed_calibration.  It walks over settings   *)
(* and their DACs, which is the order of the file.                         *)
(***************************************************************************)

DacsIn(k) == F!Written(read, k, {"caldac"})

\* The DACs the walk has passed.
Passed(j) ==
  \/ F!SettingAt(read, j) < pos[1]
  \/ F!SettingAt(read, j) = pos[1] /\ Rank(DacsIn(pos[1]), j) + 1 < pos[2]

\* The board has on it what was passed, which is all that is needed up to
\* some position of the file.
Halfway ==
  /\ query.fn = "apply"
  /\ pos = <<pos[1], pos[2]>> /\ pos[1] \in 1 .. Len(calib.settings) + 1 /\ pos[2] \in Nat /\ pos[2] > 0
  /\ found => \E k \in 1 .. pos[1] - 1 : F!ForAsked(k)
  /\ \E p \in 0 .. Len(read) :
       /\ board = F!BoardAfter(p)
       /\ \A j \in F!Needed : j <= p <=> Passed(j)

Unasked == pos = <<1, 1>> /\ found = FALSE /\ board = [d \in Dacs |-> 0]

ApplyInv ==
  /\ pc \in {"start", "open", "unopened", "failed", "parse", "inverse", "loaded"} => Unasked
  /\ pc = "apply" => Halfway
  /\ F!AppliedInOrder

\* A setting matches where what the file says of it does.
LEMMA MatchesAsked ==
  ASSUME Loaded, NEW k \in 1 .. Len(calib.settings)
  PROVE  /\ F!Matches(calib.settings[k]) <=> F!ForAsked(k)
         /\ calib.settings[k].caldacs = DacsOf(read, k)
<1>1. Len(read) \in Nat /\ calib.settings = Filled(read, unfilled)
  BY DEF Loaded, FileFine
<1>2. PICK m : m = F!Meaning(read, k)
  OBVIOUS
<1>3. calib.settings[k] = m \/ calib.settings[k] = F!Fill(m)
  <2>1. F!SettingCount(read) \in Nat
    BY <1>1, CountType
  <2>2. k \in 1 .. F!SettingCount(read)
    BY <1>1, <2>1 DEF Filled
  <2> QED BY <1>1, <1>2, <2>2 DEF Filled
<1>4. PICK s : s = calib.settings[k]
  OBVIOUS
<1>5. /\ s.subdevice = m.subdevice /\ s.channels = m.channels /\ s.ranges = m.ranges
      /\ s.arefs = m.arefs /\ s.caldacs = m.caldacs
  <2>1. CASE s = m
    BY <2>1
  <2>2. CASE s = F!Fill(m)
    BY <1>1, <1>2, <2>2, FillIs
  <2> QED BY <1>3, <1>4, <2>1, <2>2
<1>6. /\ m.channels = F!Values(read, k, "channel") /\ m.ranges = F!Values(read, k, "range")
      /\ m.arefs = F!Values(read, k, "aref") /\ m.caldacs = DacsOf(read, k)
  BY <1>1, <1>2, MeaningIs
<1>7. ASSUME NEW kind, NEW v
      PROVE  F!Valid(F!Values(read, k, kind), v) <=> F!For(k, kind, v)
  BY DEF F!Valid, F!For, F!Range
<1>8. F!Matches(s) <=> F!ForAsked(k)
  BY <1>2, <1>5, <1>6, <1>7 DEF F!Matches, F!ForAsked, F!ForChannel
<1> QED BY <1>4, <1>5, <1>6, <1>8

\* How a DAC that is needed stands to the walk.
LEMMA NeededIs ==
  ASSUME Loaded, NEW j \in F!Needed
  PROVE  /\ j \in 1 .. Len(read) /\ j \in DacsIn(F!SettingAt(read, j))
         /\ F!SettingAt(read, j) \in 1 .. Len(calib.settings) /\ F!ForAsked(F!SettingAt(read, j))
<1>1. Len(read) \in Nat /\ calib.settings = Filled(read, unfilled)
  BY DEF Loaded, FileFine
<1>2. PICK T : T = F!Before(read, Len(read), {"caldac"})
  OBVIOUS
<1>3. j \in T /\ T \subseteq 1 .. Len(read) /\ F!ForAsked(F!SettingAt(read, j))
  BY <1>2 DEF F!Needed, F!Before
<1>4. PICK k : k = F!SettingAt(read, j)
  OBVIOUS
<1>5. j \in DacsIn(k)
  BY <1>2, <1>3, <1>4 DEF DacsIn, F!Written
<1>6. k \in Nat /\ k > 0
  <2>1. j \in Nat /\ j > 0
    BY <1>1, <1>3
  <2> QED BY <1>4, <2>1, SettingType
<1>7. k <= F!SettingCount(read) /\ F!SettingCount(read) \in Nat
  <2>1. F!SettingCount(read) \in Nat
    BY <1>1, CountType
  <2>2. {"caldac"} \subseteq F!Says
    BY DEF F!Says
  <2>3. ASSUME k > F!SettingCount(read) PROVE FALSE
    <3>1. F!Written(read, k, {"caldac"}) = {}
      BY <1>1, <1>6, <2>2, <2>3, SaidNothing
    <3> QED BY <1>5, <3>1 DEF DacsIn
  <2> QED BY <1>6, <2>1, <2>3
<1>8. Len(calib.settings) = F!SettingCount(read)
  BY <1>1, <1>7 DEF Filled
<1> QED BY <1>3, <1>4, <1>5, <1>6, <1>7, <1>8

\* Nothing was written up to a position before the first.
LEMMA BoardEmpty ==
  ASSUME Loaded
  PROVE  F!BoardAfter(0) = [d \in Dacs |-> 0] /\ Len(read) \in Nat /\ Len(calib.settings) \in Nat
<1>1. Len(read) \in Nat
  BY DEF Loaded, FileFine
<1>2. Len(calib.settings) \in Nat
  <2>1. F!SettingCount(read) \in Nat
    BY <1>1, CountType
  <2> QED BY <2>1 DEF Loaded, Filled
<1>3. \A j \in F!Needed : ~(j <= 0)
  BY <1>1, NeededIs
<1>4. \A d : F!NeededOf(d, 0) = {}
  BY <1>3 DEF F!NeededOf
<1> QED BY <1>1, <1>2, <1>4 DEF F!BoardAfter

\* The board after positions between which no DAC is needed is the same.
LEMMA BoardBetween ==
  ASSUME NEW p, NEW q, \A j \in F!Needed : j <= p <=> j <= q
  PROVE  F!BoardAfter(q) = F!BoardAfter(p)
<1>1. \A d : F!NeededOf(d, q) = F!NeededOf(d, p)
  BY DEF F!NeededOf
<1> QED BY <1>1 DEF F!BoardAfter

\* One more DAC of those needed is written.
LEMMA BoardMore ==
  ASSUME Loaded, NEW p \in Int, NEW x \in F!Needed, NEW b,
         \A j \in F!Needed : j <= x <=> j <= p \/ j = x,
         NEW c, c = F!CaldacAt(read, x),
         NEW e \in Dacs, e = [subdevice |-> c.subdevice, channel |-> c.channel],
         b = [F!BoardAfter(p) EXCEPT ![e] = c.value]
  PROVE  b = F!BoardAfter(x)
<1>1. ASSUME NEW d \in Dacs
      PROVE  b[d] = IF F!NeededOf(d, x) = {} THEN 0
                    ELSE F!CaldacAt(read, F!Latest(F!NeededOf(d, x))).value
  <2>1. d = [subdevice |-> d.subdevice, channel |-> d.channel]
    BY AnalogAssumption DEF F!Parameters
  <2>2. b[d] = IF d = e THEN c.value ELSE F!BoardAfter(p)[d]
    BY DEF F!BoardAfter
  <2>3. PICK P : P = F!NeededOf(d, p)
    OBVIOUS
  <2>4. F!BoardAfter(p)[d] = IF P = {} THEN 0 ELSE F!CaldacAt(read, F!Latest(P)).value
    BY <2>3 DEF F!BoardAfter
  <2>5. CASE d = e
    <3>1. d.subdevice = c.subdevice /\ d.channel = c.channel
      BY <2>5
    <3>2. F!NeededOf(d, x) = P \cup {x}
      <4>1. x <= x
        BY NeededIs
      <4>2. F!NeededOf(d, x) = {j \in F!Needed : /\ j <= x /\ F!CaldacAt(read, j).subdevice = d.subdevice
                                                 /\ F!CaldacAt(read, j).channel = d.channel}
        BY DEF F!NeededOf
      <4>3. P = {j \in F!Needed : /\ j <= p /\ F!CaldacAt(read, j).subdevice = d.subdevice
                                  /\ F!CaldacAt(read, j).channel = d.channel}
        BY <2>3 DEF F!NeededOf
      <4> QED BY <3>1, <4>1, <4>2, <4>3
    <3>3. F!Latest(P \cup {x}) = x
      <4>1. x \in Int /\ \A j \in P : j \in Int /\ j <= x
        BY <2>3, NeededIs DEF F!NeededOf
      <4>2. \A j \in P \cup {x} : j <= x
        BY <4>1
      <4>3. \A y \in P \cup {x} : (\A j \in P \cup {x} : j <= y) => y = x
        BY <4>1
      <4> QED BY <4>2, <4>3 DEF F!Latest
    <3> QED BY <2>2, <2>5, <3>2, <3>3
  <2>6. CASE d # e
    <3>1. ~(d.subdevice = c.subdevice /\ d.channel = c.channel)
      BY <2>1, <2>6
    <3>2. F!NeededOf(d, x) = P
      <4>1. F!NeededOf(d, x) = {j \in F!Needed : /\ j <= x /\ F!CaldacAt(read, j).subdevice = d.subdevice
                                                 /\ F!CaldacAt(read, j).channel = d.channel}
        BY DEF F!NeededOf
      <4>2. P = {j \in F!Needed : /\ j <= p /\ F!CaldacAt(read, j).subdevice = d.subdevice
                                  /\ F!CaldacAt(read, j).channel = d.channel}
        BY <2>3 DEF F!NeededOf
      <4> QED BY <3>1, <4>1, <4>2
    <3> QED BY <2>2, <2>4, <2>6, <3>2
  <2> QED BY <2>5, <2>6
<1>2. b = [d \in Dacs |-> b[d]]
  BY DEF F!BoardAfter
<1> HIDE DEF Loaded
<1> QED BY <1>1, <1>2 DEF F!BoardAfter

\* What is needed stays while the question and the file do.
LEMMA AskedSame ==
  ASSUME read' = read, query' = query
  PROVE  /\ F!Needed' = F!Needed /\ \A p : F!BoardAfter(p)' = F!BoardAfter(p)
         /\ \A k : F!ForAsked(k)' <=> F!ForAsked(k)
<1>1. \A k : F!ForAsked(k)' <=> F!ForAsked(k)
  BY DEF F!ForAsked, F!ForChannel, F!For
<1>2. F!Needed' = F!Needed
  BY <1>1 DEF F!Needed
<1>3. \A d, p : F!NeededOf(d, p)' = F!NeededOf(d, p)
  BY <1>2 DEF F!NeededOf
<1>4. \A p : F!BoardAfter(p)' = F!BoardAfter(p)
  BY <1>3 DEF F!BoardAfter
<1> QED BY <1>1, <1>2, <1>4

\* The walk goes on to the next setting.
LEMMA WalksOn ==
  ASSUME Loaded, Halfway, F!NextSetting
  PROVE  Halfway'
<1>1. /\ pos[1] \in 1 .. Len(calib.settings) /\ Len(calib.settings) \in Nat
      /\ pos[1] <= Len(calib.settings)
      /\ pos' = <<pos[1] + 1, 1>> /\ found' = (found \/ F!Matches(calib.settings[pos[1]]))
      /\ UNCHANGED <<read, calib, query, board>>
      /\ F!Matches(calib.settings[pos[1]]) => pos[2] > Len(calib.settings[pos[1]].caldacs)
  BY BoardEmpty DEF F!NextSetting, F!AtSetting, F!This, F!unasked, F!parser, Halfway
<1>2. PICK k : k = pos[1]
  OBVIOUS
<1>3. k \in Nat /\ k > 0 /\ k \in 1 .. Len(calib.settings) /\ pos'[1] = k + 1 /\ pos'[2] = 1
  BY <1>1, <1>2
<1>4. F!Matches(calib.settings[k]) <=> F!ForAsked(k)
  BY <1>3, MatchesAsked
<1>5. F!ForAsked(k) => pos[2] > Cardinality(DacsIn(k)) /\ Cardinality(DacsIn(k)) \in Nat
  <2>1. DacsIn(k) \in SUBSET (1 .. Len(read)) /\ Len(read) \in Nat
    BY WrittenIs, BoardEmpty DEF DacsIn
  <2>2. Cardinality(DacsIn(k)) \in Nat
    BY <2>1, PositionsFinite
  <2>3. Len(DacsOf(read, k)) = Cardinality(DacsIn(k))
    BY <2>2 DEF DacsOf, DacsIn, Pick
  <2> QED BY <1>1, <1>2, <1>3, <1>4, <2>2, <2>3, MatchesAsked
<1>6. ASSUME NEW j \in F!Needed PROVE Passed(j)' <=> Passed(j)
  <2>1. PICK x : x = F!SettingAt(read, j)
    OBVIOUS
  <2>2. x \in Nat /\ x > 0 /\ j \in DacsIn(x) /\ F!ForAsked(x)
    BY <2>1, BoardEmpty, NeededIs
  <2>3. Rank(DacsIn(x), j) \in 0 .. Cardinality(DacsIn(x)) - 1
    <3>1. DacsIn(x) \in SUBSET (1 .. Len(read)) /\ Len(read) \in Nat
      BY WrittenIs, BoardEmpty DEF DacsIn
    <3> QED BY <2>2, <3>1, RankBelow
  <2>4. Passed(j) <=> x < k \/ (x = k /\ Rank(DacsIn(k), j) + 1 < pos[2])
    BY <1>2, <2>1 DEF Passed
  <2>5. Passed(j)' <=> x < k + 1 \/ (x = k + 1 /\ Rank(DacsIn(k + 1), j) + 1 < 1)
    <3>1. read' = read
      BY <1>1
    <3>2. \A y : DacsIn(y)' = DacsIn(y)
      BY <3>1 DEF DacsIn
    <3>3. \A y, z : Rank(DacsIn(y), z)' = Rank(DacsIn(y), z)
      BY <3>1 DEF DacsIn
    <3> QED BY <1>3, <2>1, <3>1, <3>3 DEF Passed, DacsIn
  <2>6. CASE x = k + 1
    <3>1. Rank(DacsIn(k + 1), j) \in Nat
      BY <2>3, <2>6
    <3> QED BY <1>3, <2>2, <2>4, <2>5, <2>6, <3>1
  <2>7. CASE x = k
    <3>1. Rank(DacsIn(k), j) + 1 <= Cardinality(DacsIn(k)) /\ Cardinality(DacsIn(k)) < pos[2]
      BY <1>5, <2>2, <2>3, <2>7
    <3>2. Rank(DacsIn(k), j) \in Nat /\ Cardinality(DacsIn(k)) \in Nat /\ pos[2] \in Nat
      BY <1>5, <2>2, <2>3, <2>7 DEF Halfway
    <3>3. Rank(DacsIn(k), j) + 1 < pos[2]
      BY ONLY <3>1, <3>2
    <3> QED BY <1>3, <2>4, <2>5, <2>7, <3>3
  <2>8. CASE x # k /\ x # k + 1
    BY <1>3, <2>2, <2>4, <2>5, <2>8
  <2> QED BY <2>6, <2>7, <2>8
<1>7. found' => \E y \in 1 .. pos'[1] - 1 : F!ForAsked(y)'
  <2>1. \A y : F!ForAsked(y)' <=> F!ForAsked(y)
    BY <1>1, AskedSame
  <2>2. SUFFICES ASSUME found' PROVE \E y \in 1 .. k : F!ForAsked(y)
    BY <1>3, <2>1
  <2>3. found \/ F!Matches(calib.settings[k])
    BY <1>1, <1>2, <2>2, Zenon
  <2>4. CASE found
    <3>1. PICK y \in 1 .. k - 1 : F!ForAsked(y)
      BY <1>2, <2>4 DEF Halfway
    <3> QED BY <1>3, <3>1
  <2>5. CASE F!Matches(calib.settings[k])
    BY <1>3, <1>4, <2>5
  <2> QED BY <2>3, <2>4, <2>5
<1>8. \E p \in 0 .. Len(read) : board' = F!BoardAfter(p)' /\ \A j \in F!Needed : j <= p <=> Passed(j)'
  <2>1. PICK p \in 0 .. Len(read) : board = F!BoardAfter(p) /\ \A j \in F!Needed : j <= p <=> Passed(j)
    BY DEF Halfway
  <2>2. F!BoardAfter(p)' = F!BoardAfter(p)
    BY <1>1, AskedSame
  <2> QED BY <1>1, <1>6, <2>1, <2>2
<1>9. F!Needed' = F!Needed
  BY <1>1, AskedSame
<1> QED BY <1>1, <1>3, <1>7, <1>8, <1>9 DEF Halfway

\* The walk writes one DAC.
LEMMA WritesOn ==
  ASSUME Loaded, Halfway, F!WriteCaldac, pc' = "apply"
  PROVE  Halfway'
<1>1. PICK k : k = pos[1]
  OBVIOUS
<1>2. PICK t : t = pos[2]
  OBVIOUS
<1>3. /\ k \in 1 .. Len(calib.settings) /\ Len(calib.settings) \in Nat /\ k \in Nat /\ t \in Nat /\ t > 0
      /\ F!Matches(calib.settings[k]) /\ t <= Len(calib.settings[k].caldacs)
      /\ UNCHANGED <<read, calib, query, found>>
  <2>1. Len(calib.settings) \in Nat /\ k \in 1 .. Len(calib.settings) + 1 /\ t \in Nat /\ t > 0
    BY <1>1, <1>2, BoardEmpty DEF Halfway
  <2>2. k <= Len(calib.settings)
    BY <1>1 DEF F!WriteCaldac, F!AtSetting
  <2>3. F!Matches(calib.settings[k]) /\ t <= Len(calib.settings[k].caldacs)
    BY <1>1, <1>2 DEF F!WriteCaldac, F!This
  <2>4. UNCHANGED <<read, calib, query, found>>
    BY DEF F!WriteCaldac, F!unasked, F!parser
  <2> QED BY <2>1, <2>2, <2>3, <2>4
<1>4. PICK c : c = calib.settings[k].caldacs[t]
  OBVIOUS
<1>5. PICK e : e = [subdevice |-> c.subdevice, channel |-> c.channel]
  OBVIOUS
<1>6. e \in Dacs /\ board' = [board EXCEPT ![e] = c.value] /\ pos' = <<k, t + 1>>
  BY <1>1, <1>2, <1>4, <1>5 DEF F!WriteCaldac, F!This, F!Goto
<1>7. F!ForAsked(k) /\ calib.settings[k].caldacs = DacsOf(read, k)
  BY <1>3, MatchesAsked
<1>8. DacsIn(k) \in SUBSET (1 .. Len(read)) /\ Len(read) \in Nat
  BY WrittenIs, BoardEmpty DEF DacsIn
<1>9. Cardinality(DacsIn(k)) \in Nat
  BY <1>8, PositionsFinite
<1>10. Len(DacsOf(read, k)) = Cardinality(DacsIn(k))
  BY <1>9 DEF DacsOf, DacsIn, Pick
<1>11. t \in 1 .. Cardinality(DacsIn(k))
  BY <1>3, <1>7, <1>9, <1>10
<1>12. PICK x : x = F!Nth(DacsIn(k), t)
  OBVIOUS
<1>13. x \in DacsIn(k) /\ Rank(DacsIn(k), x) = t - 1 /\ x \in 1 .. Len(read) /\ x \in Nat /\ x > 0
  <2>1. x \in DacsIn(k) /\ Rank(DacsIn(k), x) = t - 1
    BY <1>8, <1>11, <1>12, NthIs
  <2> QED BY <1>8, <2>1
<1>14. c = F!CaldacAt(read, x)
  <2>1. DacsOf(read, k)[t] = Ds(read)[x]
    BY <1>11, <1>12 DEF DacsOf, DacsIn, Pick
  <2>2. Ds(read)[x] = F!CaldacAt(read, x)
    BY <1>13 DEF Ds
  <2> QED BY <1>4, <1>7, <2>1, <2>2
<1>15. F!SettingAt(read, x) = k /\ x \in F!Needed
  <2>1. F!SettingAt(read, x) = k /\ x \in F!Before(read, Len(read), {"caldac"})
    BY <1>13 DEF DacsIn, F!Written
  <2> QED BY <1>7, <2>1 DEF F!Needed
<1>16. PICK p \in 0 .. Len(read) : board = F!BoardAfter(p) /\ \A j \in F!Needed : j <= p <=> Passed(j)
  BY DEF Halfway
<1>17. ASSUME NEW j \in F!Needed
       PROVE  /\ j <= x <=> Passed(j) \/ j = x
              /\ j <= x <=> Passed(j)'
  <2>1. PICK y : y = F!SettingAt(read, j)
    OBVIOUS
  <2>2. y \in Nat /\ y > 0 /\ j \in DacsIn(y) /\ j \in Nat /\ j > 0
    <3>1. j \in 1 .. Len(read) /\ y \in 1 .. Len(calib.settings) /\ j \in DacsIn(y)
      BY <2>1, NeededIs
    <3> QED BY <1>3, <1>8, <3>1
  <2>3. Passed(j) <=> y < k \/ (y = k /\ Rank(DacsIn(k), j) + 1 < t)
    BY <1>1, <1>2, <2>1 DEF Passed
  <2>4. Passed(j)' <=> y < k \/ (y = k /\ Rank(DacsIn(k), j) + 1 < t + 1)
    <3>1. read' = read /\ pos'[1] = k /\ pos'[2] = t + 1
      BY <1>3, <1>6
    <3> QED BY <2>1, <3>1 DEF Passed, DacsIn
  <2>5. y < k => j < x
    <3>1. x <= j => k <= y
      BY <1>13, <1>15, <2>1, <2>2, SettingRises
    <3> QED BY <1>3, <1>13, <2>2, <3>1
  <2>6. k < y => x < j
    <3>1. j <= x => y <= k
      BY <1>13, <1>15, <2>1, <2>2, SettingRises
    <3> QED BY <1>3, <1>13, <2>2, <3>1
  <2>7. CASE y = k
    <3>1. Rank(DacsIn(k), j) \in Nat
      BY <1>8, RankType
    <3>2. j < x => Rank(DacsIn(k), j) + 1 <= t - 1
      <4>1. j \in DacsIn(k)
        BY <2>2, <2>7
      <4>2. ASSUME j < x PROVE Rank(DacsIn(k), j) + 1 <= Rank(DacsIn(k), x)
        <5>1. x \in Int
          BY <1>13
        <5> QED BY ONLY <1>8, <4>1, <4>2, <5>1, RankRises
      <4> QED BY <1>13, <4>2
    <3>3. x < j => t <= Rank(DacsIn(k), j)
      <4>1. ASSUME x < j PROVE Rank(DacsIn(k), x) + 1 <= Rank(DacsIn(k), j)
        <5>1. j \in Int /\ x \in DacsIn(k)
          BY <1>13, <2>2
        <5> QED BY ONLY <1>8, <4>1, <5>1, RankRises
      <4> QED BY <1>3, <1>13, <4>1
    <3>4. j = x => Rank(DacsIn(k), j) = t - 1
      BY <1>13
    <3>5. (j <= x <=> Rank(DacsIn(k), j) + 1 < t \/ j = x) /\ (j <= x <=> Rank(DacsIn(k), j) + 1 < t + 1)
      BY <1>3, <1>13, <2>2, <3>1, <3>2, <3>3, <3>4
    <3> QED BY <1>3, <2>3, <2>4, <2>7, <3>5
  <2>8. CASE y # k
    <3>1. y < k \/ k < y
      BY <1>3, <2>2, <2>8
    <3>2. (j <= x <=> y < k) /\ j # x
      BY <1>3, <1>13, <2>2, <2>5, <2>6, <3>1
    <3> QED BY <2>3, <2>4, <2>8, <3>2
  <2> QED BY <2>7, <2>8
<1>18. board' = F!BoardAfter(x)
  <2>1. \A j \in F!Needed : j <= x <=> j <= p \/ j = x
    BY <1>16, <1>17
  <2>2. board' = [F!BoardAfter(p) EXCEPT ![e] = c.value]
    BY <1>6, <1>16
  <2>3. p \in Int
    BY <1>8
  <2> QED BY <1>5, <1>6, <1>14, <1>15, <2>1, <2>2, <2>3, BoardMore
<1>19. \E q \in 0 .. Len(read) : board' = F!BoardAfter(q)' /\ \A j \in F!Needed : j <= q <=> Passed(j)'
  <2>1. F!BoardAfter(x)' = F!BoardAfter(x)
    BY <1>3, AskedSame
  <2>2. x \in 0 .. Len(read)
    BY <1>8, <1>13
  <2> QED BY <1>17, <1>18, <2>1, <2>2
<1>20. F!Needed' = F!Needed /\ \A y : F!ForAsked(y)' <=> F!ForAsked(y)
  BY <1>3, AskedSame
<1>21. found' => \E y \in 1 .. pos'[1] - 1 : F!ForAsked(y)'
  <2>1. pos'[1] = pos[1]
    BY <1>1, <1>6
  <2>2. found' => found
    BY <1>3
  <2> QED BY <1>20, <2>1, <2>2 DEF Halfway
<1>22. /\ pos' = <<pos'[1], pos'[2]>> /\ pos'[1] \in 1 .. Len(calib'.settings) + 1
       /\ pos'[2] \in Nat /\ pos'[2] > 0
  <2>1. pos'[1] = k /\ pos'[2] = t + 1 /\ calib' = calib
    BY <1>3, <1>6
  <2>2. k \in 1 .. Len(calib.settings) + 1 /\ t + 1 \in Nat /\ t + 1 > 0
    BY <1>3
  <2> QED BY <1>6, <2>1, <2>2
<1>23. query'.fn = "apply" /\ read' = read
  BY <1>3 DEF Halfway
<1> QED BY <1>19, <1>20, <1>21, <1>22, <1>23 DEF Halfway

\* The walk begins before the first DAC.
LEMMA WalkBegins ==
  ASSUME Unasked, Loaded, UNCHANGED <<read, calib, pos, found, board>>
  PROVE  /\ board' = F!BoardAfter(0)' /\ 0 \in 0 .. Len(read')
         /\ query'.fn = "apply" => Halfway'
<1>1. PICK f : f = read'
  OBVIOUS
<1>2. Len(f) \in Nat /\ f = read /\ Len(calib.settings) \in Nat
  BY <1>1, BoardEmpty
<1>3. F!Needed' \subseteq 1 .. Len(f)
  BY <1>1 DEF F!Needed, F!Before
<1>4. \A d : F!NeededOf(d, 0)' = {}
  <2>1. \A j \in F!Needed' : ~(j <= 0)
    BY <1>2, <1>3
  <2> QED BY <2>1 DEF F!NeededOf
<1>5. board' = F!BoardAfter(0)'
  BY <1>4 DEF F!BoardAfter, Unasked
<1>6. ASSUME NEW j \in F!Needed' PROVE ~Passed(j)' /\ ~(j <= 0)
  <2>1. j \in Nat /\ j > 0
    BY <1>2, <1>3, <1>6
  <2>2. F!SettingAt(f, j) \in Nat /\ F!SettingAt(f, j) > 0
    BY <2>1, SettingType
  <2>3. F!Written(f, 1, {"caldac"}) \in SUBSET (1 .. Len(f))
    BY <1>2, WrittenIs
  <2>4. Rank(F!Written(f, 1, {"caldac"}), j) \in Nat
    BY <1>2, <2>3, RankType
  <2>5. pos'[1] = 1 /\ pos'[2] = 1
    BY DEF Unasked
  <2> QED BY <1>1, <2>1, <2>2, <2>4, <2>5 DEF Passed, DacsIn
<1>7. /\ pos' = <<pos'[1], pos'[2]>> /\ pos'[1] \in 1 .. Len(calib'.settings) + 1
      /\ pos'[2] \in Nat /\ pos'[2] > 0 /\ found' = FALSE
  <2>1. pos' = <<1, 1>> /\ found' = FALSE /\ calib' = calib
    BY DEF Unasked
  <2> QED BY <1>2, <2>1
<1>8. 0 \in 0 .. Len(read')
  BY <1>1, <1>2
<1>9. ASSUME query'.fn = "apply" PROVE Halfway'
  <2>1. \E p \in 0 .. Len(read') : board' = F!BoardAfter(p)' /\ \A j \in F!Needed' : j <= p <=> Passed(j)'
    BY <1>5, <1>6, <1>8
  <2>2. found' => \E k \in 1 .. pos'[1] - 1 : F!ForAsked(k)'
    BY <1>7
  <2> QED BY <1>7, <1>9, <2>1, <2>2 DEF Halfway
<1> QED BY <1>5, <1>8, <1>9

\* Once the settings are passed every DAC that is needed is on the board.
LEMMA WalkEnds ==
  ASSUME Loaded, Halfway, pos[1] > Len(calib.settings)
  PROVE  /\ board = F!BoardAfter(Len(read))
         /\ found => \E k \in 1 .. F!SettingCount(read) : F!ForAsked(k)
<1>1. Len(read) \in Nat /\ Len(calib.settings) \in Nat
  BY BoardEmpty
<1>2. PICK p \in 0 .. Len(read) : board = F!BoardAfter(p) /\ \A j \in F!Needed : j <= p <=> Passed(j)
  BY DEF Halfway
<1>3. ASSUME NEW j \in F!Needed PROVE j <= p /\ j <= Len(read)
  <2>1. F!SettingAt(read, j) \in 1 .. Len(calib.settings) /\ j \in 1 .. Len(read)
    BY NeededIs
  <2>2. pos[1] \in Nat
    BY <1>1 DEF Halfway
  <2>3. F!SettingAt(read, j) < pos[1]
    BY <1>1, <2>1, <2>2
  <2> QED BY <1>1, <1>2, <2>1, <2>3 DEF Passed
<1>4. F!BoardAfter(Len(read)) = F!BoardAfter(p)
  BY <1>3, BoardBetween
<1>5. Len(calib.settings) = F!SettingCount(read)
  <2>1. F!SettingCount(read) \in Nat
    BY <1>1, CountType
  <2> QED BY <2>1 DEF Loaded, Filled
<1>6. pos[1] - 1 = F!SettingCount(read)
  <2>1. pos[1] \in 1 .. Len(calib.settings) + 1
    BY DEF Halfway
  <2> QED BY <1>1, <1>5, <2>1
<1>7. found => \E k \in 1 .. F!SettingCount(read) : F!ForAsked(k)
  BY <1>6 DEF Halfway
<1> QED BY <1>2, <1>4, <1>7

\* The invariant is kept.
LEMMA ApplyKept ==
  ASSUME CalibInv, ApplyInv, F!Next
  PROVE  ApplyInv'
<1>1. CASE F!ParseStep
  <2>1. UNCHANGED <<pos, found, board>> /\ pc \in {"start", "open", "parse", "inverse"}
    BY <1>1 DEF F!ParseStep, F!Start, F!OpenFails, F!Open, F!Abort, F!ReadName, F!ReadListed,
       F!ReadSubdevice, F!ReadCaldac, F!ReadCoefficient, F!ReadOrigin, F!ReadPolynomial, F!ReadEnd,
       F!EndOfFile, F!FillInverse, F!Take, F!asking
  <2>2. pc' \in {"open", "unopened", "failed", "parse", "inverse", "loaded"}
    BY <1>1 DEF F!ParseStep, F!Start, F!OpenFails, F!Open, F!Abort, F!ReadName, F!ReadListed,
       F!ReadSubdevice, F!ReadCaldac, F!ReadCoefficient, F!ReadOrigin, F!ReadPolynomial, F!ReadEnd,
       F!EndOfFile, F!FillInverse, F!Take, F!Goto
  <2> QED BY <2>1, <2>2 DEF ApplyInv, Unasked, F!AppliedInOrder
<1>2. CASE F!Apply
  <2>1. /\ pc = "loaded" /\ UNCHANGED <<read, calib, pos, found, board>> /\ query'.fn = "apply"
        /\ pc' \in {"crashed", "apply", "answered"} /\ (pc' = "answered" => answer' = -1)
    BY <1>2 DEF F!Apply, F!Ask, F!Goto, F!unasked, F!parser
  <2>2. Unasked /\ Loaded
    BY <2>1 DEF ApplyInv, CalibInv
  <2>3. board' = F!BoardAfter(0)' /\ 0 \in 0 .. Len(read') /\ Halfway'
    BY <2>1, <2>2, WalkBegins
  <2>4. F!AppliedInOrder'
    BY <2>1, <2>3 DEF F!AppliedInOrder
  <2> QED BY <2>1, <2>3, <2>4 DEF ApplyInv
<1>3. CASE F!NextSetting
  <2>1. pc = "apply" /\ pc' = pc
    BY <1>3 DEF F!NextSetting, F!AtSetting
  <2>2. Halfway /\ Loaded
    BY <2>1 DEF ApplyInv, CalibInv
  <2>3. Halfway'
    BY <1>3, <2>2, WalksOn
  <2> QED BY <2>1, <2>3 DEF ApplyInv, F!AppliedInOrder
<1>4. CASE F!WriteCaldac
  <2>1. pc = "apply" /\ UNCHANGED <<read, query>>
    BY <1>4 DEF F!WriteCaldac, F!AtSetting, F!unasked, F!parser
  <2>2. Halfway /\ Loaded
    BY <2>1 DEF ApplyInv, CalibInv
  <2>3. CASE pc' = "apply"
    <3>1. Halfway'
      BY <1>4, <2>2, <2>3, WritesOn
    <3> QED BY <2>3, <3>1 DEF ApplyInv, F!AppliedInOrder
  <2>4. CASE pc' # "apply"
    <3>1. pc' = "answered" /\ answer' = -1 /\ board' = board
      BY <1>4, <2>1, <2>4 DEF F!WriteCaldac, F!Goto
    <3>2. PICK p \in 0 .. Len(read) : board = F!BoardAfter(p)
      BY <2>2 DEF Halfway
    <3>3. F!BoardAfter(p)' = F!BoardAfter(p)
      BY <2>1, AskedSame
    <3>4. \E q \in 0 .. Len(read') : board' = F!BoardAfter(q)'
      BY <2>1, <3>1, <3>2, <3>3
    <3> QED BY <3>1, <3>4 DEF ApplyInv, F!AppliedInOrder
  <2> QED BY <2>3, <2>4
<1>5. CASE F!Applied
  <2>1. /\ pc = "apply" /\ UNCHANGED <<read, query, board>> /\ pc' = "answered"
        /\ pos[1] > Len(calib.settings) /\ answer' = (IF found THEN 0 ELSE -1)
    BY <1>5 DEF F!Applied, F!unasked, F!parser, F!Goto
  <2>2. Halfway /\ Loaded
    BY <2>1 DEF ApplyInv, CalibInv
  <2>3. /\ board = F!BoardAfter(Len(read))
        /\ found => \E k \in 1 .. F!SettingCount(read) : F!ForAsked(k)
    BY <2>1, <2>2, WalkEnds
  <2>4. \A p : F!BoardAfter(p)' = F!BoardAfter(p)
    BY <2>1, AskedSame
  <2>5. \A k : F!ForAsked(k)' <=> F!ForAsked(k)
    BY <2>1, AskedSame
  <2>6. PICK w : w = Len(read)
    OBVIOUS
  <2>7. w \in 0 .. w /\ w = Len(read')
    BY <2>1, <2>2, <2>6, BoardEmpty
  <2>8. board' = F!BoardAfter(w)'
    BY <2>1, <2>3, <2>4, <2>6
  <2>9. answer' = 0 => \E k \in 1 .. F!SettingCount(read') : F!ForAsked(k)'
    BY <2>1, <2>3, <2>5
  <2>10. F!BoardAfter(Len(read))' = F!BoardAfter(w)'
    BY <2>7 DEF F!BoardAfter, F!NeededOf
  <2> QED BY <2>1, <2>7, <2>8, <2>9, <2>10 DEF ApplyInv, F!AppliedInOrder
<1>6. CASE F!Softcal \/ F!GetHardcal
  <2>1. pc' = "answered" /\ query'.fn # "apply"
    <3>1. CASE F!Softcal
      <4>1. PICK q \in Queries, dir \in F!Directions :
              /\ pc' = "answered"
              /\ query' = [fn |-> "soft", dir |-> dir, subd |-> q.subd, chan |-> q.chan, range |-> q.range]
        BY <3>1 DEF F!Softcal, F!Ask, F!Goto
      <4> QED BY <4>1
    <3>2. CASE F!GetHardcal
      <4>1. PICK h \in HardRanges :
              /\ pc' = "answered"
              /\ query' = [fn |-> "hard", min |-> h.min, max |-> h.max, maxdata |-> h.maxdata]
        BY <3>2 DEF F!GetHardcal, F!Ask, F!Goto
      <4> QED BY <4>1
    <3> QED BY <1>6, <3>1, <3>2
  <2> QED BY <2>1 DEF ApplyInv, F!AppliedInOrder
<1>7. CASE F!Cleanup
  <2>1. pc' = "closed"
    BY <1>7 DEF F!Cleanup, F!Goto
  <2> QED BY <2>1 DEF ApplyInv, F!AppliedInOrder
<1> QED BY <1>1, <1>2, <1>3, <1>4, <1>5, <1>6, <1>7 DEF F!Next, F!UseStep

-----------------------------------------------------------------------------
(***************************************************************************)
(* Linear polynomials.                                                     *)
(***************************************************************************)

\* What apply_polynomial computes of two coefficients.
LEMMA LinearIs ==
  ASSUME NEW p, Len(p.coeffs) = 2, NEW v
  PROVE  F!apply_polynomial(p, v)
           = F!Plus(F!Plus(<<0, 1>>, F!Times(p.coeffs[1], <<1, 1>>)),
                    F!Times(p.coeffs[2], F!Times(<<1, 1>>, F!Plus(v, <<-p.origin[1], p.origin[2]>>))))
<1> DEFINE base == F!Plus(v, <<-p.origin[1], p.origin[2]>>)
           T(t) == [k \in 0 .. Len(p.coeffs) |-> IF k = 0 THEN <<1, 1>> ELSE F!Times(t[k - 1], base)]
           term == CHOOSE t : t = T(t)
           U(u) == [k \in 0 .. Len(p.coeffs) |->
                      IF k = 0 THEN <<0, 1>> ELSE F!Plus(u[k - 1], F!Times(p.coeffs[k], term[k - 1]))]
           sum == CHOOSE u : u = U(u)
<1>1. F!apply_polynomial(p, v) = sum[Len(p.coeffs)]
  BY DEF F!apply_polynomial
<1>2. term = T(term)
  <2> DEFINE t == [k \in 0 .. 2 |-> IF k = 0 THEN <<1, 1>> ELSE IF k = 1 THEN F!Times(<<1, 1>>, base)
                                    ELSE F!Times(F!Times(<<1, 1>>, base), base)]
  <2> HIDE DEF base
  <2>1. t = T(t)
    BY DEF T
  <2> HIDE DEF T, t
  <2> QED BY <2>1 DEF term
<1>3. sum = U(sum)
  <2> HIDE DEF base, term
  <2> DEFINE u1 == F!Plus(<<0, 1>>, F!Times(p.coeffs[1], term[0]))
             u == [k \in 0 .. 2 |-> IF k = 0 THEN <<0, 1>> ELSE IF k = 1 THEN u1
                                    ELSE F!Plus(u1, F!Times(p.coeffs[2], term[1]))]
  <2>1. u = U(u)
    BY DEF U
  <2> HIDE DEF U, u
  <2> QED BY <2>1 DEF sum
<1> HIDE DEF base, term, sum
<1>4. term[0] = <<1, 1>> /\ term[1] = F!Times(<<1, 1>>, base)
  BY <1>2 DEF T
<1>5. sum[0] = <<0, 1>> /\ sum[1] = F!Plus(sum[0], F!Times(p.coeffs[1], term[0]))
      /\ sum[2] = F!Plus(sum[1], F!Times(p.coeffs[2], term[1]))
  BY <1>3 DEF U
<1> QED BY <1>1, <1>4, <1>5 DEF base

IsFraction(v) == v \in Int \X Int
IsLinear(p) ==
  /\ Len(p.coeffs) = 2 /\ IsFraction(p.origin) /\ IsFraction(p.coeffs[1]) /\ IsFraction(p.coeffs[2])

\* The value of a linear polynomial.
LEMMA LinearAt ==
  ASSUME NEW p, IsLinear(p), NEW x \in Int, NEW y \in Int,
         NEW a \in Int, NEW b \in Int, p.origin = <<a, b>>,
         NEW c1 \in Int, NEW c2 \in Int, p.coeffs[1] = <<c1, c2>>,
         NEW d1 \in Int, NEW d2 \in Int, p.coeffs[2] = <<d1, d2>>
  PROVE  F!apply_polynomial(p, <<x, y>>)
           = <<c1 * (d2 * (y * b)) + (d1 * (x * b + (-a) * y)) * c2, c2 * (d2 * (y * b))>>
<1> DEFINE u == x * b + (-a) * y
           w == y * b
<1>1. F!Plus(<<x, y>>, <<-a, b>>) = <<u, w>>
  BY DEF F!Plus
<1>2. u \in Int /\ w \in Int
  OBVIOUS
<1> HIDE DEF u, w
<1>3. F!Times(<<1, 1>>, <<u, w>>) = <<u, w>>
  BY <1>2 DEF F!Times
<1>4. F!Times(<<c1, c2>>, <<1, 1>>) = <<c1, c2>>
  BY DEF F!Times
<1>5. F!Plus(<<0, 1>>, <<c1, c2>>) = <<c1, c2>>
  BY DEF F!Plus
<1>6. F!Times(<<d1, d2>>, <<u, w>>) = <<d1 * u, d2 * w>>
  BY DEF F!Times
<1>7. F!Plus(<<c1, c2>>, <<d1 * u, d2 * w>>) = <<c1 * (d2 * w) + (d1 * u) * c2, c2 * (d2 * w)>>
  BY DEF F!Plus
<1>8. F!apply_polynomial(p, <<x, y>>)
        = F!Plus(F!Plus(<<0, 1>>, F!Times(p.coeffs[1], <<1, 1>>)),
                 F!Times(p.coeffs[2], F!Times(<<1, 1>>, F!Plus(<<x, y>>, <<-p.origin[1], p.origin[2]>>))))
  BY LinearIs DEF IsLinear
<1>9. p.origin[1] = a /\ p.origin[2] = b
  OBVIOUS
<1> QED BY <1>1, <1>3, <1>4, <1>5, <1>6, <1>7, <1>8, <1>9 DEF u, w

\* A linear polynomial and its inverse: an identity of polynomials.
LEMMA ThereAndBack ==
  ASSUME NEW s \in Int, NEW a \in Int, NEW b \in Int, NEW c1 \in Int, NEW c2 \in Int,
         NEW d1 \in Int, NEW d2 \in Int,
         NEW x \in Int, NEW y \in Int, NEW m1 \in Int, NEW m2 \in Int,
         x = c1 * (d2 * (1 * b)) + (d1 * (s * b + (-a) * 1)) * c2, y = c2 * (d2 * (1 * b)),
         m1 = a * (d1 * (y * c2)) + (d2 * (x * c2 + (-c1) * y)) * b, m2 = b * (d1 * (y * c2))
  PROVE  m1 = s * m2
<1> DEFINE u == s * b + (-a) * 1
<1>1. u \in Int /\ u + a = s * b
  BY Z3
<1>2. x = c1 * (d2 * b) + (d1 * u) * c2 /\ y = c2 * (d2 * b)
  OBVIOUS
<1> HIDE DEF u
<1>3. x * c2 + (-c1) * y = (d1 * u) * (c2 * c2)
  BY ONLY <1>1, <1>2, Z3
<1>4. d2 * (x * c2 + (-c1) * y) * b = (d1 * (d2 * (c2 * c2))) * (u * b)
  BY ONLY <1>1, <1>3, Z3
<1>5. a * (d1 * (y * c2)) = (d1 * (d2 * (c2 * c2))) * (a * b)
  BY ONLY <1>1, <1>2, Z3
<1>6. m2 = (d1 * (d2 * (c2 * c2))) * (b * b)
  BY ONLY <1>2, m2 = b * (d1 * (y * c2)), Z3
<1>7. u * b + a * b = (s * b) * b
  BY ONLY <1>1, Z3
<1> QED BY <1>4, <1>5, <1>6, <1>7, Z3

\* alloc_inverse_linear_polynomial gives what undoes a polynomial.
LEMMA InverseUndoes ==
  ASSUME NEW p, IsLinear(p)
  PROVE  F!Undoes(F!InverseLinear(p), p) /\ IsLinear(F!InverseLinear(p))
<1>1. PICK a \in Int, b \in Int : p.origin = <<a, b>>
  BY DEF IsLinear, IsFraction
<1>2. PICK c1 \in Int, c2 \in Int : p.coeffs[1] = <<c1, c2>>
  BY DEF IsLinear, IsFraction
<1>3. PICK d1 \in Int, d2 \in Int : p.coeffs[2] = <<d1, d2>>
  BY DEF IsLinear, IsFraction
<1>4. PICK q : q = F!InverseLinear(p)
  OBVIOUS
<1>5. /\ q.origin = <<c1, c2>> /\ Len(q.coeffs) = 2
      /\ q.coeffs[1] = <<a, b>> /\ q.coeffs[2] = <<d2, d1>>
  BY <1>1, <1>2, <1>3, <1>4 DEF F!InverseLinear
<1>6. IsLinear(q)
  BY <1>1, <1>2, <1>3, <1>5 DEF IsLinear, IsFraction
<1>7. ASSUME NEW s \in Int
      PROVE  F!Same(F!apply_polynomial(q, F!apply_polynomial(p, <<s, 1>>)), <<s, 1>>)
  <2>1. PICK x \in Int, y \in Int : /\ x = c1 * (d2 * (1 * b)) + (d1 * (s * b + (-a) * 1)) * c2
                                    /\ y = c2 * (d2 * (1 * b))
    OBVIOUS
  <2>2. F!apply_polynomial(p, <<s, 1>>) = <<x, y>>
    <3>1. PICK u \in Int : u = 1
      OBVIOUS
    <3>2. F!apply_polynomial(p, <<s, u>>)
            = <<c1 * (d2 * (u * b)) + (d1 * (s * b + (-a) * u)) * c2, c2 * (d2 * (u * b))>>
      <4>1. \A z \in Int : F!apply_polynomial(p, <<s, z>>)
              = <<c1 * (d2 * (z * b)) + (d1 * (s * b + (-a) * z)) * c2, c2 * (d2 * (z * b))>>
        BY <1>1, <1>2, <1>3, <1>7, LinearAt
      <4> QED BY <4>1
    <3>3. u * b = 1 * b /\ (-a) * u = (-a) * 1
      BY <3>1
    <3> QED BY <2>1, <3>1, <3>2, <3>3
  <2>3. PICK m1 \in Int, m2 \in Int : /\ m1 = a * (d1 * (y * c2)) + (d2 * (x * c2 + (-c1) * y)) * b
                                      /\ m2 = b * (d1 * (y * c2))
    OBVIOUS
  <2>4. F!apply_polynomial(q, <<x, y>>) = <<m1, m2>>
    <3>1. F!apply_polynomial(q, <<x, y>>)
            = <<a * (d1 * (y * c2)) + (d2 * (x * c2 + (-c1) * y)) * b, b * (d1 * (y * c2))>>
      BY <1>5, <1>6, LinearAt
    <3> QED BY <2>3, <3>1
  <2>5. m1 = s * m2
    BY ONLY <2>1, <2>3, <1>1, <1>2, <1>3, <1>7, ThereAndBack
  <2> QED BY <2>2, <2>4, <2>5 DEF F!Same
<1>8. F!Undoes(q, p)
  <2>1. \A s \in 0 .. 3 : s \in Int
    OBVIOUS
  <2>2. \A s \in 0 .. 3 : F!Same(F!apply_polynomial(q, F!apply_polynomial(p, <<s, 1>>)), <<s, 1>>)
    BY <1>7, <2>1
  <2> QED BY <2>2, Zenon DEF F!Undoes
<1> QED BY <1>4, <1>6, <1>8

\* The numbers of the elements are fractions.
LEMMA ElementFractions ==
  ASSUME NEW f \in Seq(Elements), NEW j \in 1 .. Len(f), f[j].k \in {"coefficient", "origin"}
  PROVE  IsFraction(f[j].q)
<1>1. PICK e \in Elements : e = f[j]
  OBVIOUS
<1>2. e \in UNION Themes
  BY <1>1, NameKinds DEF Elements
<1>3. e.q \in Int \X (Int \ {0})
  BY <1>1, <1>2, AnalogAssumption DEF F!Parameters
<1> QED BY <1>1, <1>3 DEF IsFraction

\* So are those of a polynomial.
LEMMA PolyFractions ==
  ASSUME NEW f \in Seq(Elements), NEW p \in 1 .. Len(f), Len(F!PolyAt(f, p).coeffs) = 2
  PROVE  IsLinear(F!PolyAt(f, p))
<1>1. Len(f) \in Nat
  OBVIOUS
<1>2. PICK Og : Og = F!Before(f, p, {"origin"})
  OBVIOUS
<1>3. PICK Z : Z = SinceAt(f, p)
  OBVIOUS
<1>4. F!PolyAt(f, p) = [origin |-> IF Og = {} THEN <<0, 1>> ELSE f[F!Latest(Og)].q, coeffs |-> Pick(Z, Qs(f))]
  BY <1>1, <1>2, <1>3, PolyAtIs
<1>5. Og \in SUBSET (1 .. Len(f)) /\ \A j \in Og : f[j].k = "origin"
  BY <1>1, <1>2 DEF F!Before
<1>6. Z \in SUBSET (1 .. Len(f)) /\ \A j \in Z : f[j].k = "coefficient"
  BY <1>1, <1>3 DEF SinceAt, F!Before
<1>7. Og # {} => F!Latest(Og) \in Og
  BY <1>1, <1>5, LatestIs
<1>8. IsFraction(F!PolyAt(f, p).origin)
  <2>1. CASE Og = {}
    BY <1>4, <2>1 DEF IsFraction
  <2>2. CASE Og # {}
    <3>1. F!PolyAt(f, p).origin = f[F!Latest(Og)].q
      BY <1>4, <2>2
    <3>2. PICK j : j = F!Latest(Og)
      OBVIOUS
    <3>3. j \in 1 .. Len(f) /\ f[j].k = "origin"
      BY <1>5, <1>7, <2>2, <3>2
    <3> QED BY <3>1, <3>2, <3>3, ElementFractions
  <2> QED BY <2>1, <2>2
<1>9. Cardinality(Z) \in Nat
  BY <1>1, <1>6, PositionsFinite
<1>10. Cardinality(Z) = 2
  <2>1. F!PolyAt(f, p).coeffs = Pick(Z, Qs(f))
    BY <1>4
  <2> QED BY <1>9, <2>1 DEF Pick
<1>11. ASSUME NEW k \in 1 .. 2 PROVE IsFraction(F!PolyAt(f, p).coeffs[k])
  <2>1. PICK j : j = F!Nth(Z, k)
    OBVIOUS
  <2>2. j \in Z
    BY <1>1, <1>6, <1>10, <2>1, NthIs
  <2>3. j \in 1 .. Len(f) /\ f[j].k = "coefficient"
    BY <1>6, <2>2
  <2>4. F!PolyAt(f, p).coeffs[k] = Qs(f)[j]
    BY <1>4, <1>10, <2>1 DEF Pick
  <2>5. Qs(f)[j] = f[j].q
    BY <2>3 DEF Qs
  <2> QED BY <2>3, <2>4, <2>5, ElementFractions
<1> QED BY <1>8, <1>11 DEF IsLinear

\* And those of a setting.
LEMMA MeaningFractions ==
  ASSUME FileFine, NEW k, NEW dir \in F!Directions, F!Invertible(F!Meaning(read, k)[dir])
  PROVE  IsLinear(F!Meaning(read, k)[dir])
<1>1. read \in Seq(Elements) /\ Len(read) \in Nat
  BY DEF FileFine
<1>2. PICK T : T = F!Written(read, k, {dir})
  OBVIOUS
<1>3. F!Meaning(read, k)[dir] = F!PolyOf(read, k, dir)
  BY <1>1, PolyGiven DEF FileFine
<1>4. F!PolyOf(read, k, dir) = IF T = {} THEN F!NoPoly ELSE F!PolyAt(read, F!Nth(T, 1))
  BY <1>2 DEF F!PolyOf
<1>5. T # {}
  <2>1. Len(F!NoPoly.coeffs) # 2
    BY DEF F!NoPoly
  <2> QED BY <1>3, <1>4, <2>1 DEF F!Invertible
<1>6. F!Nth(T, 1) \in 1 .. Len(read)
  <2>1. T \in SUBSET (1 .. Len(read))
    BY <1>1, <1>2, WrittenIs
  <2>2. IsFiniteSet(T) /\ Cardinality(T) \in Nat
    BY <1>1, <2>1, PositionsFinite
  <2>3. 1 \in 1 .. Cardinality(T)
    BY <1>5, <2>2, FS_EmptySet
  <2> QED BY <1>1, <2>1, <2>3, NthIs
<1>7. Len(F!PolyAt(read, F!Nth(T, 1)).coeffs) = 2
  BY <1>3, <1>4, <1>5 DEF F!Invertible
<1> QED BY <1>1, <1>3, <1>4, <1>5, <1>6, <1>7, PolyFractions

-----------------------------------------------------------------------------
(***************************************************************************)
(* lib/calib.c: the converters.                                            *)
(***************************************************************************)

\* Setting s, which means m, has polynomial dir.
PolyHeld(k, dir, m, s) ==
  /\ s.subdevice = m.subdevice /\ s.channels = m.channels /\ s.ranges = m.ranges
  /\ s[dir].coeffs # << >>
       <=> m[dir] # F!NoPoly \/ (k \notin unfilled /\ F!Invertible(m[F!Other(dir)]))
  /\ F!Written(read, k, {dir}) # {} => s[dir] = m[dir]
  /\ F!Written(read, k, {dir}) = {} /\ s[dir].coeffs # << >>
       => s[dir] = F!InverseLinear(m[F!Other(dir)]) /\ F!Invertible(m[F!Other(dir)])

\* A setting has the polynomial that the file gives it, or the inverse of the
\* other one.
LEMMA HasPolynomial ==
  ASSUME Loaded, NEW k \in 1 .. F!SettingCount(read), NEW dir \in F!Directions
  PROVE  PolyHeld(k, dir, F!Meaning(read, k), calib.settings[k])
<1>0. PICK m, s : m = F!Meaning(read, k) /\ s = calib.settings[k]
  OBVIOUS
<1> SUFFICES PolyHeld(k, dir, m, s)
  BY <1>0
<1>1. Len(read) \in Nat /\ s = IF Lacking(m) /\ k \notin unfilled THEN F!Fill(m) ELSE m
  BY <1>0 DEF Loaded, FileFine, Filled
<1>2. dir = "to_phys" \/ dir = "from_phys"
  BY DEF F!Directions
<1>3. /\ F!Fill(m).subdevice = m.subdevice /\ F!Fill(m).channels = m.channels /\ F!Fill(m).ranges = m.ranges
      /\ F!Fill(m)[dir] = IF F!Lacks(m, dir) THEN F!InverseLinear(m[F!Other(dir)]) ELSE m[dir]
  <2>1. F!Fill(m)
           = [subdevice |-> m.subdevice, channels |-> m.channels, ranges |-> m.ranges, arefs |-> m.arefs,
              caldacs |-> m.caldacs,
              to_phys |-> IF F!Lacks(m, "to_phys") THEN F!InverseLinear(m.from_phys) ELSE m.to_phys,
              from_phys |-> IF F!Lacks(m, "from_phys") THEN F!InverseLinear(m.to_phys) ELSE m.from_phys]
    BY <1>0, <1>1, FillIs
  <2>2. dir = "to_phys" => F!Other(dir) = "from_phys"
    BY DEF F!Other
  <2>3. dir = "from_phys" => F!Other(dir) = "to_phys"
    BY DEF F!Other
  <2>4. CASE dir = "to_phys"
    BY <2>1, <2>2, <2>4
  <2>5. CASE dir = "from_phys"
    BY <2>1, <2>3, <2>5
  <2> QED BY <1>2, <2>4, <2>5
<1>4. /\ m[dir] = F!PolyOf(read, k, dir)
      /\ m[dir].coeffs = << >> <=> F!Written(read, k, {dir}) = {}
  BY <1>0, <1>1, PolyGiven DEF Loaded, FileFine
<1>5. m[dir] = F!NoPoly <=> m[dir].coeffs = << >>
  <2>1. F!Written(read, k, {dir}) = {} => m[dir] = F!NoPoly
    BY <1>4 DEF F!PolyOf
  <2>2. F!NoPoly.coeffs = << >>
    BY DEF F!NoPoly
  <2> QED BY <1>4, <2>1, <2>2
<1>6. F!Lacks(m, dir) <=> m[dir].coeffs = << >> /\ F!Invertible(m[F!Other(dir)])
  BY DEF F!Lacks
<1>7. F!Lacks(m, dir) => Lacking(m)
  BY DEF Lacking
<1>8. \A p : F!InverseLinear(p).coeffs # << >>
  BY DEF F!InverseLinear
<1> HIDE DEF Lacking
<1>9. CASE F!Lacks(m, dir) /\ k \notin unfilled
  <2>1. s = F!Fill(m)
    BY <1>1, <1>7, <1>9
  <2>2. s[dir] = F!InverseLinear(m[F!Other(dir)])
    BY <1>3, <1>9, <2>1
  <2>3. s[dir].coeffs # << >>
    BY <1>8, <2>2
  <2> QED BY <1>3, <1>4, <1>6, <1>9, <2>1, <2>2, <2>3 DEF PolyHeld
<1>10. CASE ~(F!Lacks(m, dir) /\ k \notin unfilled)
  <2>1. s[dir] = m[dir]
    <3>1. CASE Lacking(m) /\ k \notin unfilled
      BY <1>1, <1>3, <1>10, <3>1
    <3>2. CASE ~(Lacking(m) /\ k \notin unfilled)
      BY <1>1, <3>2
    <3> QED BY <3>1, <3>2
  <2>2. s.subdevice = m.subdevice /\ s.channels = m.channels /\ s.ranges = m.ranges
    BY <1>1, <1>3
  <2> QED BY <1>4, <1>5, <1>6, <1>10, <2>1, <2>2 DEF PolyHeld
<1> QED BY <1>9, <1>10

\* comedi_get_softcal_converter.
LEMMA SoftcalFits ==
  ASSUME Loaded, F!Softcal
  PROVE  F!ConverterFits'
<1>1. PICK q \in Queries, dir \in F!Directions :
        LET soft == [fn |-> "soft", dir |-> dir, subd |-> q.subd, chan |-> q.chan, range |-> q.range]
            has == {k \in DOMAIN calib.settings : F!Converts(calib.settings[k], soft)}
        IN  /\ F!Ask(soft)
            /\ IF has = {} THEN answer' = -1 /\ got' = << >>
               ELSE LET z == CHOOSE k \in has : \A j \in has : k <= j
                    IN  answer' = 0 /\ got' = <<calib.settings[z][dir]>>
  BY DEF F!Softcal
<1>14. dir \in F!Directions
  BY <1>1
<1>2. PICK soft : soft = [fn |-> "soft", dir |-> dir, subd |-> q.subd, chan |-> q.chan, range |-> q.range]
  OBVIOUS
<1>3. soft.fn = "soft" /\ soft.dir = dir
  BY <1>2
<1>4. query' = soft /\ read' = read /\ unfilled' = unfilled
  BY <1>1, <1>2 DEF F!Ask, F!unasked, F!parser
<1>5. PICK has : has = {k \in DOMAIN calib.settings : F!Converts(calib.settings[k], soft)}
  OBVIOUS
<1>6. /\ has = {} => answer' = -1
      /\ has # {} => answer' = 0
                     /\ got' = <<calib.settings[CHOOSE k \in has : \A j \in has : k <= j][dir]>>
  BY <1>1, <1>2, <1>5
<1>7. DOMAIN calib.settings = 1 .. F!SettingCount(read) /\ F!SettingCount(read) \in Nat
  <2>1. Len(read) \in Nat
    BY DEF Loaded, FileFine
  <2> QED BY <2>1, CountType DEF Loaded, Filled
<1>8. ASSUME NEW k, NEW kind, NEW v
      PROVE  F!Valid(F!Values(read, k, kind), v) <=> F!For(k, kind, v)
  BY DEF F!Valid, F!For, F!Range
<1>9. ASSUME NEW k \in 1 .. F!SettingCount(read)
      PROVE  F!Converts(calib.settings[k], soft)
               <=> /\ F!ForChannel(k)'
                   /\ \/ F!Meaning(read, k)[dir] # F!NoPoly
                      \/ k \notin unfilled /\ F!Invertible(F!Meaning(read, k)[F!Other(dir)])
  <2>1. PICK m, s : m = F!Meaning(read, k) /\ s = calib.settings[k]
    OBVIOUS
  <2>7. PolyHeld(k, dir, F!Meaning(read, k), calib.settings[k])
    BY <1>9, <1>14, HasPolynomial
  <2>2. /\ s.subdevice = m.subdevice /\ s.channels = m.channels /\ s.ranges = m.ranges
        /\ s[dir].coeffs # << >>
             <=> m[dir] # F!NoPoly \/ (k \notin unfilled /\ F!Invertible(m[F!Other(dir)]))
    BY <2>1, <2>7 DEF PolyHeld
  <2>3. m.channels = F!Values(read, k, "channel") /\ m.ranges = F!Values(read, k, "range")
    <3>1. Len(read) \in Nat
      BY DEF Loaded, FileFine
    <3> QED BY <2>1, <3>1, MeaningIs
  <2>4. F!Converts(s, soft)
          <=> /\ s.subdevice = soft.subd /\ F!Valid(s.channels, soft.chan) /\ F!Valid(s.ranges, soft.range)
              /\ s[dir].coeffs # << >>
    BY <1>3 DEF F!Converts
  <2>5. F!ForChannel(k)'
          <=> m.subdevice = soft.subd /\ F!For(k, "channel", soft.chan) /\ F!For(k, "range", soft.range)
    BY <1>4, <2>1 DEF F!ForChannel, F!For
  <2>6. /\ F!Valid(s.channels, soft.chan) <=> F!For(k, "channel", soft.chan)
        /\ F!Valid(s.ranges, soft.range) <=> F!For(k, "range", soft.range)
    BY <1>8, <2>2, <2>3
  <2> QED BY <2>1, <2>2, <2>4, <2>5, <2>6
<1>10. PICK fits : fits = {k \in 1 .. F!SettingCount(read) :
                             /\ F!ForChannel(k)'
                             /\ \/ F!Meaning(read, k)[dir] # F!NoPoly
                                \/ k \notin unfilled /\ F!Invertible(F!Meaning(read, k)[F!Other(dir)])}
  OBVIOUS
<1>11. has = fits
  BY <1>5, <1>7, <1>9, <1>10
<1>12. (answer' = 0) <=> (fits # {})
  BY <1>6, <1>11
<1>13. ASSUME fits # {}
       PROVE  LET z == CHOOSE k \in fits : \A j \in fits : k <= j
              IN  IF F!Written(read, z, {dir}) # {} THEN got'[1] = F!Meaning(read, z)[dir]
                  ELSE F!Undoes(got'[1], F!Meaning(read, z)[F!Other(dir)])
  <2>1. PICK k : k = CHOOSE z \in fits : \A j \in fits : z <= j
    OBVIOUS
  <2>2. k \in fits
    <3>1. fits \in SUBSET Nat
      BY <1>7, <1>10
    <3>2. \E z \in fits : \A j \in fits : z <= j
      BY <1>13, <3>1, LeastNat
    <3> QED BY <2>1, <3>2
  <2>3. k \in 1 .. F!SettingCount(read) /\ F!Converts(calib.settings[k], soft)
    BY <1>5, <1>10, <1>11, <2>2
  <2>4. PICK m, s : m = F!Meaning(read, k) /\ s = calib.settings[k]
    OBVIOUS
  <2>9. PolyHeld(k, dir, m, s)
    BY <1>14, <2>3, <2>4, HasPolynomial
  <2>5. s[dir].coeffs # << >>
    BY <1>3, <2>3, <2>4 DEF F!Converts
  <2>6. got'[1] = s[dir]
    BY <1>6, <1>11, <1>13, <2>1, <2>4
  <2>7. CASE F!Written(read, k, {dir}) # {}
    <3>1. F!Written(read, k, {dir}) # {} => s[dir] = m[dir]
      BY <2>9 DEF PolyHeld
    <3> QED BY <2>1, <2>4, <2>6, <2>7, <3>1
  <2>8. CASE F!Written(read, k, {dir}) = {}
    <3>1. s[dir] = F!InverseLinear(m[F!Other(dir)]) /\ F!Invertible(m[F!Other(dir)])
      BY <2>5, <2>8, <2>9 DEF PolyHeld
    <3>2. F!Other(dir) \in F!Directions
      BY DEF F!Other, F!Directions
    <3>3. IsLinear(m[F!Other(dir)])
      BY <2>4, <3>1, <3>2, MeaningFractions DEF Loaded
    <3>4. F!Undoes(s[dir], m[F!Other(dir)])
      BY <3>1, <3>3, InverseUndoes
    <3> QED BY <2>1, <2>4, <2>6, <2>8, <3>4
  <2> QED BY <2>7, <2>8
<1> QED BY <1>3, <1>4, <1>10, <1>12, <1>13 DEF F!ConverterFits

\* comedi_get_hardcal_converter.
LEMMA HardcalFits ==
  ASSUME F!GetHardcal
  PROVE  F!ConverterFits'
<1>1. PICK h \in HardRanges :
        /\ query' = [fn |-> "hard", min |-> h.min, max |-> h.max, maxdata |-> h.maxdata]
        /\ IF h.maxdata = 0 THEN answer' = -1 /\ got' = << >> ELSE answer' = 0 /\ got' = F!Hardcal(h)
  BY DEF F!GetHardcal, F!Ask
<1>2. query'.fn = "hard" /\ query'.min = h.min /\ query'.max = h.max /\ query'.maxdata = h.maxdata
  BY <1>1
<1>3. PICK lo \in Int, hi \in Int, md \in Int : lo = h.min /\ hi = h.max /\ md = h.maxdata
  BY AnalogAssumption DEF F!Parameters
<1>4. SUFFICES ASSUME answer' = 0
               PROVE  /\ F!Undoes(got'[2], got'[1])
                      /\ F!Same(F!apply_polynomial(got'[1], <<0, 1>>), <<lo, 1>>)
                      /\ F!Same(F!apply_polynomial(got'[1], <<md, 1>>), <<hi, 1>>)
  BY <1>2, <1>3 DEF F!ConverterFits
<1>5. PICK p : p = [origin |-> <<0, 1>>, coeffs |-> <<<<lo, 1>>, <<hi - lo, md>>>>]
  OBVIOUS
<1>6. PICK w \in Int : w = hi - lo
  OBVIOUS
<1>7. /\ p.origin = <<0, 1>> /\ Len(p.coeffs) = 2
      /\ p.coeffs[1] = <<lo, 1>> /\ p.coeffs[2] = <<w, md>>
  BY <1>5, <1>6
<1>8. IsLinear(p)
  BY <1>7 DEF IsLinear, IsFraction
<1>9. got'[1] = p /\ got'[2] = F!InverseLinear(p)
  <2>1. got' = <<p, [origin |-> <<lo, 1>>, coeffs |-> <<<<0, 1>>, <<md, w>>>>]>>
    BY <1>1, <1>3, <1>4, <1>5, <1>6 DEF F!Hardcal
  <2>2. F!InverseLinear(p) = [origin |-> <<lo, 1>>, coeffs |-> <<<<0, 1>>, <<md, w>>>>]
    BY <1>7 DEF F!InverseLinear
  <2> QED BY <2>1, <2>2
<1>10. F!Undoes(got'[2], got'[1])
  BY <1>8, <1>9, InverseUndoes
<1>11. PICK zero \in Int, one \in Int : zero = 0 /\ one = 1
  OBVIOUS
<1>12. ASSUME NEW x \in Int
       PROVE  F!apply_polynomial(p, <<x, 1>>) = <<lo * md + w * x, md>>
  <2>1. p.origin = <<zero, one>> /\ p.coeffs[1] = <<lo, one>>
    BY <1>7, <1>11
  <2>2. F!apply_polynomial(p, <<x, one>>)
          = <<lo * (md * (one * one)) + (w * (x * one + (-zero) * one)) * one, one * (md * (one * one))>>
    <3>1. \A z \in Int : F!apply_polynomial(p, <<x, z>>)
            = <<lo * (md * (z * one)) + (w * (x * one + (-zero) * z)) * one, one * (md * (z * one))>>
      BY <1>3, <1>6, <1>7, <1>8, <1>11, <1>12, <2>1, LinearAt
    <3> QED BY <3>1
  <2>3. /\ lo * (md * (one * one)) + (w * (x * one + (-zero) * one)) * one = lo * md + w * x
        /\ one * (md * (one * one)) = md
    <3>1. one * one = 1 /\ x * one = x /\ (-zero) * one = 0
      BY <1>11
    <3>2. md * (one * one) = md /\ x * one + (-zero) * one = x
      BY <3>1
    <3>3. w * x \in Int /\ (w * x) * one = w * x /\ one * md = md
      BY <1>11
    <3> QED BY <3>2, <3>3
  <2> QED BY <1>11, <2>2, <2>3
<1>13. F!Same(F!apply_polynomial(p, <<0, 1>>), <<lo, 1>>)
  <2>1. F!apply_polynomial(p, <<0, 1>>) = <<lo * md + w * 0, md>>
    BY <1>12
  <2>2. (lo * md + w * 0) * 1 = lo * md
    OBVIOUS
  <2> QED BY <2>1, <2>2 DEF F!Same
<1>14. F!Same(F!apply_polynomial(p, <<md, 1>>), <<hi, 1>>)
  <2>1. F!apply_polynomial(p, <<md, 1>>) = <<lo * md + w * md, md>>
    BY <1>12
  <2>2. (lo * md + w * md) * 1 = hi * md
    BY ONLY <1>6, Z3
  <2> QED BY <2>1, <2>2 DEF F!Same
<1> QED BY <1>9, <1>10, <1>13, <1>14

\* They fit after any step.
LEMMA ConverterKept ==
  ASSUME CalibInv, ApplyInv, F!ConverterFits, F!Next
  PROVE  F!ConverterFits'
<1>1. CASE F!ParseStep
  <2>1. pc' # "answered"
    BY <1>1 DEF F!ParseStep, F!Start, F!OpenFails, F!Open, F!Abort, F!ReadName, F!ReadListed,
       F!ReadSubdevice, F!ReadCaldac, F!ReadCoefficient, F!ReadOrigin, F!ReadPolynomial, F!ReadEnd,
       F!EndOfFile, F!FillInverse, F!Take, F!Goto
  <2> QED BY <2>1 DEF F!ConverterFits
<1>2. CASE F!Apply
  <2>1. query'.fn = "apply"
    BY <1>2 DEF F!Apply, F!Ask
  <2> QED BY <2>1 DEF F!ConverterFits
<1>3. CASE F!NextSetting \/ F!WriteCaldac \/ F!Applied
  <2>1. pc = "apply" /\ query' = query
    BY <1>3 DEF F!NextSetting, F!WriteCaldac, F!Applied, F!AtSetting
  <2>2. query'.fn = "apply"
    BY <2>1 DEF ApplyInv, Halfway
  <2> QED BY <2>2 DEF F!ConverterFits
<1>4. CASE F!Softcal
  <2>1. Loaded
    BY <1>4 DEF F!Softcal, F!Ask, CalibInv
  <2> QED BY <1>4, <2>1, SoftcalFits
<1>5. CASE F!GetHardcal
  BY <1>5, HardcalFits
<1>6. CASE F!Cleanup
  <2>1. pc' = "closed"
    BY <1>6 DEF F!Cleanup, F!Goto
  <2> QED BY <2>1 DEF F!ConverterFits
<1> QED BY <1>1, <1>2, <1>3, <1>4, <1>5, <1>6 DEF F!Next, F!UseStep

\* What was asked for is answered as before while nothing of the calibration
\* changes.
LEMMA FitsSame ==
  ASSUME ApplyInv, F!ConverterFits, UNCHANGED calibOnly
  PROVE  ApplyInv' /\ F!ConverterFits'
<1>1. /\ pc' = pc /\ read' = read /\ calib' = calib /\ unfilled' = unfilled /\ query' = query
      /\ pos' = pos /\ found' = found /\ board' = board /\ answer' = answer /\ got' = got
  BY DEF calibOnly
<1>2. Unasked' <=> Unasked
  BY <1>1 DEF Unasked
<1>3. F!Needed' = F!Needed
  BY <1>1 DEF F!Needed, F!ForAsked, F!ForChannel, F!For
<1>4. \A d, p : F!NeededOf(d, p)' = F!NeededOf(d, p)
  BY <1>1, <1>3 DEF F!NeededOf
<1>5. \A p : F!BoardAfter(p)' = F!BoardAfter(p)
  BY <1>1, <1>4 DEF F!BoardAfter
<1>6. \A k : F!ForAsked(k)' <=> F!ForAsked(k)
  BY <1>1 DEF F!ForAsked, F!ForChannel, F!For
<1>7. \A j : Passed(j)' <=> Passed(j)
  BY <1>1 DEF Passed, DacsIn
<1>8. Halfway => Halfway'
  BY <1>1, <1>3, <1>5, <1>6, <1>7 DEF Halfway
<1>9. F!AppliedInOrder'
  BY <1>1, <1>5, <1>6 DEF ApplyInv, F!AppliedInOrder
<1>10. F!ConverterFits'
  <2>1. \A k : F!ForChannel(k)' <=> F!ForChannel(k)
    BY <1>1 DEF F!ForChannel, F!For
  <2> QED BY <1>1, <2>1 DEF F!ConverterFits
<1> QED BY <1>1, <1>2, <1>8, <1>9, <1>10 DEF ApplyInv

\* Whatever the file and the failures of the board: success of applying a
\* calibration means that all of the DACs that the file gives for what was asked
\* for are set, the later ones over the earlier, and a failure leaves a first part
\* of them; and a converter is the polynomial the file gives or one that undoes
\* the other one.
THEOREM CalibrationFit == AnalogSpec => []CalibrationFits
<1>1. AnalogSpec => AnalogInit /\ [][AnalogNext]_analogVars
  BY PTL DEF AnalogSpec
<1>2. AnalogInit => ApplyInv /\ F!ConverterFits
  <2>1. F!Init => Unasked /\ pc = "start"
    BY DEF F!Init, Unasked
  <2> QED BY <2>1 DEF AnalogInit, ApplyInv, F!AppliedInOrder, F!ConverterFits
<1>3. ASSUME CalibInv, ApplyInv /\ F!ConverterFits, [AnalogNext]_analogVars
      PROVE  (ApplyInv /\ F!ConverterFits)'
  <2>1. F!Next \/ UNCHANGED calibOnly
    BY <1>3 DEF AnalogNext, UsesInsn, UsesSlow, Converts, Calibrates, analogVars
  <2>2. CASE F!Next
    BY <1>3, <2>2, ApplyKept, ConverterKept
  <2>3. CASE UNCHANGED calibOnly
    BY <1>3, <2>3, FitsSame
  <2> QED BY <2>1, <2>2, <2>3
<1>4. ApplyInv /\ F!ConverterFits => CalibrationFits
  BY DEF ApplyInv, CalibrationFits
<1> QED BY <1>1, <1>2, <1>3, <1>4, CalibRuns, PTL
=============================================================================
