--------------------------- MODULE MmapReader_proofs ---------------------------
(***************************************************************************)
(* The loop of demo/mmap.c implements SampleStream, for every buffer size  *)
(* that is a multiple of the sample size and every counter width above it. *)
(***************************************************************************)
EXTENDS MmapReader, ComediBuffer_proofs

-----------------------------------------------------------------------------
(***************************************************************************)
(* Arithmetic.                                                             *)
(***************************************************************************)

\* Division with remainder.
LEMMA DivMod ==
  ASSUME NEW u \in Nat, NEW s \in Nat, s > 0
  PROVE  /\ u \div s \in Nat
         /\ u % s \in 0 .. s - 1
         /\ u % s = u - (u \div s) * s
<1>1. u \div s \in Nat
  BY Z3
<1>2. u % s \in 0 .. s - 1
  OBVIOUS
<1>3. u % s = u - (u \div s) * s
  OBVIOUS
<1> QED
  BY <1>1, <1>2, <1>3

\* A smaller multiple is smaller by one whole unit at least.
LEMMA NextMultiple ==
  ASSUME NEW a \in Nat, NEW b \in Nat, NEW s \in Nat, s > 0, a * s < b * s
  PROVE  a * s + s <= b * s
<1>1. a < b
  OBVIOUS
<1> QED
  BY <1>1

\* One more unit.
LEMMA Successor ==
  ASSUME NEW a \in Nat, NEW s \in Nat
  PROVE  a * s \in Nat /\ (a + 1) * s = a * s + s
  OBVIOUS

\* The unit is not 0.
LEMMA Nonzero ==
  ASSUME NEW a \in Nat, NEW s \in Nat, s > 0
  PROVE  a * s = 0 <=> a = 0
  OBVIOUS

\* The distance to a later point is larger.
LEMMA Later ==
  ASSUME NEW a \in Nat, NEW b \in Nat, NEW c \in Nat, b >= a
  PROVE  b - c >= a - c /\ (a - c > 0 => b - c > 0)
  OBVIOUS

\* More of a unit is more.
LEMMA Monotone ==
  ASSUME NEW a \in Nat, NEW b \in Nat, NEW s \in Nat, a <= b
  PROVE  a * s <= b * s
  OBVIOUS

-----------------------------------------------------------------------------
USE SizeAssumption, CountModAssumption, TotalAssumption, SampleSizeAssumption

\* The samples of this round that are printed and not yet marked read.
InHand == IF pc = "print" THEN i * SampleSize ELSE 0

\* The position is at the beginning of a sample.
Aligned == \E k \in Nat : bufpos = k * SampleSize

\* The program's side of the buffer.
Loop ==
  /\ pc \in {"poll", "print", "exit"}
  /\ front \in 0 .. CountMod - 1 /\ back \in 0 .. CountMod - 1
  /\ bufpos \in Slots /\ nsamples \in Nat /\ i \in 0 .. nsamples
  /\ out \in Seq([0 .. SampleSize - 1 -> Int])
  /\ pc = "poll" => front = back

\* What has been printed is what has been marked and what is in hand.
Printed == pc # "exit" => Len(out) * SampleSize = read + InHand

\* The inductive invariant.
RInv == BInv /\ dir = "in" /\ Loop /\ ReaderInStep /\ Aligned /\ Printed

-----------------------------------------------------------------------------
\* Whole samples in u bytes.
LEMMA Whole ==
  ASSUME NEW u \in Nat
  PROVE  /\ u \div SampleSize \in Nat
         /\ (u \div SampleSize) * SampleSize \in 0 .. u
<1>1. SampleSize \in Nat /\ SampleSize > 0
  OBVIOUS
<1>2. /\ u \div SampleSize \in Nat
      /\ u % SampleSize \in 0 .. SampleSize - 1
      /\ u % SampleSize = u - (u \div SampleSize) * SampleSize
  BY <1>1, DivMod
<1>3. (u \div SampleSize) * SampleSize \in Nat
  BY <1>1, <1>2, Successor
<1> QED
  BY <1>2, <1>3

\* A sample that begins inside the buffer ends inside it.
LEMMA SampleFits ==
  ASSUME NEW k \in Nat, k * SampleSize < Size
  PROVE  k * SampleSize + SampleSize <= Size
<1>1. SampleSize \in Nat /\ SampleSize > 0 /\ Size \in Nat /\ Size % SampleSize = 0
  OBVIOUS
<1>2. /\ Size \div SampleSize \in Nat
      /\ Size % SampleSize = Size - (Size \div SampleSize) * SampleSize
  BY <1>1, DivMod
<1>3. Size = (Size \div SampleSize) * SampleSize
  BY <1>1, <1>2, Successor
<1> QED
  BY <1>1, <1>2, <1>3, NextMultiple

\* The products the loop computes with, and where the round stands.
LEMMA InRound ==
  ASSUME RInv
  PROVE  /\ SampleSize \in Nat /\ SampleSize > 0 /\ Unread \in 0 .. Size
         /\ i * SampleSize \in Nat /\ nsamples * SampleSize \in Nat
         /\ Len(out) \in Nat /\ Len(out) * SampleSize \in Nat
         /\ bufpos + SampleSize <= Size
<1>1. SampleSize \in Nat /\ SampleSize > 0 /\ Unread \in 0 .. Size
  BY DEF RInv, BInv, ContentsExact
<1>2. i \in Nat /\ nsamples \in Nat /\ Len(out) \in Nat
  BY DEF RInv, Loop
<1>3. bufpos + SampleSize <= Size
  BY SampleFits DEF RInv, Aligned, Loop, Slots
<1> QED
  BY <1>1, <1>2, <1>3, Successor

\* While a round has samples left, the next one is whole, unread and, in the
\* mapping, the next of the stream.
LEMMA NextSample ==
  ASSUME RInv, pc = "print", i < nsamples
  PROVE  /\ (i + 1) * SampleSize = i * SampleSize + SampleSize
         /\ i * SampleSize + SampleSize <= nsamples * SampleSize
         /\ nsamples * SampleSize <= Unread
         /\ Len(out) * SampleSize = read + i * SampleSize
         /\ (Len(out) + 1) * SampleSize = Len(out) * SampleSize + SampleSize
         /\ (Len(out) + 1) * SampleSize <= written
         /\ SampleAt(bufpos) = Stream!Sample(Len(out))
<1> DEFINE done == i * SampleSize
<1>1. i \in Nat /\ nsamples \in Nat
  BY DEF RInv, Loop
<1>2. done + SampleSize = (i + 1) * SampleSize
  BY <1>1, InRound, Successor
<1>3. (i + 1) * SampleSize <= nsamples * SampleSize
  BY <1>1, InRound, Monotone
<1>4. nsamples * SampleSize <= Unread /\ bufpos = Ahead(rptr, done)
  BY DEF RInv, ReaderInStep
<1>5. Len(out) * SampleSize = read + done
  BY DEF RInv, Printed, InHand
<1>6. (Len(out) + 1) * SampleSize = Len(out) * SampleSize + SampleSize
  BY InRound, Successor
<1>7. read \in Nat /\ written \in Nat /\ rptr \in 0 .. Size - 1 /\ bufpos \in 0 .. Size - 1
  BY DEF RInv, BInv, BufferTypeOK, Loop, Slots
<1> HIDE DEF done
<1>8. done \in Nat
  BY InRound DEF done
<1>9. (Len(out) + 1) * SampleSize <= written
  BY <1>2, <1>3, <1>4, <1>5, <1>6, <1>7, <1>8, InRound, SMTT(30) DEF Unread
<1>10. ASSUME NEW b \in 0 .. SampleSize - 1
       PROVE  ring[bufpos + b] = Len(out) * SampleSize + b
  <2>1. done + b \in 0 .. Unread - 1
    BY <1>2, <1>3, <1>4, <1>8, InRound
  <2>2. ring[Ahead(rptr, done + b)] = read + (done + b)
    BY <2>1 DEF RInv, BInv, UnreadIntact
  <2>3. Ahead(rptr, done + b) = bufpos + b
    BY <1>4, <1>7, <1>8, InRound DEF Ahead
  <2> QED
    BY <1>5, <1>7, <1>8, <2>2, <2>3
<1>11. SampleAt(bufpos) = Stream!Sample(Len(out))
  BY <1>10 DEF SampleAt, Stream!Sample
<1> QED
  BY <1>2, <1>3, <1>4, <1>5, <1>6, <1>9, <1>11 DEF done

-----------------------------------------------------------------------------
\* Before the first round nothing is printed and nothing is in the buffer.
LEMMA RInit == Init => RInv
<1> SUFFICES ASSUME Init PROVE RInv
  OBVIOUS
<1>1. BInv
  BY BufferInitInv DEF Init
<1>2. 0 * SampleSize = 0
  BY SampleSizeAssumption
<1>3. Loop
  BY DEF Init, Loop, Slots
<1>4. Aligned
  BY <1>2 DEF Init, Aligned
<1>5. Printed
  BY <1>2 DEF Init, Printed, InHand, BufferInit, KernelInit
<1>6. ReaderInStep
  BY DEF Init, ReaderInStep, BufferInit, KernelInit
<1> QED
  BY <1>1, <1>3, <1>4, <1>5, <1>6 DEF RInv, Init

\* The loop drives the buffer as any program may.
LEMMA LoopIsAProgram == RInv /\ [Next]_vars => [BufferNext]_bufferVars
<1> SUFFICES ASSUME RInv, [Next]_vars PROVE [BufferNext]_bufferVars
  OBVIOUS
<1>1. ASSUME Mark PROVE BufferNext
  <2>1. USub(front, back) \in 0 .. CountMod - 1
    BY DEF USub, RInv, Loop
  <2> QED
    BY <1>1, <2>1 DEF Mark, BufferNext, MarkStep
<1> QED
  BY <1>1 DEF Next, Deliver, ReaderStep, Poll, PollFails, PrintSample, MarkFails, BufferNext,
              DeviceStep, CallFails, vars

\* A new round has as many whole samples as are unread.
LEMMA PollStep == RInv /\ Poll => RInv'
<1> SUFFICES ASSUME RInv, Poll PROVE RInv'
  OBVIOUS
<1> DEFINE n == Unread \div SampleSize
           bytes == n * SampleSize
<1>1. /\ front = back /\ back \in 0 .. CountMod - 1 /\ bufpos = rptr
      /\ get_buffer_contents = Unread /\ Unread \in 0 .. Size
  BY DEF RInv, Poll, Loop, ReaderInStep, BInv, ContentsExact
<1>2. Samples(UAdd(front, get_buffer_contents), back) = n
  BY <1>1 DEF Samples, UAdd, USub
<1>3. n \in Nat /\ bytes \in 0 .. Unread
  BY <1>1, Whole
<1>4. bytes = 0 <=> n = 0
  BY <1>3, Nonzero
<1>5. nsamples' = n /\ front' = UAdd(back, bytes) /\ i' = 0
      /\ pc' = (IF front' = back THEN "poll" ELSE "print")
      /\ UNCHANGED <<back, bufpos, out, bufferVars>>
  BY <1>2 DEF Poll
<1> HIDE DEF bytes
<1>6. USub(front', back) = bytes /\ front' \in 0 .. CountMod - 1 /\ (front' = back <=> bytes = 0)
  BY <1>1, <1>3, <1>5 DEF UAdd, USub
<1>7. 0 * SampleSize = 0 /\ nsamples' * SampleSize = bytes
  BY <1>5 DEF bytes
<1>8. BInv' /\ dir' = "in"
  BY <1>5, BufferStep DEF RInv, bufferVars, kernel
<1>9. Loop'
  BY <1>3, <1>5, <1>6 DEF Loop, RInv, Slots
<1>10. ReaderInStep'
  <2>1. rptr \in 0 .. Size - 1
    BY DEF RInv, BInv, BufferTypeOK, Slots
  <2> QED
    BY <1>1, <1>3, <1>5, <1>6, <1>7, <2>1
       DEF ReaderInStep, Ahead, USub, Unread, bufferVars, kernel
<1>11. Aligned' /\ Printed'
  BY <1>5, <1>7 DEF RInv, Aligned, Printed, InHand, Poll, bufferVars, kernel
<1> QED
  BY <1>8, <1>9, <1>10, <1>11 DEF RInv

\* The position, the count and the output advance by one sample.
LEMMA PrintStep == RInv /\ PrintSample => RInv'
<1> SUFFICES ASSUME RInv, PrintSample PROVE RInv'
  OBVIOUS
<1> DEFINE done == i * SampleSize
           held == nsamples * SampleSize
<1>1. pc = "print" /\ i < nsamples /\ i' = i + 1
      /\ bufpos' = (IF bufpos + SampleSize >= Size THEN 0 ELSE bufpos + SampleSize)
      /\ out' = Append(out, SampleAt(bufpos))
      /\ UNCHANGED <<pc, front, back, nsamples, bufferVars>>
  BY DEF PrintSample
<1>2. /\ i' * SampleSize = done + SampleSize /\ nsamples' * SampleSize = held
      /\ done + SampleSize <= held /\ held <= Unread
      /\ Len(out) * SampleSize = read + done
      /\ (Len(out) + 1) * SampleSize = Len(out) * SampleSize + SampleSize
  BY <1>1, NextSample
<1>3. SampleSize \in Nat /\ SampleSize > 0 /\ done \in Nat /\ held \in Nat
      /\ Unread \in 0 .. Size /\ bufpos + SampleSize <= Size
  BY InRound
<1>4. BInv' /\ dir' = "in"
  BY <1>1, BufferStep DEF RInv, bufferVars, kernel
<1>5. SampleAt(bufpos) \in [0 .. SampleSize - 1 -> Int]
  <2>1. ring \in [Slots -> Int] /\ bufpos \in Slots
    BY DEF RInv, BInv, BufferTypeOK, Loop
  <2> QED
    BY <1>3, <2>1 DEF SampleAt, Slots
<1>6. out \in Seq([0 .. SampleSize - 1 -> Int]) /\ bufpos \in 0 .. Size - 1
      /\ i \in 0 .. nsamples /\ nsamples \in Nat
  BY DEF RInv, Loop, Slots
<1>7. Len(out') = Len(out) + 1 /\ out' \in Seq([0 .. SampleSize - 1 -> Int])
  BY <1>1, <1>5, <1>6
<1>8. Loop'
  BY <1>1, <1>3, <1>6, <1>7 DEF Loop, RInv, Slots
<1>9. Aligned'
  <2>1. PICK k \in Nat : bufpos = k * SampleSize
    BY DEF RInv, Aligned
  <2>2. 0 * SampleSize = 0 /\ (k + 1) * SampleSize = bufpos + SampleSize
    BY <1>3, <2>1, Successor
  <2>3. bufpos' = 0 * SampleSize \/ bufpos' = (k + 1) * SampleSize
    BY <1>1, <2>2
  <2>4. 0 \in Nat /\ k + 1 \in Nat
    OBVIOUS
  <2> QED
    BY <2>3, <2>4, Zenon DEF Aligned
<1>10. USub(front, back) = held /\ bufpos = Ahead(rptr, done)
  BY <1>1 DEF RInv, ReaderInStep
<1> HIDE DEF done, held
<1>11. ReaderInStep'
  <2>1. rptr \in 0 .. Size - 1
    BY DEF RInv, BInv, BufferTypeOK, Slots
  <2>2. bufpos' = Ahead(rptr, done + SampleSize)
    <3>1. done + SampleSize <= Size
      BY <1>2, <1>3
    <3>2. bufpos' = IF bufpos + SampleSize >= Size THEN 0 ELSE bufpos + SampleSize
      BY <1>1
    <3> QED
      BY <1>3, <1>6, <1>10, <2>1, <3>1, <3>2 DEF Ahead
  <2>3. (Unread' = Unread) /\ rptr' = rptr
    BY <1>1 DEF Unread, bufferVars, kernel
  <2> QED
    BY <1>1, <1>2, <1>10, <2>2, <2>3 DEF ReaderInStep, Ahead, USub
<1>12. Printed'
  <2>1. read' = read /\ read \in Nat
    BY <1>1 DEF bufferVars, kernel, RInv, BInv, BufferTypeOK
  <2>2. Len(out') * SampleSize = read + (done + SampleSize)
    <3>1. Len(out') * SampleSize = Len(out) * SampleSize + SampleSize
      BY <1>2, <1>7
    <3> QED
      BY <1>2, <1>3, <2>1, <3>1
  <2> QED
    BY <1>1, <1>2, <2>1, <2>2 DEF Printed, InHand
<1> QED
  BY <1>4, <1>8, <1>9, <1>11, <1>12 DEF RInv

\* The kernel's read offset catches up with the position.
LEMMA MarkStepKeeps == RInv /\ Mark => RInv'
<1> SUFFICES ASSUME RInv, Mark PROVE RInv'
  OBVIOUS
<1> DEFINE held == nsamples * SampleSize
<1>1. pc = "print" /\ i = nsamples /\ mark_buffer_read(USub(front, back))
      /\ back' = front /\ pc' = "poll"
      /\ UNCHANGED <<front, bufpos, nsamples, i, out>>
  BY DEF Mark
<1>2. USub(front, back) = held /\ held <= Unread /\ bufpos = Ahead(rptr, held)
      /\ Len(out) * SampleSize = read + held
  BY <1>1 DEF RInv, ReaderInStep, Printed, InHand
<1>3. MarkedRead(USub(front, back)) = held
  BY <1>2 DEF MarkedRead
<1>4. read' = read + held /\ rptr' = bufpos /\ dir' = "in"
  BY <1>1, <1>2, <1>3 DEF mark_buffer_read, Leave, RInv
<1>5. BInv'
  BY LoopIsAProgram, BufferStep DEF Next, ReaderStep, RInv
<1>6. Loop' /\ Aligned'
  BY <1>1 DEF RInv, Loop, Aligned
<1>7. ReaderInStep' /\ Printed'
  BY <1>1, <1>2, <1>4, InRound DEF ReaderInStep, Printed, InHand, RInv, BInv, BufferTypeOK
<1> QED
  BY <1>4, <1>5, <1>6, <1>7 DEF RInv

\* What the device adds is beyond what the round is about.
LEMMA DeliverStep == RInv /\ Deliver => RInv'
<1> SUFFICES ASSUME RInv, Deliver PROVE RInv'
  OBVIOUS
<1>1. BInv'
  BY LoopIsAProgram, BufferStep DEF Next, RInv
<1>2. /\ UNCHANGED <<dir, read, rptr, pc, front, back, bufpos, nsamples, i, out>>
      /\ written' >= written
  BY DEF Deliver, DeviceDelivers, Enter, reader, RInv, BInv, BufferTypeOK
<1>3. Unread' >= Unread /\ Unread \in Int /\ Unread' \in Int
  <2>1. written \in Nat /\ read \in Nat /\ written' \in Nat
    BY <1>1 DEF RInv, BInv, BufferTypeOK
  <2>2. written' - read >= written - read
    BY <1>2, <2>1, Later
  <2>3. Unread = written - read /\ Unread' = written' - read
    BY <1>2 DEF Unread
  <2>4. Unread \in Int /\ Unread' \in Int
    BY <2>1, <2>3
  <2> QED
    BY <2>2, <2>3, <2>4, Zenon
<1>4. nsamples * SampleSize \in Nat
  BY InRound
<1> QED
  BY <1>1, <1>2, <1>3, <1>4 DEF RInv, Loop, ReaderInStep, Ahead, USub, Aligned, Printed, InHand

\* A call that failed ends the loop and leaves the stream as it is.
LEMMA FailStep == RInv /\ (PollFails \/ MarkFails \/ UNCHANGED vars) => RInv'
<1> SUFFICES ASSUME RInv, PollFails \/ MarkFails \/ UNCHANGED vars PROVE RInv'
  OBVIOUS
<1>1. BInv'
  BY LoopIsAProgram, BufferStep DEF Next, ReaderStep, RInv
<1>2. UNCHANGED kernel /\ UNCHANGED <<front, back, bufpos, nsamples, i, out>>
      /\ (pc' = "exit" \/ pc' = pc)
  BY DEF PollFails, MarkFails, ContentsFails, MarkReadFails, vars, bufferVars, reader
<1> QED
  BY <1>1, <1>2 DEF RInv, Loop, ReaderInStep, Ahead, USub, Unread, Aligned, Printed, InHand, kernel

\* Every step of the loop and of the device keeps the invariant.
LEMMA RStep == RInv /\ [Next]_vars => RInv'
  BY PollStep, PrintStep, MarkStepKeeps, DeliverStep, FailStep DEF Next, ReaderStep

\* The position the loop of demo/mmap.c keeps for itself is always the
\* kernel's read offset plus what it has printed and not yet marked.
THEOREM InStep == Spec => [](TypeOK /\ ReaderInStep)
<1>1. RInv => TypeOK /\ ReaderInStep
  BY DEF RInv, BInv, Loop, TypeOK
<1> QED
  BY RInit, RStep, <1>1, PTL DEF Spec

\* comedi_mark_buffer_read grants the loop all it asks for.
THEOREM Granted == Spec => MarkedInFull
<1>1. RInv /\ [Next]_vars => (pc = "print" /\ pc' = "poll" => read' = read + nsamples * SampleSize)
  <2> SUFFICES ASSUME RInv, [Next]_vars, pc = "print", pc' = "poll"
               PROVE  read' = read + nsamples * SampleSize
    OBVIOUS
  <2>1. Mark
    BY DEF Next, ReaderStep, Deliver, Poll, PollFails, PrintSample, MarkFails, vars, reader
  <2>2. USub(front, back) = nsamples * SampleSize /\ nsamples * SampleSize <= Unread
    BY DEF RInv, ReaderInStep
  <2> QED
    BY <2>1, <2>2 DEF Mark, mark_buffer_read, MarkedRead, Leave
<1> QED
  BY RInit, RStep, <1>1, PTL DEF Spec, MarkedInFull

\* Printing a sample and delivering bytes are the steps of the promise; the
\* others are steps of neither.
LEMMA StepRefines == RInv /\ [Next]_vars => [Stream!Next]_(Stream!vars)
<1> SUFFICES ASSUME RInv, [Next]_vars PROVE [Stream!Next]_(Stream!vars)
  OBVIOUS
<1>1. CASE PrintSample
  BY <1>1, NextSample DEF PrintSample, bufferVars, kernel, Stream!Next, Stream!Deliver
<1>2. CASE Deliver
  <2>1. PICK n \in 1 .. Size : DeviceDelivers(n)
    BY <1>2 DEF Deliver
  <2>2. written \in Nat /\ out' = out
    BY <1>2 DEF RInv, BInv, BufferTypeOK, Deliver, reader
  <2>3. CASE written' = written
    BY <2>2, <2>3 DEF Stream!vars
  <2>4. CASE written' = written + n
    <3>1. n \in 1 .. Total - written
      BY <2>1, <2>2 DEF DeviceDelivers
    <3> QED
      BY <2>2, <2>4, <3>1 DEF Stream!Next, Stream!Produce
  <2> QED
    BY <2>1, <2>3, <2>4 DEF DeviceDelivers, Enter
<1>3. CASE Poll \/ PollFails \/ Mark \/ MarkFails \/ UNCHANGED vars
  BY <1>3 DEF Poll, PollFails, Mark, MarkFails, ContentsFails, MarkReadFails, mark_buffer_read,
              bufferVars, kernel, vars, reader, Stream!vars
<1> QED
  BY <1>1, <1>2, <1>3 DEF Next, ReaderStep

\* The loop hands over the stream sample by sample, each whole, none lost,
\* repeated, out of order or before it was there.
THEOREM Implements == Spec => StreamSpec
<1>1. Init => Stream!Init
  BY DEF Init, BufferInit, KernelInit, Stream!Init
<1>2. RInv /\ [Next]_vars => [Stream!Next]_(Stream!vars)
  BY StepRefines
<1> QED
  BY RInit, RStep, <1>1, <1>2, PTL DEF Spec, StreamSpec, Stream!Spec
================================================================================
