-------------------------- MODULE StreamInput_proofs --------------------------
(***************************************************************************)
(* Streaming input, by the loop of demo/mmap.c or by one of the programs   *)
(* that call read(2), for every size of the buffer, the reads, the card's  *)
(* fifo and a sample, and every number of channels: what is printed is     *)
(* what the device delivered, in its column, and all of it at the end.     *)
(***************************************************************************)
EXTENDS MCStreamInput, MmapReader_proofs

-----------------------------------------------------------------------------
(***************************************************************************)
(* Whole samples.                                                          *)
(***************************************************************************)

\* n bytes are whole samples.
WholeSamples(n) == \E k \in Nat : n = k * SampleSize

\* A sample has a size.
LEMMA SampleKind == SampleSize \in Nat /\ SampleSize > 0
  BY SizeAssumption, SampleSizeAssumption

\* Multiples of the size are whole samples.
LEMMA NoRemainder ==
  ASSUME NEW n \in Nat, n % SampleSize = 0
  PROVE  WholeSamples(n)
<1> DEFINE k == n \div SampleSize
<1>1. k \in Nat /\ n % SampleSize = n - k * SampleSize
  BY SampleKind, DivMod
<1> HIDE DEF k
<1>2. k * SampleSize \in Nat
  BY <1>1, SampleKind, Successor
<1>3. n = k * SampleSize
  BY <1>1, <1>2
<1> QED
  BY <1>1, <1>3 DEF WholeSamples

\* Their number is the quotient.
LEMMA HowMany ==
  ASSUME NEW n \in Nat, WholeSamples(n)
  PROVE  n \div SampleSize \in Nat /\ (n \div SampleSize) * SampleSize = n
<1>1. PICK k \in Nat : n = k * SampleSize
  BY DEF WholeSamples
<1>2. ASSUME NEW s \in Nat, s > 0 PROVE (k * s) \div s = k
  BY <1>2, Z3
<1>3. n \div SampleSize = k
  BY <1>1, <1>2, SampleKind
<1> QED
  BY <1>1, <1>3

\* None, one more, together, and apart.
LEMMA WholeArithmetic ==
  /\ WholeSamples(0) /\ WholeSamples(SampleSize)
  /\ \A a, b \in Nat : WholeSamples(a) /\ WholeSamples(b) =>
       /\ WholeSamples(a + b)
       /\ a <= b => WholeSamples(b - a)
       /\ a < b => a + SampleSize <= b
<1>1. WholeSamples(0) /\ WholeSamples(SampleSize)
  <2>1. 0 = 0 * SampleSize /\ SampleSize = 1 * SampleSize
    BY SampleKind
  <2> QED
    BY <2>1 DEF WholeSamples
<1>2. ASSUME NEW a \in Nat, NEW b \in Nat, WholeSamples(a), WholeSamples(b)
      PROVE  /\ WholeSamples(a + b)
             /\ a <= b => WholeSamples(b - a)
             /\ a < b => a + SampleSize <= b
  <2>1. PICK k \in Nat, l \in Nat : a = k * SampleSize /\ b = l * SampleSize
    BY <1>2 DEF WholeSamples
  <2>2. a + b = (k + l) * SampleSize /\ k + l \in Nat
    BY <2>1, SampleKind
  <2>3. ASSUME a < b PROVE a + SampleSize <= b
    BY <2>1, <2>3, SampleKind, NextMultiple
  <2>4. ASSUME a <= b PROVE WholeSamples(b - a)
    <3>1. k <= l
      <4>1. ASSUME l < k PROVE FALSE
        <5>1. (l + 1) * SampleSize <= k * SampleSize
          BY <4>1, SampleKind, Monotone
        <5>2. (l + 1) * SampleSize = b + SampleSize
          BY <2>1, SampleKind, Successor
        <5> QED
          BY <2>1, <2>4, <5>1, <5>2, SampleKind
      <4> QED
        BY <4>1
    <3>2. b - a = (l - k) * SampleSize /\ l - k \in Nat
      BY <2>1, <3>1, SampleKind
    <3> QED
      BY <3>2 DEF WholeSamples
  <2>5. WholeSamples(a + b)
    BY <2>2 DEF WholeSamples
  <2> QED
    BY <2>3, <2>4, <2>5
<1> QED
  BY <1>1, <1>2

\* The column after column n % m is column (n + 1) % m.
LEMMA NextRemainder ==
  ASSUME NEW n \in Nat, NEW m \in Nat, m > 0
  PROVE  /\ n % m \in 0 .. m - 1
         /\ (n + 1) % m = IF (n % m) + 1 = m THEN 0 ELSE (n % m) + 1
<1> DEFINE k == n \div m
<1> DEFINE r == n % m
<1>1. k \in Nat /\ r \in 0 .. m - 1 /\ r = n - k * m
  BY DivMod
<1> HIDE DEF k, r
<1>2. k * m \in Nat /\ (k + 1) * m = k * m + m /\ n = k * m + r
  BY <1>1, Successor
<1>3. ASSUME NEW l \in Nat, NEW q \in 0 .. m - 1 PROVE (l * m + q) % m = q
  <2>1. (l * m + q) \div m = l
    BY Z3
  <2>2. l * m \in Nat
    OBVIOUS
  <2>3. (l * m + q) % m = (l * m + q) - l * m
    <3>1. l * m + q \in Nat
      BY <2>2
    <3>2. (l * m + q) % m = (l * m + q) - ((l * m + q) \div m) * m
      BY <3>1, DivMod
    <3> QED
      BY <2>1, <3>2
  <2> QED
    BY <2>2, <2>3
<1>4. CASE r + 1 = m
  <2>1. n + 1 = (k + 1) * m + 0
    BY <1>1, <1>2, <1>4
  <2>2. ((k + 1) * m + 0) % m = 0
    BY <1>1, <1>3
  <2> QED
    BY <1>1, <1>4, <2>1, <2>2 DEF r
<1>5. CASE r + 1 # m
  <2>1. n + 1 = k * m + (r + 1) /\ r + 1 \in 0 .. m - 1
    BY <1>1, <1>2, <1>5
  <2>2. (k * m + (r + 1)) % m = r + 1
    BY <1>1, <1>3, <2>1
  <2> QED
    BY <1>1, <1>5, <2>1, <2>2 DEF r
<1> QED
  BY <1>4, <1>5

-----------------------------------------------------------------------------
(***************************************************************************)
(* The programs that call read(2).                                         *)
(***************************************************************************)
Places == {"choose", "prepare", "test1", "test2", "subdevice", "command", "wait", "read", "print", "exit"}

\* From the command to its start: a command the last test passed is complete,
\* and nobody gets to comedi_command but on the file's own subdevice.
SetupInv ==
  /\ prog \in R!Programs /\ at \in Places
  /\ prepared \in BOOLEAN /\ valid \in BOOLEAN /\ ours \in BOOLEAN
  /\ valid => prepared
  /\ at \in {"choose", "prepare"} => ~valid
  /\ prog = R!CountingC => at \notin {"prepare", "test1", "subdevice"}
  /\ prog = R!CountingC /\ at = "test2" => ours
  /\ at = "command" => ours
  /\ at \in {"wait", "read", "print"} => ours /\ valid

\* The card, the buffer and the reader move whole samples.
CardInv ==
  /\ fifo \in 0 .. FifoSize /\ dir = "in"
  /\ WholeSamples(fifo) /\ WholeSamples(written) /\ WholeSamples(read)

\* What was read is what was printed and what is at hand: the stream, sample
\* by sample, in columns.
OutInv ==
  /\ chunk \in Seq([0 .. SampleSize - 1 -> Int]) /\ out \in Seq([0 .. SampleSize - 1 -> Int])
  /\ IF prog.prints = "none" THEN out = << >> /\ chunk = << >>
     ELSE (Len(out) + Len(chunk)) * SampleSize = read
  /\ \A k \in 1 .. Len(chunk) : chunk[k] = Stream!Sample(Len(out) + k - 1)
  /\ chunk # << >> => at = "print"
  /\ col = IF prog.prints = "columns" THEN Len(out) % NChan ELSE 0

\* A program that leaves at the end of the stream has read it all, and what
\* select() promised is still there at the read.
EndInv ==
  /\ why \in {"none", "setup", "error", "end", "EINTR"}
  /\ why # "none" => at = "exit"
  /\ why = "end" => read = Total
  /\ prog.wait \in {"select", "poll"} /\ at = "read" =>
       Unread > 0 \/ Broken \/ (prog.cmd.stop = "COUNT" /\ written = Total)

ReadInv == BInv /\ SetupInv /\ CardInv /\ OutInv /\ EndInv

\* The card's driver is a device to the buffer.
LEMMA DrainDelivers ==
  ASSUME CardInv, R!Drain
  PROVE  /\ fifo \in 1 .. Size /\ DeviceDelivers(fifo) /\ fifo' = 0
         /\ written + fifo <= Total
         /\ written' = written \/ written' = written + fifo
         /\ UNCHANGED <<read, rptr, dir, rcount>>
<1>1. fifo \in 1 .. Size
  BY ReadAssumption, SizeAssumption DEF R!Parameters, R!Drain, CardInv
<1>2. DeviceDelivers(fifo)
  BY DEF R!Drain, R!DeviceDelivers, DeviceDelivers, R!Space, Space, R!Unread, Unread, R!Stored, Stored,
         R!Slots, Slots, R!Distance, Distance, R!Enter, Enter, R!UAdd, UAdd, R!Ahead, Ahead
<1> QED
  BY <1>1, <1>2 DEF R!Drain, DeviceDelivers, Enter

\* Which steps there are for the stream, and what they leave alone.
LEMMA ReadSteps ==
  ASSUME R!Next
  PROVE  \/ R!Start /\ UNCHANGED <<bufferVars, prog, fifo, chunk, col, out>>
         \/ /\ R!Acquire /\ at \in {"wait", "read", "print"}
            /\ UNCHANGED <<bufferVars, prog, at, prepared, valid, ours, chunk, col, out, why>>
         \/ /\ R!Drain /\ at \in {"wait", "read", "print"}
            /\ UNCHANGED <<prog, at, prepared, valid, ours, chunk, col, out, why>>
         \/ R!Select /\ UNCHANGED <<bufferVars, prog, prepared, valid, ours, fifo, chunk, col, out, why>>
         \/ UNCHANGED <<bufferVars, fifo, prog, at, prepared, valid, ours, chunk, col, out, why>>
         \/ R!ReadData /\ UNCHANGED <<prog, prepared, valid, ours, fifo, col, out, why>>
         \/ /\ R!ReadError \/ R!ReadNothing \/ R!ReadInterrupted
            /\ UNCHANGED <<bufferVars, prog, prepared, valid, ours, fifo, chunk, col, out>>
         \/ R!PrintSample /\ UNCHANGED <<bufferVars, prog, at, prepared, valid, ours, fifo, why>>
         \/ R!ChunkDone /\ UNCHANGED <<bufferVars, prog, prepared, valid, ours, fifo, chunk, col, out, why>>
<1>1. CASE R!Start
  BY <1>1 DEF R!Start, R!CheckSubdevice, R!Choose, R!Prepare, R!Test1, R!Test2, R!SetReadSubdevice,
              R!Command, R!setup, R!bufferVars, bufferVars, R!kernel, kernel
<1>2. CASE R!Acquire
  BY <1>2 DEF R!Acquire, R!InLoop, R!unprogrammed, R!bufferVars, bufferVars, R!kernel, kernel
<1>3. CASE R!Interrupt
  BY <1>3 DEF R!Interrupt, R!InLoop, R!unprogrammed
<1>4. CASE R!Timeout
  BY <1>4 DEF R!Timeout, R!unprogrammed, R!bufferVars, bufferVars, R!kernel, kernel
<1>5. CASE R!Select \/ R!ChunkDone
  BY <1>5 DEF R!Select, R!ChunkDone, R!Goto, R!kept, R!shown, R!bufferVars, bufferVars, R!kernel, kernel
<1>6. CASE R!ReadData
  BY <1>6 DEF R!ReadData, R!Goto, R!kept
<1>7. CASE R!ReadError \/ R!ReadNothing \/ R!ReadInterrupted
  BY <1>7 DEF R!ReadError, R!ReadNothing, R!ReadInterrupted, R!kept, R!shown, R!bufferVars, bufferVars,
              R!kernel, kernel
<1>8. CASE R!PrintSample
  BY <1>8 DEF R!PrintSample, R!kept, R!bufferVars, bufferVars, R!kernel, kernel
<1> QED
  BY <1>1, <1>2, <1>3, <1>4, <1>5, <1>6, <1>7, <1>8 DEF R!Next, R!ProgramStep, R!Loop

\* A read moves whole samples, no more than there are.
LEMMA ReadMoves ==
  ASSUME BInv, CardInv, R!ReadData
  PROVE  /\ R!Moved \in Nat /\ R!Moved <= Unread /\ WholeSamples(R!Moved)
         /\ Leave(R!Moved) /\ read' = read + R!Moved
         /\ UNCHANGED <<dir, ring, written, wcount, wptr, status, errno>>
<1>1. /\ Unread \in Nat /\ written \in Nat /\ read \in Nat /\ Unread = written - read
      /\ WholeSamples(written) /\ WholeSamples(read)
  BY DEF BInv, ContentsExact, BufferTypeOK, CardInv, Unread
<1>2. ReadSize \in Nat /\ WholeSamples(ReadSize)
  BY ReadAssumption, NoRemainder DEF R!Parameters
<1>3. WholeSamples(Unread)
  BY <1>1, WholeArithmetic
<1>4. R!Moved = IF Unread < ReadSize THEN Unread ELSE ReadSize
  BY DEF R!Moved, R!Unread, Unread
<1>5. R!Moved \in Nat /\ R!Moved <= Unread /\ WholeSamples(R!Moved)
  BY <1>1, <1>2, <1>3, <1>4
<1>6. Leave(R!Moved)
  BY DEF R!ReadData, R!Leave, Leave, R!UAdd, UAdd, R!Ahead, Ahead
<1> QED
  BY <1>5, <1>6 DEF R!ReadData, Leave

\* The buffer stays sound.
LEMMA ReadBuffer ==
  ASSUME BInv, CardInv, R!Next
  PROVE  BInv'
<1>1. CASE UNCHANGED bufferVars
  BY <1>1, BufferStep
<1>2. CASE R!Drain
  BY <1>2, DrainDelivers, BufferStep DEF BufferNext, DeviceStep
<1>3. CASE R!ReadData
  BY <1>3, ReadMoves, LeaveKeeps
<1> QED
  BY <1>1, <1>2, <1>3, ReadSteps

\* So do the card, the buffer and the reader with their whole samples.
LEMMA ReadCard ==
  ASSUME BInv, CardInv, R!Next
  PROVE  CardInv'
<1>1. /\ written \in Nat /\ read \in Nat /\ fifo \in Nat /\ Total \in Nat
      /\ WholeSamples(written) /\ WholeSamples(read) /\ WholeSamples(fifo) /\ fifo <= FifoSize
      /\ FifoSize \in Nat /\ WholeSamples(FifoSize) /\ dir = "in"
  <2>1. FifoSize \in Nat /\ WholeSamples(FifoSize)
    BY ReadAssumption, NoRemainder, SizeAssumption DEF R!Parameters
  <2> QED
    BY <2>1, ReadAssumption, TotalAssumption DEF BInv, BufferTypeOK, CardInv, R!Parameters
<1>2. CASE UNCHANGED <<bufferVars, fifo>>
  BY <1>1, <1>2 DEF bufferVars, kernel, CardInv
<1>3. CASE R!Acquire
  <2>1. fifo < FifoSize /\ fifo' = fifo + SampleSize /\ UNCHANGED <<dir, written, read>>
    BY <1>3 DEF R!Acquire, R!bufferVars, R!kernel
  <2>2. WholeSamples(fifo + SampleSize) /\ fifo + SampleSize <= FifoSize
    BY <1>1, <2>1, SampleKind, WholeArithmetic
  <2> QED
    BY <1>1, <2>1, <2>2, SampleKind DEF CardInv
<1>4. CASE R!Drain
  <2>1. WholeSamples(written + fifo) /\ WholeSamples(0)
    BY <1>1, WholeArithmetic
  <2> QED
    BY <1>1, <1>4, <2>1, DrainDelivers DEF CardInv
<1>5. CASE R!ReadData
  <2>1. WholeSamples(read + R!Moved)
    BY <1>1, <1>5, ReadMoves, WholeArithmetic
  <2>2. fifo' = fifo
    BY <1>5 DEF R!ReadData
  <2> QED
    BY <1>1, <1>5, <2>1, <2>2, ReadMoves DEF CardInv
<1> QED
  BY <1>2, <1>3, <1>4, <1>5, ReadSteps

\* cmd.c does not count.
LEMMA NotCounting == R!CmdC # R!CountingC
<1>1. R!CmdC.prints = "columns" /\ R!CountingC.prints = "lines"
  BY DEF R!CmdC, R!CountingC
<1> QED
  BY <1>1

\* The loop is entered with a command that is complete and passed, on the
\* right subdevice, and neither is touched in it.
LEMMA ReadSetup ==
  ASSUME SetupInv, R!Next
  PROVE  SetupInv'
<1> USE DEF SetupInv, Places
<1>1. CASE R!CheckSubdevice
  BY <1>1 DEF R!CheckSubdevice, R!Goto, R!Exit, R!setup
<1>2. CASE R!Choose
  BY <1>2, NotCounting DEF R!Choose, R!Goto, R!Exit, R!setup
<1>3. CASE R!Prepare
  BY <1>3 DEF R!Prepare, R!Goto, R!Exit, R!setup
<1>4. CASE R!Test1
  <2>1. PICK r \in R!Answers : valid' = (r = 0) /\ IF r < 0 THEN R!Exit("setup") ELSE R!Goto("test2")
    BY <1>4 DEF R!Test1
  <2>2. valid' \in BOOLEAN /\ (valid' => prepared)
    BY <2>1 DEF R!Answers
  <2> QED
    BY <1>4, <2>1, <2>2 DEF R!Test1, R!Goto, R!Exit, R!setup
<1>5. CASE R!Test2
  <2>1. PICK r \in R!Answers :
          /\ valid' = (r = 0)
          /\ IF r < 0 \/ (r # 0 /\ prog.insists) THEN R!Exit("setup")
             ELSE R!Goto(IF prog = R!CountingC THEN "command" ELSE "subdevice")
    BY <1>5 DEF R!Test2
  <2>2. valid' \in BOOLEAN /\ (valid' => prepared)
    BY <2>1 DEF R!Answers
  <2>3. at' \in {"exit", IF prog = R!CountingC THEN "command" ELSE "subdevice"}
    BY <2>1 DEF R!Goto, R!Exit
  <2> QED
    BY <1>5, <2>2, <2>3 DEF R!Test2, R!setup
<1>6. CASE R!SetReadSubdevice
  BY <1>6 DEF R!SetReadSubdevice, R!Goto, R!Exit, R!setup
<1>7. CASE R!Command
  BY <1>7 DEF R!Command, R!Goto, R!Exit, R!LoopStart, R!setup
<1>8. CASE UNCHANGED <<prog, at, prepared, valid, ours>>
  BY <1>8
<1>9. CASE /\ \/ R!Select \/ R!ReadData \/ R!ReadError \/ R!ReadNothing \/ R!ReadInterrupted \/ R!ChunkDone
           /\ UNCHANGED <<prog, prepared, valid, ours>>
  BY <1>9 DEF R!Select, R!ReadData, R!ReadError, R!ReadNothing, R!ReadInterrupted, R!ChunkDone, R!Goto,
              R!Exit, R!LoopStart
<1> QED
  BY <1>1, <1>2, <1>3, <1>4, <1>5, <1>6, <1>7, <1>8, <1>9, ReadSteps DEF R!Start

\* What a read moves is, sample by sample, the next of the stream.
LEMMA ReadIsNext ==
  ASSUME BInv, CardInv, OutInv, R!ReadData, prog.prints # "none"
  PROVE  LET n == R!Moved \div SampleSize
         IN  /\ n \in Nat /\ n * SampleSize = R!Moved
             /\ chunk' = [k \in 1 .. n |-> R!SampleAhead(k - 1)]
             /\ Len(out) * SampleSize = read
             /\ \A k \in 0 .. n - 1 : R!SampleAhead(k) = Stream!Sample(Len(out) + k)
<1> DEFINE n == R!Moved \div SampleSize
<1>1. R!Moved \in Nat /\ R!Moved <= Unread /\ WholeSamples(R!Moved)
  BY ReadMoves
<1>2. n \in Nat /\ n * SampleSize = R!Moved
  BY <1>1, HowMany
<1>3. chunk' = [k \in 1 .. n |-> R!SampleAhead(k - 1)]
  BY DEF R!ReadData
<1>4. chunk = << >>
  BY DEF R!ReadData, OutInv
<1>5. Len(out) \in Nat /\ Len(out) * SampleSize = read
  BY <1>4 DEF OutInv
<1> HIDE DEF n
<1>6. ASSUME NEW k \in 0 .. n - 1
      PROVE  R!SampleAhead(k) = Stream!Sample(Len(out) + k)
  <2>1. (k + 1) * SampleSize <= n * SampleSize /\ (k + 1) * SampleSize = k * SampleSize + SampleSize
        /\ k * SampleSize \in Nat
    BY <1>2, SampleKind, Monotone, Successor
  <2>2. (Len(out) + k) * SampleSize = read + k * SampleSize
    <3>1. (Len(out) + k) * SampleSize = Len(out) * SampleSize + k * SampleSize
      BY <1>5, SampleKind
    <3> QED
      BY <1>5, <3>1
  <2> DEFINE done == k * SampleSize
  <2> HIDE DEF done
  <2>3. done \in Nat /\ done + SampleSize <= Unread
    BY <1>1, <1>2, <2>1, SampleKind DEF done, BInv, ContentsExact
  <2>4. ASSUME NEW b \in 0 .. SampleSize - 1
        PROVE  ring[Ahead(rptr, done + b)] = (read + done) + b
    <3>1. done + b \in 0 .. Unread - 1
      BY <2>3, SampleKind DEF BInv, ContentsExact
    <3>2. ring[Ahead(rptr, done + b)] = read + (done + b)
      BY <3>1 DEF BInv, UnreadIntact, CardInv
    <3> QED
      BY <2>3, <3>2 DEF BInv, BufferTypeOK
  <2>5. Stream!Sample(Len(out) + k) = [b \in 0 .. SampleSize - 1 |-> (read + done) + b]
    BY <2>2 DEF Stream!Sample, done
  <2>6. R!SampleAhead(k) = [b \in 0 .. SampleSize - 1 |-> ring[Ahead(rptr, done + b)]]
    BY DEF R!SampleAhead, R!Ahead, Ahead, done
  <2> QED
    BY <2>4, <2>5, <2>6
<1> QED
  BY <1>2, <1>3, <1>5, <1>6 DEF n

\* A sample is one.
LEMMA SampleIs ==
  ASSUME NEW k \in Nat
  PROVE  Stream!Sample(k) \in [0 .. SampleSize - 1 -> Int]
<1>1. k * SampleSize \in Nat
  BY SampleKind, Successor
<1> QED
  BY <1>1 DEF Stream!Sample

\* What is at hand is taken up by a read and handed over sample by sample.
LEMMA ReadOut ==
  ASSUME BInv, SetupInv, CardInv, OutInv, R!Next
  PROVE  OutInv'
<1> DEFINE X == [0 .. SampleSize - 1 -> Int]
<1>1. chunk \in Seq(X) /\ out \in Seq(X) /\ Len(out) \in Nat /\ Len(chunk) \in Nat
  BY DEF OutInv
<1>2. NChan \in Nat /\ NChan > 0
  BY ReadAssumption DEF R!Parameters
<1>3. CASE /\ UNCHANGED <<prog, chunk, col, out, read>>
           /\ chunk # << >> => at' = "print"
  BY <1>3 DEF OutInv
<1>4. CASE R!ReadData /\ UNCHANGED <<prog, out, col>>
  <2>1. CASE prog.prints = "none"
    <3>1. chunk' = << >> /\ out = << >>
      BY <1>4, <2>1 DEF R!ReadData, OutInv
    <3> QED
      BY <1>1, <1>4, <2>1, <3>1 DEF OutInv
  <2>2. CASE prog.prints # "none"
    <3> DEFINE n == R!Moved \div SampleSize
    <3>1. /\ n \in Nat /\ n * SampleSize = R!Moved
          /\ chunk' = [k \in 1 .. n |-> R!SampleAhead(k - 1)]
          /\ Len(out) * SampleSize = read
          /\ \A k \in 0 .. n - 1 : R!SampleAhead(k) = Stream!Sample(Len(out) + k)
      BY <1>4, <2>2, ReadIsNext
    <3> HIDE DEF n
    <3>2. \A k \in 1 .. n : chunk'[k] = Stream!Sample(Len(out) + k - 1)
      <4> TAKE k \in 1 .. n
      <4>1. k - 1 \in 0 .. n - 1 /\ Len(out) + (k - 1) = Len(out) + k - 1
        BY <1>1, <3>1
      <4> QED
        BY <3>1, <4>1
    <3>3. \A k \in 1 .. n : chunk'[k] \in X
      <4> TAKE k \in 1 .. n
      <4>1. Len(out) + k - 1 \in Nat
        BY <1>1, <3>1
      <4> QED
        BY <3>2, <4>1, SampleIs
    <3>4. chunk' \in Seq(X) /\ Len(chunk') = n
      <4>1. chunk' \in [1 .. n -> X]
        BY <3>1, <3>3
      <4> HIDE DEF X
      <4> QED
        BY <3>1, <4>1
    <3>5. (Len(out) + n) * SampleSize = read'
      <4>1. (Len(out) + n) * SampleSize = Len(out) * SampleSize + n * SampleSize
        BY <1>1, <3>1, SampleKind
      <4>2. read' = read + R!Moved
        BY <1>4, ReadMoves
      <4> QED
        BY <3>1, <4>1, <4>2
    <3>6. at' = "print"
      BY <1>4 DEF R!ReadData, R!Goto
    <3> QED
      BY <1>1, <1>4, <2>2, <3>2, <3>4, <3>5, <3>6 DEF OutInv
  <2> QED
    BY <2>1, <2>2
<1>5. CASE R!PrintSample /\ UNCHANGED <<prog, at, read>>
  <2>1. /\ at = "print" /\ chunk # << >>
        /\ out' = Append(out, Head(chunk)) /\ chunk' = Tail(chunk) /\ col' = R!NextColumn
    BY <1>5 DEF R!PrintSample
  <2>2. prog.prints # "none"
    BY <2>1 DEF OutInv
  <2>3. Head(chunk) = chunk[1] /\ chunk[1] \in X /\ Len(chunk) > 0
    BY <1>1, <2>1
  <2>4. /\ out' \in Seq(X) /\ chunk' \in Seq(X)
        /\ Len(out') = Len(out) + 1 /\ Len(chunk') = Len(chunk) - 1
        /\ \A k \in 1 .. Len(chunk') : chunk'[k] = chunk[k + 1]
    BY <1>1, <2>1, <2>3
  <2>5. Len(out') + Len(chunk') = Len(out) + Len(chunk)
    BY <1>1, <2>4
  <2>6. \A k \in 1 .. Len(chunk') : chunk'[k] = Stream!Sample(Len(out') + k - 1)
    <3> TAKE k \in 1 .. Len(chunk')
    <3>1. k + 1 \in 1 .. Len(chunk) /\ Len(out') + k - 1 = Len(out) + (k + 1) - 1
      BY <1>1, <2>4
    <3>2. chunk[k + 1] = Stream!Sample(Len(out) + (k + 1) - 1)
      BY <3>1 DEF OutInv
    <3> QED
      BY <2>4, <3>1, <3>2
  <2>7. col' = IF prog.prints = "columns" THEN Len(out') % NChan ELSE 0
    <3>1. (Len(out) + 1) % NChan = IF (Len(out) % NChan) + 1 = NChan THEN 0 ELSE (Len(out) % NChan) + 1
      BY <1>1, <1>2, NextRemainder
    <3> QED
      BY <2>1, <2>4, <3>1 DEF R!NextColumn, OutInv
  <2> QED
    BY <1>5, <2>1, <2>2, <2>4, <2>5, <2>6, <2>7 DEF OutInv
<1>6. CASE R!Start /\ UNCHANGED <<bufferVars, prog, chunk, col, out>>
  <2>1. at # "print"
    BY <1>6 DEF R!Start, R!CheckSubdevice, R!Choose, R!Prepare, R!Test1, R!Test2, R!SetReadSubdevice, R!Command
  <2> QED
    BY <1>3, <1>6, <2>1 DEF OutInv, bufferVars, kernel
<1>7. CASE /\ R!Select \/ R!ReadError \/ R!ReadNothing \/ R!ReadInterrupted \/ R!ChunkDone
           /\ UNCHANGED <<bufferVars, prog, chunk, col, out>>
  <2>1. chunk = << >>
    BY <1>7 DEF R!Select, R!ReadError, R!ReadNothing, R!ReadInterrupted, R!ChunkDone, OutInv
  <2> QED
    BY <1>3, <1>7, <2>1 DEF bufferVars, kernel
<1>8. CASE R!Drain /\ UNCHANGED <<prog, at, chunk, col, out>>
  BY <1>3, <1>8, DrainDelivers DEF OutInv
<1>9. CASE UNCHANGED <<bufferVars, prog, at, chunk, col, out>>
  BY <1>3, <1>9 DEF OutInv, bufferVars, kernel
<1> QED
  BY <1>4, <1>5, <1>6, <1>7, <1>8, <1>9, ReadSteps DEF bufferVars, kernel

\* Nothing that a program leaves by is there too early: not the end, nor an
\* empty buffer that select() had promised.
LEMMA ReadEnd ==
  ASSUME BInv, SetupInv, CardInv, EndInv, R!Next
  PROVE  EndInv'
<1>1. /\ written \in Nat /\ read \in Nat /\ Total \in Nat /\ Unread = written - read /\ Unread \in 0 .. Size
  BY TotalAssumption DEF BInv, BufferTypeOK, ContentsExact, Unread
<1>2. CASE R!Start /\ UNCHANGED <<bufferVars, prog>>
  <2>1. at' # "read" \/ prog.wait \notin {"select", "poll"}
    BY <1>2 DEF R!Start, R!CheckSubdevice, R!Choose, R!Prepare, R!Test1, R!Test2, R!SetReadSubdevice, R!Command,
                R!Goto, R!Exit, R!LoopStart, R!Nonblocking
  <2>2. at # "exit"
    BY <1>2 DEF R!Start, R!CheckSubdevice, R!Choose, R!Prepare, R!Test1, R!Test2, R!SetReadSubdevice, R!Command
  <2>3. why = "none" /\ (why' = "none" \/ (why' = "setup" /\ at' = "exit"))
    BY <1>2, <2>2 DEF EndInv, R!Start, R!CheckSubdevice, R!Choose, R!Prepare, R!Test1, R!Test2,
                R!SetReadSubdevice, R!Command, R!Goto, R!Exit
  <2> QED
    BY <1>2, <2>1, <2>2, <2>3 DEF EndInv, bufferVars, kernel
<1>3. CASE /\ R!Drain /\ at \in {"wait", "read", "print"}
           /\ UNCHANGED <<prog, at, why>>
  <2>1. /\ written' \in {written, written + fifo} /\ fifo \in 1 .. Size /\ written + fifo <= Total
        /\ read' = read
    BY <1>3, DrainDelivers
  <2>2. Unread' = written' - read'
    BY DEF Unread
  <2>3. status = "running"
    BY <1>3, DrainDelivers DEF DeviceDelivers
  <2>4. why = "none"
    BY <1>3 DEF EndInv
  <2>5. ~Broken /\ written # Total
    BY <1>1, <2>1, <2>3 DEF Broken
  <2>6. prog.wait \in {"select", "poll"} /\ at = "read" => Unread' > 0
    <3>1. prog.wait \in {"select", "poll"} /\ at = "read" => Unread > 0
      BY <2>5 DEF EndInv
    <3>2. written' \in Nat /\ written' >= written
      BY <1>1, <2>1
    <3>3. written - read > 0 => written' - read > 0
      BY <1>1, <3>2, Later
    <3>4. Unread' = written' - read /\ Unread = written - read
      BY <1>1, <2>1, <2>2
    <3> QED
      BY <3>1, <3>3, <3>4
  <2> QED
    BY <1>3, <2>4, <2>6 DEF EndInv
<1>4. CASE R!Select /\ UNCHANGED <<bufferVars, prog, why>>
  BY <1>4 DEF R!Select, R!Goto, R!Unread, Unread, R!Broken, Broken, R!Finished, EndInv, bufferVars, kernel
<1>5. CASE R!ReadData /\ UNCHANGED <<prog, why>>
  BY <1>5 DEF R!ReadData, R!Goto, EndInv
<1>6. CASE (R!ReadError \/ R!ReadNothing \/ R!ReadInterrupted) /\ UNCHANGED <<bufferVars, prog>>
  <2>1. at = "read" /\ Unread = 0 /\ why = "none"
    BY <1>6 DEF R!ReadError, R!ReadNothing, R!ReadInterrupted, R!Unread, Unread, EndInv
  <2>2. \/ why' = "none" /\ at' = "wait"
        \/ why' \in {"error", "EINTR"} /\ at' = "exit"
        \/ why' = "end" /\ at' = "exit" /\ written = Total
    BY <1>6, <2>1 DEF R!ReadError, R!ReadNothing, R!ReadInterrupted, R!Goto, R!Exit, R!Finished, R!Nonblocking,
                R!Broken, Broken, EndInv
  <2> QED
    BY <1>1, <1>6, <2>1, <2>2 DEF EndInv, bufferVars, kernel
<1>7. CASE R!ChunkDone /\ UNCHANGED <<bufferVars, prog, why>>
  BY <1>7 DEF R!ChunkDone, R!Goto, R!LoopStart, R!Nonblocking, EndInv
<1>8. CASE UNCHANGED <<bufferVars, prog, at, why>>
  BY <1>8 DEF EndInv, Unread, Broken, bufferVars, kernel
<1> QED
  BY <1>2, <1>3, <1>4, <1>5, <1>6, <1>7, <1>8, ReadSteps

\* What the runs ask of these programs follows.
LEMMA ReadMeans ==
  ASSUME ReadInv
  PROVE  /\ R!TypeOK /\ R!ReadsItsCommand /\ R!ColumnIsChannel /\ R!EndsComplete
<1>1. R!BufferTypeOK
  BY DEF ReadInv, BInv, BufferTypeOK, R!BufferTypeOK, Slots, R!Slots
<1>2. NChan \in Nat /\ NChan > 0 /\ Len(out) \in Nat
  BY ReadAssumption DEF R!Parameters, ReadInv, OutInv
<1>3. col \in 0 .. NChan - 1
  BY <1>2, NextRemainder DEF ReadInv, OutInv
<1>4. R!TypeOK
  BY <1>1, <1>3 DEF R!TypeOK, ReadInv, SetupInv, CardInv, OutInv, EndInv, Places
<1>5. R!ReadsItsCommand
  BY DEF R!ReadsItsCommand, R!InLoop, ReadInv, SetupInv
<1>6. R!ColumnIsChannel
  BY DEF R!ColumnIsChannel, ReadInv, OutInv
<1>7. R!EndsComplete
  <2>1. ASSUME why = "end", prog.prints # "none" PROVE Len(out) * SampleSize = Total
    <3>1. chunk = << >> /\ read = Total
      BY <2>1 DEF ReadInv, EndInv, OutInv
    <3> QED
      BY <1>2, <2>1, <3>1 DEF ReadInv, OutInv
  <2>2. why # "EAGAIN"
    BY DEF ReadInv, EndInv
  <2> QED
    BY <2>1, <2>2 DEF R!EndsComplete
<1> QED
  BY <1>4, <1>5, <1>6, <1>7

\* And their steps are those of the stream, or none of it.
LEMMA ReadRefines ==
  ASSUME ReadInv, R!Next
  PROVE  [Stream!Next]_(Stream!vars)
<1> USE DEF ReadInv
<1>1. written \in Nat /\ read \in Nat /\ read <= written
  BY DEF BInv, BufferTypeOK, ContentsExact, Unread
<1>2. CASE R!PrintSample /\ UNCHANGED written
  <2>1. /\ chunk # << >> /\ out' = Append(out, Head(chunk))
    BY <1>2 DEF R!PrintSample
  <2>2. /\ chunk \in Seq([0 .. SampleSize - 1 -> Int]) /\ Len(out) \in Nat
        /\ prog.prints # "none" /\ (Len(out) + Len(chunk)) * SampleSize = read
    BY <2>1 DEF OutInv
  <2>3. Head(chunk) = chunk[1] /\ Len(chunk) \in Nat /\ Len(chunk) >= 1
    BY <2>1, <2>2
  <2>4. chunk[1] = Stream!Sample(Len(out))
    <3>1. chunk[1] = Stream!Sample(Len(out) + 1 - 1) /\ Len(out) + 1 - 1 = Len(out)
      BY <2>2, <2>3 DEF OutInv
    <3> QED
      BY <3>1
  <2>5. (Len(out) + 1) * SampleSize <= read
    <3>1. /\ Len(out) + 1 \in Nat /\ Len(out) + Len(chunk) \in Nat
          /\ Len(out) + 1 <= Len(out) + Len(chunk)
      BY <2>2, <2>3
    <3>2. (Len(out) + 1) * SampleSize <= (Len(out) + Len(chunk)) * SampleSize
      BY <3>1, SampleKind, Monotone
    <3> QED
      BY <2>2, <3>2
  <2>6. (Len(out) + 1) * SampleSize <= written
    <3>1. (Len(out) + 1) * SampleSize \in Nat
      BY <2>2, SampleKind, Successor
    <3> QED
      BY <1>1, <2>5, <3>1
  <2> QED
    BY <1>2, <2>1, <2>3, <2>4, <2>6 DEF Stream!Next, Stream!Deliver
<1>3. CASE R!Drain /\ out' = out
  <2>1. fifo \in Nat /\ fifo >= 1 /\ written' \in {written, written + fifo} /\ written + fifo <= Total
    BY <1>3, DrainDelivers, SizeAssumption
  <2>2. CASE written' = written
    BY <1>3, <2>2 DEF Stream!vars
  <2>3. CASE written' = written + fifo
    <3>1. fifo \in 1 .. Total - written
      BY <1>1, <2>1, TotalAssumption
    <3> QED
      BY <1>3, <2>3, <3>1 DEF Stream!Next, Stream!Produce
  <2> QED
    BY <2>1, <2>2, <2>3
<1>4. CASE UNCHANGED <<written, out>>
  BY <1>4 DEF Stream!vars
<1> QED
  BY <1>2, <1>3, <1>4, ReadSteps DEF bufferVars, kernel, R!ReadData

-----------------------------------------------------------------------------
(***************************************************************************)
(* The theorems.                                                           *)
(***************************************************************************)

InputInv ==
  /\ by = "mmap" => RInv
  /\ by # "mmap" => ReadInv /\ by = "read" /\ pc = "exit"

\* A buffer with nothing in it and a program that has not begun.
LEMMA InputInitInv == InputInit => InputInv /\ Stream!Init
<1> SUFFICES ASSUME InputInit PROVE InputInv /\ Stream!Init
  OBVIOUS
<1>1. CASE ByMmap
  BY <1>1, RInit DEF ByMmap, InputInv, Init, BufferInit, KernelInit, Stream!Init
<1>2. CASE ByRead
  <2>1. R!Init /\ by = "read" /\ pc = "exit"
    BY <1>2 DEF ByRead
  <2>2. BufferInit /\ dir = "in"
    BY <2>1 DEF R!Init, BufferInit, R!BufferInit, KernelInit, R!KernelInit, Slots, R!Slots
  <2>3. /\ prog \in R!Programs /\ valid = FALSE /\ ours \in BOOLEAN /\ fifo = 0 /\ chunk = << >>
        /\ col = 0 /\ out = << >> /\ why = "none" /\ prepared \in BOOLEAN
        /\ at = IF prog \in {R!CmdC, R!CountingC} THEN "choose"
                ELSE IF prog = R!Tut3C THEN "prepare" ELSE "test1"
    BY <2>1 DEF R!Init
  <2>4. BInv
    BY <2>2, BufferInitInv
  <2>5. SetupInv
    BY <2>3 DEF SetupInv, Places
  <2>6. CardInv
    BY <2>2, <2>3, WholeArithmetic, ReadAssumption, SizeAssumption
       DEF CardInv, BufferInit, KernelInit, R!Parameters
  <2>7. OutInv
    <3>1. NChan \in Nat /\ NChan > 0 /\ 0 * SampleSize = 0 /\ read = 0
      BY <2>2, ReadAssumption, SampleKind DEF R!Parameters, BufferInit, KernelInit
    <3>2. 0 % NChan = 0
      BY <3>1
    <3>3. Len(out) = 0 /\ Len(chunk) = 0
      BY <2>3
    <3> QED
      BY <2>3, <3>1, <3>2, <3>3 DEF OutInv
  <2>8. EndInv
    BY <2>3 DEF EndInv
  <2> QED
    BY <2>1, <2>2, <2>3, <2>4, <2>5, <2>6, <2>7, <2>8
       DEF InputInv, ReadInv, Stream!Init, BufferInit, KernelInit
<1> QED
  BY <1>1, <1>2 DEF InputInit

\* Steps that read(2) programs take keep what holds of them.
LEMMA ReadKept == ReadInv /\ R!Next => ReadInv'
  BY ReadBuffer, ReadSetup, ReadCard, ReadOut, ReadEnd DEF ReadInv

\* So do those of whichever program runs, and they are steps of the stream.
LEMMA InputNextInv ==
  InputInv /\ [InputNext]_inputVars => InputInv' /\ [Stream!Next]_(Stream!vars)
<1> SUFFICES ASSUME InputInv, [InputNext]_inputVars PROVE InputInv' /\ [Stream!Next]_(Stream!vars)
  OBVIOUS
<1>1. CASE UsesMmap /\ Next
  <2>1. by = "mmap" /\ by' = by /\ RInv
    BY <1>1 DEF UsesMmap, InputInv
  <2> QED
    BY <1>1, <2>1, RStep, StepRefines DEF InputInv
<1>2. CASE UsesRead /\ R!Next
  <2>1. by = "read" /\ by' = by /\ ReadInv /\ pc = "exit" /\ pc' = pc
    BY <1>2 DEF UsesRead, InputInv
  <2> QED
    BY <1>2, <2>1, ReadKept, ReadRefines DEF InputInv
<1>3. CASE UNCHANGED inputVars
  <2>1. /\ UNCHANGED <<dir, ring, written, read, wcount, rcount, wptr, rptr, status, errno>>
        /\ UNCHANGED <<by, prog, at, prepared, valid, ours, fifo, chunk, col, out, why, pc>>
        /\ UNCHANGED vars
    BY <1>3 DEF inputVars, vars, bufferVars, kernel, reader, readers
  <2>2. RInv => RInv'
    BY <2>1, RStep
  <2>3. BInv => BInv'
    BY <2>1, BufferStep DEF vars
  <2>4. ReadInv => ReadInv'
    BY <2>1, <2>3 DEF ReadInv, SetupInv, CardInv, WholeSamples, OutInv, EndInv, Unread, Broken
  <2> QED
    BY <2>1, <2>2, <2>4 DEF InputInv, Stream!vars
<1> QED
  BY <1>1, <1>2, <1>3 DEF InputNext

\* Whichever program runs, what holds of it always holds.
LEMMA InputAlways == InputSpec => []InputInv
<1>1. InputSpec => InputInit /\ [][InputNext]_inputVars
  BY PTL DEF InputSpec
<1> QED
  BY <1>1, InputInitInv, InputNextInv, PTL

\* The programs that stream input keep their variables and the buffer's in
\* their kinds.
THEOREM InputTypes == InputSpec => []InputTypeOK
<1>1. InputInv => InputTypeOK
  BY ReadMeans DEF InputInv, InputTypeOK, RInv, BInv, Loop, TypeOK
<1> QED
  BY <1>1, InputAlways, PTL

\* The programs that call read(2) start only a command that is complete and
\* passed, on the subdevice that read(2) reads; they print each sample in the
\* column of its channel, and have printed the whole stream when they leave
\* at its end.
THEOREM PrintsStream == InputSpec => []PrintsItsStream
<1>1. InputInv => PrintsItsStream
  BY ReadMeans DEF InputInv, PrintsItsStream
<1> QED
  BY <1>1, InputAlways, PTL

\* All of them implement the promise of streaming input: samples are handed
\* over one by one, whole, none lost, repeated, out of order or before it was
\* there.
THEOREM AllImplement == InputSpec => StreamSpec
<1>1. InputSpec => InputInit /\ [][InputNext]_inputVars
  BY PTL DEF InputSpec
<1> QED
  BY <1>1, InputInitInv, InputNextInv, PTL DEF StreamSpec, Stream!Spec
================================================================================
