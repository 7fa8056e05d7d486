------------------------- MODULE StreamOutput_proofs -------------------------
(***************************************************************************)
(* Streaming output, for every buffer size, every width of the counters    *)
(* above it and every size of a chunk: the device plays the waveform or    *)
(* the stream from its beginning, in order and without a gap.              *)
(***************************************************************************)
EXTENDS MCStreamOutput, ComediBuffer_proofs

-----------------------------------------------------------------------------
(***************************************************************************)
(* Offsets as remainders.                                                  *)
(***************************************************************************)

\* The remainder of a number put together from a quotient and a remainder.
LEMMA RemainderOf ==
  ASSUME NEW k \in Nat, NEW s \in Nat \ {0}, NEW r \in 0 .. s - 1
  PROVE  (k * s + r) % s = r /\ k * s \in Nat
<1>1. (k * s + r) \div s = k
  BY Z3
<1>2. k * s \in Nat
  OBVIOUS
<1>3. k * s + r \in Nat
  BY <1>2
<1> DEFINE u == k * s + r
<1>4. u % s = u - (u \div s) * s
  BY <1>3
<1> QED
  BY <1>1, <1>2, <1>4

\* A number is such a sum.
LEMMA QuotientOf ==
  ASSUME NEW u \in Nat, NEW s \in Nat \ {0}
  PROVE  \E k \in Nat : u = k * s + (u % s) /\ k * s \in Nat /\ u % s \in 0 .. s - 1
<1> DEFINE k == u \div s
<1>1. k \in Nat
  BY Z3
<1>2. u % s = u - k * s /\ u % s \in 0 .. s - 1
  OBVIOUS
<1> HIDE DEF k
<1>3. k * s \in Nat /\ u = k * s + (u % s)
  BY <1>1, <1>2
<1> QED
  BY <1>1, <1>2, <1>3

\* Going n bytes ahead of the offset of byte u leads to that of byte u + n.
LEMMA AheadOf ==
  ASSUME NEW u \in Nat, NEW n \in 0 .. Size
  PROVE  Ahead(u % Size, n) = (u + n) % Size /\ Ahead(u % Size, n) \in Slots
<1>1. PICK k \in Nat : u = k * Size + (u % Size) /\ k * Size \in Nat /\ u % Size \in 0 .. Size - 1
  BY SizeAssumption, QuotientOf
<1> DEFINE r == u % Size
<1> HIDE DEF r
<1>2. u = k * Size + r /\ r \in 0 .. Size - 1
  BY <1>1 DEF r
<1> SUFFICES Ahead(r, n) = (u + n) % Size /\ Ahead(r, n) \in Slots
  BY DEF r
<1>3. CASE r + n < Size
  <2>1. r + n \in 0 .. Size - 1 /\ u + n = k * Size + (r + n)
    BY <1>1, <1>2, <1>3, SizeAssumption
  <2>2. (k * Size + (r + n)) % Size = r + n
    BY <2>1, SizeAssumption, RemainderOf
  <2> QED
    BY <1>2, <1>3, SizeAssumption, <2>1, <2>2 DEF Ahead, Slots
<1>4. CASE r + n >= Size
  <2>1. r + n - Size \in 0 .. Size - 1
    BY <1>2, <1>4, SizeAssumption
  <2>2. (k + 1) * Size = k * Size + Size
    BY SizeAssumption
  <2>3. u + n = (k + 1) * Size + (r + n - Size)
    BY <1>1, <1>2, <2>2, SizeAssumption
  <2>4. ((k + 1) * Size + (r + n - Size)) % Size = r + n - Size
    BY <2>1, SizeAssumption, RemainderOf
  <2> QED
    BY <1>4, <2>1, <2>3, <2>4 DEF Ahead, Slots
<1> QED
  BY <1>2, <1>3, <1>4, SizeAssumption DEF r

-----------------------------------------------------------------------------
(***************************************************************************)
(* demo/ao_mmap.c.                                                         *)
(***************************************************************************)

\* One period of the waveform is stored byte by byte before anything is
\* marked, nothing is played before the trigger, and the offset at which the
\* device takes byte n is n modulo the size.
PeriodInv ==
  /\ W!TypeOK
  /\ pc = "waveform" <=> filled < Size
  /\ \A p \in Slots : p < filled => ring[p] = p
  /\ rptr = read % Size
  /\ pc \in {"waveform", "mark"} => written = 0 /\ read = 0
  /\ pc \in {"waveform", "mark", "trigger"} => ~started

\* What the demo and the device do to the buffer are calls any program may
\* make.
LEMMA WriterCalls ==
  ASSUME PeriodInv, W!Next
  PROVE  [BufferNext]_bufferVars
<1>1. Size \in 0 .. CountMod - 1 /\ unmarked \in 0 .. CountMod - 1
  BY SizeAssumption, CountModAssumption DEF PeriodInv, W!TypeOK
<1>2. ASSUME NEW n \in 1 .. Size, W!DeviceTakes(n) PROVE DeviceStep
  <2>1. DeviceTakes(n)
    BY <1>2 DEF W!DeviceTakes, DeviceTakes, W!Unread, Unread, W!Leave, Leave, W!UAdd, UAdd, W!Ahead, Ahead
  <2> QED
    BY <2>1 DEF DeviceStep
<1>3. ASSUME NEW n \in 0 .. CountMod - 1, W!mark_buffer_written(n) PROVE MarkStep
  <2>1. mark_buffer_written(n)
    BY <1>3 DEF W!mark_buffer_written, mark_buffer_written, W!MarkedWritten, MarkedWritten, W!Space, Space,
                W!Unread, Unread, W!Enter, Enter, W!UAdd, UAdd, W!Ahead, Ahead
  <2> QED
    BY <2>1 DEF MarkStep
<1>4. CASE W!Take
  BY <1>2, <1>4 DEF W!Take, BufferNext
<1>5. CASE W!WriteWaveform
  <2>1. filled \in Slots
    BY <1>5, SizeAssumption DEF W!WriteWaveform, PeriodInv, W!TypeOK, Slots
  <2>2. StoreThroughMap(filled, filled)
    BY <1>5 DEF W!WriteWaveform, W!StoreThroughMap, StoreThroughMap
  <2> QED
    BY <2>1, <2>2 DEF StoreStep, BufferNext
<1>6. CASE W!MarkPeriod
  BY <1>1, <1>3, <1>6 DEF W!MarkPeriod, BufferNext
<1>7. CASE W!MarkMore
  BY <1>1, <1>3, <1>7 DEF W!MarkMore, BufferNext
<1>8. CASE W!Trigger \/ W!Poll
  BY <1>8 DEF W!Trigger, W!Poll, W!bufferVars, bufferVars, W!kernel, kernel
<1>9. CASE W!PollFails
  <2>1. ContentsFails
    BY <1>9 DEF W!PollFails, W!ContentsFails, ContentsFails, W!Broken, Broken, W!kernel, kernel
  <2> QED
    BY <2>1 DEF CallFails, BufferNext
<1>10. CASE W!MarkFails
  <2>1. MarkWrittenFails
    BY <1>10 DEF W!MarkFails, W!MarkWrittenFails, MarkWrittenFails, W!Broken, Broken, W!kernel, kernel
  <2> QED
    BY <2>1 DEF CallFails, BufferNext
<1> QED
  BY <1>4, <1>5, <1>6, <1>7, <1>8, <1>9, <1>10 DEF W!Next, W!WriterStep

\* The demo's own variables keep their kinds.
LEMMA WriterTypes ==
  ASSUME BInv, BInv', PeriodInv, W!Next
  PROVE  W!TypeOK'
<1>1. W!BufferTypeOK'
  BY DEF BInv, BufferTypeOK, W!BufferTypeOK, Slots, W!Slots
<1>2. get_buffer_contents \in 0 .. Size
  BY DEF BInv, ContentsExact
<1>3. /\ dir = "out" /\ filled \in 0 .. Size /\ unmarked \in 0 .. Size /\ started \in BOOLEAN
      /\ pc \in {"waveform", "mark", "trigger", "poll", "more", "exit"}
  BY DEF PeriodInv, W!TypeOK
<1> USE DEF W!TypeOK
<1>4. CASE W!Take
  BY <1>1, <1>3, <1>4 DEF W!Take, W!DeviceTakes, W!writer
<1>5. CASE W!WriteWaveform
  BY <1>1, <1>3, <1>5, SizeAssumption DEF W!WriteWaveform, W!StoreThroughMap
<1>6. CASE W!MarkPeriod
  BY <1>1, <1>3, <1>6 DEF W!MarkPeriod, W!mark_buffer_written
<1>7. CASE W!MarkMore
  BY <1>1, <1>3, <1>7 DEF W!MarkMore, W!mark_buffer_written
<1>8. CASE W!Trigger
  BY <1>1, <1>3, <1>8 DEF W!Trigger, W!bufferVars, W!kernel
<1>9. CASE W!Poll
  <2>1. W!get_buffer_contents = get_buffer_contents
    BY DEF W!get_buffer_contents, get_buffer_contents, W!USub, USub
  <2> QED
    BY <1>1, <1>2, <1>3, <1>9, <2>1, SizeAssumption DEF W!Poll, W!bufferVars, W!kernel
<1>10. CASE W!PollFails
  BY <1>1, <1>3, <1>10 DEF W!PollFails, W!ContentsFails, W!kernel
<1>11. CASE W!MarkFails
  BY <1>1, <1>3, <1>11 DEF W!MarkFails, W!MarkWrittenFails, W!kernel
<1> QED
  BY <1>4, <1>5, <1>6, <1>7, <1>8, <1>9, <1>10, <1>11 DEF W!Next, W!WriterStep

\* The period stays in place: only the demo stores, only before it marks.
LEMMA PeriodKept ==
  ASSUME BInv, BInv', PeriodInv, W!Next
  PROVE  PeriodInv'
<1>1. W!TypeOK'
  BY WriterTypes
<1>2. /\ filled \in 0 .. Size /\ unmarked \in 0 .. Size /\ ring \in [Slots -> Int]
      /\ rptr = read % Size /\ read \in Nat /\ written \in Nat /\ Size \in Nat \ {0}
      /\ pc \in {"waveform", "mark", "trigger", "poll", "more", "exit"}
      /\ started \in BOOLEAN
  BY SizeAssumption DEF PeriodInv, W!TypeOK, BInv, BufferTypeOK
<1> USE DEF PeriodInv, Slots
<1>3. CASE W!Take
  <2>1. /\ UNCHANGED <<pc, filled, unmarked, started, ring>> /\ started
        /\ \E n \in 1 .. Size : W!DeviceTakes(n)
    BY <1>3 DEF W!Take, W!writer, W!DeviceTakes
  <2>2. (rptr = read % Size)'
    <3>1. PICK n \in 1 .. Size : W!DeviceTakes(n)
      BY <2>1
    <3>2. CASE UNCHANGED <<read, rptr>>
      BY <1>2, <3>2
    <3>3. CASE read' = read + n /\ rptr' = Ahead(rptr, n)
      <4>1. n \in 0 .. Size /\ read \in Nat
        BY <1>2
      <4>2. Ahead(read % Size, n) = (read + n) % Size
        BY <4>1, AheadOf
      <4> QED
        BY <1>2, <3>3, <4>2
    <3> QED
      BY <3>1, <3>2, <3>3 DEF W!DeviceTakes, W!Leave, W!Ahead, Ahead
  <2> HIDE DEF Slots
  <2> QED
    BY <1>1, <2>1, <2>2
<1>4. CASE W!WriteWaveform
  <2>1. /\ filled < Size /\ filled' = filled + 1 /\ ring' = [ring EXCEPT ![filled] = filled]
        /\ pc = "waveform" /\ pc' = IF filled' = Size THEN "mark" ELSE "waveform"
        /\ UNCHANGED <<read, written, rptr, started>>
    BY <1>4 DEF W!WriteWaveform, W!StoreThroughMap
  <2>2. \A p \in Slots : p < filled' => ring'[p] = p
    BY <1>2, <2>1
  <2> QED
    BY <1>1, <1>2, <2>1, <2>2
<1>5. CASE W!MarkPeriod \/ W!MarkMore
  BY <1>1, <1>2, <1>5 DEF W!MarkPeriod, W!MarkMore, W!mark_buffer_written
<1>6. CASE W!Trigger \/ W!Poll
  BY <1>1, <1>2, <1>6 DEF W!Trigger, W!Poll, W!bufferVars, W!kernel
<1>7. CASE W!PollFails \/ W!MarkFails
  BY <1>1, <1>2, <1>7 DEF W!PollFails, W!ContentsFails, W!MarkFails, W!MarkWrittenFails, W!kernel
<1> QED
  BY <1>3, <1>4, <1>5, <1>6, <1>7 DEF W!Next, W!WriterStep

\* So what is marked and not yet taken is the waveform, from its beginning.
LEMMA PeriodPlays ==
  ASSUME BInv, PeriodInv
  PROVE  W!PlaysPeriod
<1> SUFFICES ASSUME NEW d \in 0 .. Unread - 1
             PROVE  ring[Ahead(rptr, d)] = (read + d) % Size
  BY DEF W!PlaysPeriod, W!Unread, Unread, W!Ahead, Ahead
<1>1. Unread \in 0 .. Size /\ d \in 0 .. Size /\ read \in Nat
  BY SizeAssumption DEF BInv, ContentsExact, BufferTypeOK
<1>2. Ahead(rptr, d) = (read + d) % Size /\ Ahead(rptr, d) \in Slots
  BY <1>1, AheadOf DEF PeriodInv
<1>3. pc # "waveform"
  BY <1>1 DEF PeriodInv, Unread
<1>4. \A p \in Slots : ring[p] = p
  BY <1>3, SizeAssumption DEF PeriodInv, Slots, W!TypeOK
<1> QED
  BY <1>2, <1>4

-----------------------------------------------------------------------------
(***************************************************************************)
(* demo/ao_waveform.c, demo/do_waveform.c and the write test.              *)
(***************************************************************************)

\* What is written is what was generated less what is left of the chunk;
\* nothing is played before the trigger, and a waveform's first chunk is a
\* whole one.
FeedInv ==
  /\ V!TypeOK
  /\ InOrder
  /\ left <= gen /\ written = gen - left
  /\ pc \in {"test1", "test2", "test3", "subdevice", "command", "preload", "trigger", "fill"} => left = 0
  /\ started => pc \in {"fill", "write", "drain", "exit"}
  /\ started \/ read = 0
  /\ V!StartsFilled
  /\ V!Endless =>
       /\ pc # "drain"
       /\ pc \in {"test1", "test2", "test3", "subdevice", "command", "preload"} => gen = 0
       /\ pc = "prewrite" => gen = bufsz /\ left = bufsz
  /\ V!Endless \/ gen <= Total

\* The kinds of what the proofs about these programs count with.
LEMMA FeedKinds ==
  ASSUME BInv, FeedInv
  PROVE  /\ gen \in Nat /\ left \in Nat /\ bufsz \in Nat \ {0} /\ left <= bufsz
         /\ written \in Nat /\ read \in Nat /\ Total \in Nat /\ Size \in Nat \ {0}
         /\ Unread = written - read /\ Space = Size - Unread
         /\ Unread \in 0 .. Size /\ Space \in 0 .. Size
         /\ V!Unread = Unread /\ V!Space = Space
         /\ dir = "out"
  BY SizeAssumption, TotalAssumption, WriteAssumption
     DEF FeedInv, V!TypeOK, V!Parameters, BInv, BufferTypeOK, ContentsExact, Unread, Space, V!Unread, V!Space

\* A write copies on from where the chunk was left, as much as there is room
\* for.
LEMMA WriteEnters ==
  ASSUME BInv, FeedInv, V!Write
  PROVE  LET m == V!Moved(left)
         IN  /\ m \in Nat /\ m <= Space /\ m <= left /\ (m < left => m = Space)
             /\ written' = written + m /\ V!AfterCut(m)
             /\ UNCHANGED <<prog, bufsz, ours, armed, started, dir, read>>
             /\ BInv' /\ InOrder'
<1> DEFINE m == V!Moved(left)
<1>1. m \in Nat /\ m <= Space /\ m <= left /\ (m < left => m = Space)
  BY FeedKinds DEF V!Moved
<1>2. /\ ring' = V!StoredRest(m) /\ V!Enter(m) /\ V!AfterCut(m)
      /\ UNCHANGED <<prog, bufsz, ours, armed, started, dir, read, rcount, rptr, status, errno>>
  BY DEF V!Write, V!fixed
<1> HIDE DEF m
<1>3. Enter(m) /\ written' = written + m
  BY <1>2 DEF V!Enter, Enter, V!UAdd, UAdd, V!Ahead, Ahead
<1>4. ring' = Stored(m)
  BY <1>2 DEF V!StoredRest, Stored, FeedInv, V!Slots, Slots, V!Distance, Distance
<1>5. Stored(m) \in [Slots -> Int]
  BY SizeAssumption DEF Stored, BInv, BufferTypeOK, Slots, Distance
<1>6. BInv'
  BY <1>1, <1>2, <1>3, <1>4, <1>5, EnterKeeps, FeedKinds
<1>7. InOrder'
  <2>1. Unread' \in 0 .. Size
    BY <1>6 DEF BInv, ContentsExact
  <2> QED
    BY <1>1, <1>2, <1>3, <1>4, <2>1, EnterInOrder DEF FeedInv
<1> QED
  BY <1>1, <1>2, <1>3, <1>6, <1>7 DEF m

\* Every other step of the programs and the device is a call any program may
\* make.
LEMMA PlayerCalls ==
  ASSUME BInv, FeedInv, V!Next
  PROVE  BInv'
<1>1. CASE V!Take
  <2>1. PICK n \in 1 .. Size : V!DeviceTakes(n)
    BY <1>1 DEF V!Take
  <2>2. DeviceTakes(n)
    BY <2>1 DEF V!DeviceTakes, DeviceTakes, V!Unread, Unread, V!Leave, Leave, V!UAdd, UAdd, V!Ahead, Ahead
  <2> QED
    BY <2>2, BufferStep DEF BufferNext, DeviceStep
<1>2. CASE V!Preload \/ V!Feed
  BY <1>2, WriteEnters DEF V!Preload, V!Feed
<1>3. CASE \/ V!CommandTest \/ V!SetWriteSubdevice \/ V!Command \/ V!Generate
           \/ V!Trigger \/ V!WriteFails \/ V!Drained
  <2>1. UNCHANGED bufferVars
    BY <1>3 DEF V!CommandTest, V!SetWriteSubdevice, V!Command, V!Generate, V!Trigger, V!WriteFails,
                V!Drained, V!bufferVars, bufferVars, V!kernel, kernel
  <2> QED
    BY <2>1, BufferStep
<1> QED
  BY <1>1, <1>2, <1>3 DEF V!Next, V!PlayerStep

\* The programs' own variables keep their kinds, and what was generated, what
\* was written and what is left keep adding up.
LEMMA FeedKept ==
  ASSUME BInv, BInv', FeedInv, V!Next
  PROVE  FeedInv'
<1>1. V!BufferTypeOK'
  BY DEF BInv, BufferTypeOK, V!BufferTypeOK, Slots, V!Slots
<1>2. /\ prog \in {"ao_waveform", "do_waveform", "test"} /\ bufsz \in BufSizes
      /\ pc \in {"test1", "test2", "test3", "subdevice", "command", "preload", "prewrite",
                 "trigger", "fill", "write", "drain", "exit"}
      /\ ours \in BOOLEAN /\ armed \in BOOLEAN /\ started \in BOOLEAN
  BY DEF FeedInv, V!TypeOK, V!Programs
<1>3. /\ left <= gen /\ written = gen - left /\ InOrder
      /\ pc \in {"test1", "test2", "test3", "subdevice", "command", "preload", "trigger", "fill"} => left = 0
      /\ started => pc \in {"fill", "write", "drain", "exit"}
      /\ started \/ read = 0
      /\ V!StartsFilled
      /\ prog # "test" =>
           /\ pc # "drain"
           /\ pc \in {"test1", "test2", "test3", "subdevice", "command", "preload"} => gen = 0
           /\ pc = "prewrite" => gen = bufsz /\ left = bufsz
      /\ prog # "test" \/ gen <= Total
  BY DEF FeedInv, V!Endless
<1>4. /\ gen \in Nat /\ left \in Nat /\ bufsz \in Nat \ {0} /\ left <= bufsz
      /\ written \in Nat /\ read \in Nat /\ Total \in Nat /\ Size \in Nat \ {0}
      /\ Unread = written - read /\ Space = Size - Unread
      /\ V!Unread = Unread /\ dir = "out"
  BY FeedKinds
<1>5. SUFFICES
        /\ prog' = prog /\ bufsz' = bufsz /\ dir' = dir /\ gen' \in Nat /\ left' \in Nat /\ left' <= bufsz
        /\ pc' \in {"test1", "test2", "test3", "subdevice", "command", "preload", "prewrite",
                    "trigger", "fill", "write", "drain", "exit"}
        /\ ours' \in BOOLEAN /\ armed' \in BOOLEAN /\ started' \in BOOLEAN
        /\ left' <= gen' /\ written' = gen' - left' /\ InOrder'
        /\ pc' \in {"test1", "test2", "test3", "subdevice", "command", "preload", "trigger", "fill"} => left' = 0
        /\ started' => pc' \in {"fill", "write", "drain", "exit"}
        /\ started' \/ read' = 0
        /\ V!StartsFilled'
        /\ prog # "test" =>
             /\ pc' # "drain"
             /\ pc' \in {"test1", "test2", "test3", "subdevice", "command", "preload"} => gen' = 0
             /\ pc' = "prewrite" => gen' = bufsz /\ left' = bufsz
        /\ prog # "test" \/ gen' <= Total
  BY <1>1, <1>2, <1>4 DEF FeedInv, V!TypeOK, V!Programs, V!Endless
<1>6. CASE V!Take
  <2>1. /\ UNCHANGED <<prog, pc, bufsz, ours, armed, started, gen, left, dir, written>> /\ started
        /\ \E n \in 1 .. Size : V!DeviceTakes(n)
    BY <1>6 DEF V!Take, V!player, V!DeviceTakes
  <2>2. PICK n \in 1 .. Size : V!DeviceTakes(n)
    BY <2>1
  <2>3. InOrder'
    <3>1. CASE UNCHANGED <<ring, read, rptr, written>>
      BY <1>3, <3>1 DEF InOrder, Unread, Ahead
    <3>2. CASE Leave(n) /\ n <= Unread /\ UNCHANGED <<ring, written>>
      <4>1. n \in Nat
        BY <1>4
      <4> QED
        BY <1>3, <3>2, <4>1, LeaveInOrder
    <3> QED
      BY <2>2, <3>1, <3>2 DEF V!DeviceTakes, V!Unread, Unread, V!Leave, Leave, V!UAdd, UAdd, V!Ahead, Ahead
  <2>4. pc # "trigger"
    BY <1>3, <2>1
  <2> QED
    BY <1>2, <1>3, <1>4, <2>1, <2>3, <2>4 DEF V!StartsFilled
<1>7. CASE V!CommandTest \/ V!SetWriteSubdevice \/ V!Command
  <2>1. /\ UNCHANGED <<prog, bufsz, started, gen, left, dir, ring, written, read, rptr>>
        /\ pc \in {"test1", "test2", "test3", "subdevice", "command"}
        /\ pc' \in {"test2", "test3", "subdevice", "command", "preload", "exit"}
        /\ ours' \in BOOLEAN /\ armed' \in BOOLEAN
    BY <1>2, <1>7 DEF V!CommandTest, V!SetWriteSubdevice, V!Command, V!Goto, V!fixed, V!data, V!AfterTest,
                      V!Endless, V!bufferVars, V!kernel
  <2>2. InOrder'
    BY <1>3, <2>1 DEF InOrder, Unread, Ahead
  <2> QED
    BY <1>2, <1>3, <1>4, <2>1, <2>2 DEF V!StartsFilled
<1>8. CASE V!Generate
  <2>1. /\ UNCHANGED <<prog, bufsz, ours, armed, started, dir, ring, written, read, rptr>>
        /\ pc \in {"preload", "fill"} /\ pc' = IF pc = "preload" THEN "prewrite" ELSE "write"
        /\ gen < Total /\ gen' = gen + V!Chunk /\ left' = V!Chunk
    BY <1>8 DEF V!Generate, V!Goto, V!fixed, V!bufferVars, V!kernel
  <2>2. /\ V!Chunk \in Nat /\ V!Chunk <= bufsz
        /\ prog # "test" => V!Chunk = bufsz
        /\ prog = "test" => gen + V!Chunk <= Total
    BY <1>4, <2>1 DEF V!Chunk
  <2>3. InOrder'
    BY <1>3, <2>1 DEF InOrder, Unread, Ahead
  <2> HIDE DEF V!Chunk
  <2> QED
    BY <1>2, <1>3, <1>4, <2>1, <2>2, <2>3 DEF V!StartsFilled
<1>9. CASE V!Preload
  <2> DEFINE m == V!Moved(left)
  <2>1. /\ m \in Nat /\ m <= Space /\ m <= left /\ (m < left => m = Space)
        /\ written' = written + m /\ V!AfterCut(m)
        /\ UNCHANGED <<prog, bufsz, ours, armed, started, dir, read>>
        /\ InOrder'
    BY <1>9, WriteEnters DEF V!Preload
  <2>2. /\ pc = "prewrite"
        /\ pc' = IF prog # "test" THEN (IF m < left THEN "exit" ELSE "trigger")
                 ELSE IF m < left \/ gen' = Total THEN "trigger" ELSE "preload"
    BY <1>9 DEF V!Preload, V!Goto, V!Endless, V!CutShort
  <2> HIDE DEF m
  <2>3. IF prog = "test" THEN gen' = gen - (left - m) /\ left' = 0 ELSE gen' = gen /\ left' = left - m
    BY <2>1 DEF V!AfterCut
  <2>4. read = 0 /\ ~started
    BY <1>3, <2>2
  <2>5. V!StartsFilled'
    <3>1. V!Unread' = written'
      BY <1>4, <2>1, <2>4 DEF V!Unread
    <3> SUFFICES ASSUME pc' = "trigger"
                 PROVE  written' = IF prog # "test" THEN bufsz ELSE IF gen' < Total THEN Size ELSE Total
      BY <2>1, <3>1 DEF V!StartsFilled, V!Endless
    <3>2. CASE prog # "test"
      BY <1>3, <1>4, <2>1, <2>2, <2>3, <3>2
    <3>3. CASE prog = "test"
      BY <1>3, <1>4, <2>1, <2>2, <2>3, <2>4, <3>3
    <3> QED
      BY <3>2, <3>3
  <2> QED
    BY <1>2, <1>3, <1>4, <2>1, <2>2, <2>3, <2>4, <2>5
<1>10. CASE V!Trigger
  <2>1. /\ UNCHANGED <<prog, bufsz, ours, armed, gen, left, dir, ring, written, read, rptr>>
        /\ pc = "trigger" /\ started' \in BOOLEAN
        /\ pc' = IF started' THEN (IF prog = "test" /\ gen' = Total THEN "drain" ELSE "fill") ELSE "exit"
    BY <1>10 DEF V!Trigger, V!Goto, V!fixed, V!data, V!NextChunk, V!bufferVars, V!kernel
  <2>2. InOrder'
    BY <1>3, <2>1 DEF InOrder, Unread, Ahead
  <2> QED
    BY <1>2, <1>3, <1>4, <2>1, <2>2 DEF V!StartsFilled
<1>11. CASE V!Feed
  <2> DEFINE m == V!Moved(left)
  <2>1. /\ m \in Nat /\ m <= left
        /\ written' = written + m /\ V!AfterCut(m)
        /\ UNCHANGED <<prog, bufsz, ours, armed, started, dir, read>>
        /\ InOrder'
    BY <1>11, WriteEnters DEF V!Feed
  <2>2. /\ pc = "write"
        /\ pc' = IF left' > 0 THEN "write" ELSE IF prog = "test" /\ gen' = Total THEN "drain" ELSE "fill"
    BY <1>11 DEF V!Feed, V!Goto, V!NextChunk
  <2> HIDE DEF m
  <2>3. IF prog = "test" THEN gen' = gen - (left - m) /\ left' = 0 ELSE gen' = gen /\ left' = left - m
    BY <2>1 DEF V!AfterCut
  <2> QED
    BY <1>2, <1>3, <1>4, <2>1, <2>2, <2>3 DEF V!StartsFilled
<1>12. CASE V!WriteFails \/ V!Drained
  <2>1. /\ UNCHANGED <<prog, bufsz, ours, armed, started, gen, left, dir, ring, written, read, rptr>>
        /\ pc' = IF prog = "test" /\ pc = "write" THEN "drain" ELSE "exit"
        /\ pc \in {"prewrite", "write", "drain"}
    BY <1>12 DEF V!WriteFails, V!Drained, V!Goto, V!fixed, V!data, V!bufferVars, V!kernel
  <2>2. InOrder'
    BY <1>3, <2>1 DEF InOrder, Unread, Ahead
  <2> QED
    BY <1>2, <1>3, <1>4, <2>1, <2>2 DEF V!StartsFilled
<1> QED
  BY <1>6, <1>7, <1>8, <1>9, <1>10, <1>11, <1>12 DEF V!Next, V!PlayerStep

\* What it holds in order, it plays in order.
LEMMA FeedPlays ==
  ASSUME FeedInv
  PROVE  V!PlaysStream /\ V!StartsFilled
  BY DEF FeedInv, InOrder, V!PlaysStream, V!Unread, Unread, V!Ahead, Ahead

-----------------------------------------------------------------------------
(***************************************************************************)
(* The theorems.                                                           *)
(***************************************************************************)

OutputInv ==
  /\ BInv
  /\ by = "mmap" => PeriodInv
  /\ by = "write" => FeedInv

\* An empty buffer and a program that has not begun.
LEMMA OutputInitInv == OutputInit => OutputInv
<1> SUFFICES ASSUME OutputInit PROVE OutputInv
  OBVIOUS
<1>1. BufferInit
  BY DEF OutputInit, W!Init, V!Init, BufferInit, W!BufferInit, V!BufferInit, KernelInit, W!KernelInit,
         V!KernelInit, Slots, W!Slots, V!Slots
<1>2. BInv
  BY <1>1, BufferInitInv
<1>3. written = 0 /\ read = 0 /\ rptr = 0
  BY <1>1 DEF BufferInit, KernelInit
<1>4. ASSUME by = "mmap" PROVE PeriodInv
  <2>1. /\ dir = "out" /\ pc = "waveform" /\ filled = 0 /\ unmarked = 0 /\ started = FALSE
    BY <1>4 DEF OutputInit, W!Init
  <2>2. W!TypeOK
    <3>1. W!BufferTypeOK
      BY <1>2 DEF BInv, BufferTypeOK, W!BufferTypeOK, Slots, W!Slots
    <3>2. started \in BOOLEAN
      BY <2>1, Zenon
    <3> QED
      BY <2>1, <3>1, <3>2, SizeAssumption DEF W!TypeOK
  <2>3. 0 % Size = 0
    BY SizeAssumption
  <2> QED
    BY <1>3, <2>1, <2>2, <2>3, SizeAssumption DEF PeriodInv, Slots
<1>5. ASSUME by = "write" PROVE FeedInv
  <2>1. V!Init
    BY <1>5 DEF OutputInit
  <2>2. bufsz \in Nat \ {0}
    BY <2>1, WriteAssumption DEF V!Init, V!Parameters
  <2>3. V!TypeOK
    <3>1. V!BufferTypeOK
      BY <1>2 DEF BInv, BufferTypeOK, V!BufferTypeOK, Slots, V!Slots
    <3>2. /\ dir = "out" /\ prog \in V!Programs /\ bufsz \in BufSizes
          /\ pc \in {"test1", "subdevice"} /\ ours \in BOOLEAN /\ armed = FALSE /\ started = FALSE
          /\ gen = 0 /\ left = 0
      BY <2>1 DEF V!Init
    <3>3. armed \in BOOLEAN /\ started \in BOOLEAN
      BY <3>2, Zenon
    <3> QED
      BY <2>2, <3>1, <3>2, <3>3 DEF V!TypeOK
  <2>4. InOrder
    BY <1>3 DEF InOrder, Unread
  <2> QED
    BY <1>3, <2>1, <2>2, <2>3, <2>4, TotalAssumption DEF FeedInv, V!Init, V!StartsFilled, V!Endless
<1> QED
  BY <1>2, <1>4, <1>5 DEF OutputInv

\* Every step of the one program that runs.
LEMMA OutputNextInv == OutputInv /\ [OutputNext]_outputVars => OutputInv'
<1> SUFFICES ASSUME OutputInv, [OutputNext]_outputVars PROVE OutputInv'
  OBVIOUS
<1> USE DEF OutputInv
<1>1. CASE UsesMmap /\ W!Next
  <2>1. by = "mmap" /\ by' = by
    BY <1>1 DEF UsesMmap
  <2>2. BInv'
    BY <1>1, <2>1, WriterCalls, BufferStep
  <2> QED
    BY <1>1, <2>1, <2>2, PeriodKept
<1>2. CASE UsesWrite /\ V!Next
  <2>1. by = "write" /\ by' = by
    BY <1>2 DEF UsesWrite
  <2>2. BInv'
    BY <1>2, <2>1, PlayerCalls
  <2> QED
    BY <1>2, <2>1, <2>2, FeedKept
<1>3. CASE AnyCalls /\ BufferNext
  <2>1. by = "any" /\ by' = by
    BY <1>3 DEF AnyCalls
  <2> QED
    BY <1>3, <2>1, BufferStep
<1>4. CASE UNCHANGED outputVars
  <2>1. /\ UNCHANGED <<bufferVars, by, pc, started, filled, unmarked, prog, bufsz, ours, armed, gen, left>>
        /\ UNCHANGED <<dir, ring, written, read, wcount, rcount, wptr, rptr, status, errno>>
    BY <1>4 DEF outputVars, mmapOnly, writeOnly, bufferVars, kernel
  <2>2. BInv'
    BY <2>1, BufferStep
  <2>3. PeriodInv => PeriodInv'
    BY <2>1 DEF PeriodInv, W!TypeOK, W!BufferTypeOK
  <2>4. FeedInv => FeedInv'
    BY <2>1 DEF FeedInv, V!TypeOK, V!BufferTypeOK, V!StartsFilled, V!Endless, V!Unread, InOrder, Unread, Ahead
  <2> QED
    BY <2>1, <2>2, <2>3, <2>4
<1> QED
  BY <1>1, <1>2, <1>3, <1>4 DEF OutputNext

\* Whichever program uses the buffer, what holds of it always holds.
LEMMA OutputAlways == OutputSpec => []OutputInv
<1>1. OutputSpec => OutputInit /\ [][OutputNext]_outputVars
  BY PTL DEF OutputSpec
<1> QED
  BY <1>1, OutputInitInv, OutputNextInv, PTL

\* The programs that stream output keep their variables and the buffer's in
\* their kinds.
THEOREM OutputTypes == OutputSpec => []OutputTypeOK
<1>1. OutputInv => OutputTypeOK
  BY DEF OutputInv, OutputTypeOK, BInv, PeriodInv, FeedInv
<1> QED
  BY <1>1, OutputAlways, PTL

\* comedi_get_buffer_contents is exact while they do, and under any other
\* program, however often the 32-bit counters have wrapped.
THEOREM OutputContents == OutputSpec => []ContentsExact
<1>1. OutputInv => ContentsExact
  BY DEF OutputInv, BInv
<1> QED
  BY <1>1, OutputAlways, PTL

\* The unread bytes stay where the read offset says they are.
THEOREM OutputIntact == OutputSpec => []UnreadIntact
<1>1. OutputInv => UnreadIntact
  BY DEF OutputInv, BInv
<1> QED
  BY <1>1, OutputAlways, PTL

\* The device plays the waveform of demo/ao_mmap.c or the stream of the write
\* programs from its beginning, in order and without a gap, and those trigger
\* only with a whole chunk, a full buffer or the whole stream behind it.
THEOREM OutputPlays == OutputSpec => []PlaysStream
<1>1. OutputInv => PlaysStream
  BY PeriodPlays, FeedPlays DEF OutputInv, PlaysStream
<1> QED
  BY <1>1, OutputAlways, PTL
=============================================================================
