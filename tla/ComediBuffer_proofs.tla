-------------------------- MODULE ComediBuffer_proofs --------------------------
(***************************************************************************)
(* The streaming buffer, for every buffer size and every counter width     *)
(* above it, and whatever program drives it.                               *)
(***************************************************************************)
EXTENDS ComediBuffer, TLAPS

\* The inductive invariant; it is the conjunction of what the runs check.
BInv == BufferTypeOK /\ ContentsExact /\ UnreadIntact

\* It holds of the empty ring.
LEMMA BufferInitInv == BufferInit => BInv
  BY SizeAssumption, CountModAssumption
     DEF BufferInit, KernelInit, BInv, BufferTypeOK, ContentsExact, UnreadIntact,
         get_buffer_contents, USub, Unread, Ahead, Slots

\* The unread bytes lie in stream order from the read offset on.
InOrder == \A d \in 0 .. Unread - 1 : ring[Ahead(rptr, d)] = read + d

\* They stay where they are when the next n of the stream are stored, and the
\* new ones follow them.
LEMMA EnterInOrder ==
  ASSUME BInv, InOrder, NEW n \in Nat, n <= Space, Enter(n), UNCHANGED <<read, rptr>>,
         ring' = Stored(n), Unread' \in 0 .. Size
  PROVE  InOrder'
<1> USE SizeAssumption DEF BInv, BufferTypeOK, Slots, Unread, Space, Enter
<1> SUFFICES ASSUME NEW d \in (0 .. Unread - 1)'
             PROVE  (ring[Ahead(rptr, d)] = read + d)'
  BY DEF InOrder
<1>1. Ahead(rptr, d) \in Slots
  BY DEF Ahead
<1>2. CASE d < Unread
  <2>1. ~(Distance(wptr, Ahead(rptr, d)) < n)
    BY <1>2 DEF Ahead, Distance, UnreadIntact, ContentsExact
  <2>2. ring[Ahead(rptr, d)] = read + d
    BY <1>2 DEF InOrder, ContentsExact
  <2>3. ring'[Ahead(rptr, d)] = ring[Ahead(rptr, d)]
    BY <1>1, <2>1 DEF Stored
  <2>4. Ahead(rptr, d)' = Ahead(rptr, d)
    BY DEF Ahead
  <2> QED
    BY <2>2, <2>3, <2>4
<1>3. CASE d >= Unread
  <2>1. Distance(wptr, Ahead(rptr, d)) = d - Unread
    BY <1>3 DEF Ahead, Distance, UnreadIntact, ContentsExact
  <2> QED
    BY <1>1, <1>3, <2>1 DEF Stored
<1> QED
  BY <1>2, <1>3

\* So they do when the first n of them leave.
LEMMA LeaveInOrder ==
  ASSUME BInv, InOrder, NEW n \in Nat, n <= Unread, Leave(n), UNCHANGED <<ring, written>>
  PROVE  InOrder'
<1> USE SizeAssumption DEF BInv, BufferTypeOK, Slots, Unread, Leave
<1> SUFFICES ASSUME NEW d \in (0 .. Unread - 1)'
             PROVE  (ring[Ahead(rptr, d)] = read + d)'
  BY DEF InOrder
<1>1. Ahead(rptr, d)' = Ahead(rptr, n + d) /\ n + d \in 0 .. Unread - 1
  BY DEF Ahead, ContentsExact
<1> QED
  BY <1>1 DEF InOrder

\* n bytes entering a buffer that has room for them.
LEMMA EnterKeeps ==
  ASSUME BInv, NEW n \in Nat, n <= Space, Enter(n),
         UNCHANGED <<dir, read, rcount, rptr, status, errno>>,
         ring' \in [Slots -> Int], dir = "in" => ring' = Stored(n)
  PROVE  BInv'
<1> USE SizeAssumption, CountModAssumption DEF BInv, BufferTypeOK, Slots, Unread, Space, Enter
<1>1. BufferTypeOK'
  BY DEF UAdd, Ahead, ContentsExact
<1>2. ContentsExact'
  BY DEF ContentsExact, get_buffer_contents, USub, UAdd
<1>3. (wptr = Ahead(rptr, Unread))'
  BY DEF UnreadIntact, ContentsExact, Ahead
<1>4. ASSUME dir = "in" PROVE InOrder'
  <2>1. InOrder
    BY <1>4 DEF UnreadIntact, InOrder
  <2>2. Unread' \in 0 .. Size
    BY <1>2 DEF ContentsExact
  <2> HIDE DEF BInv, Unread, Space, Enter
  <2> QED
    BY <1>4, <2>1, <2>2, EnterInOrder
<1> QED
  BY <1>1, <1>2, <1>3, <1>4 DEF UnreadIntact, InOrder

\* n unread bytes leaving it.
LEMMA LeaveKeeps ==
  ASSUME BInv, NEW n \in Nat, n <= Unread, Leave(n),
         UNCHANGED <<dir, ring, written, wcount, wptr, status, errno>>
  PROVE  BInv'
<1> USE SizeAssumption, CountModAssumption DEF BInv, BufferTypeOK, Slots, Unread, Leave
<1>1. BufferTypeOK'
  BY DEF UAdd, Ahead, ContentsExact
<1>2. ContentsExact'
  BY DEF ContentsExact, get_buffer_contents, USub, UAdd
<1>3. (wptr = Ahead(rptr, Unread))'
  BY DEF UnreadIntact, ContentsExact, Ahead
<1>4. ASSUME dir = "in" PROVE InOrder'
  <2>1. InOrder
    BY <1>4 DEF UnreadIntact, InOrder
  <2> HIDE DEF BInv, Unread, Leave
  <2> QED
    BY <2>1, LeaveInOrder
<1> QED
  BY <1>1, <1>2, <1>3, <1>4 DEF UnreadIntact, InOrder

\* And every step of device or program keeps it.
LEMMA BufferStep == BInv /\ [BufferNext]_bufferVars => BInv'
<1> SUFFICES ASSUME BInv, [BufferNext]_bufferVars PROVE BInv'
  OBVIOUS
<1>0. Unread \in 0 .. Size /\ Space \in 0 .. Size /\ Size \in Nat /\ ring \in [Slots -> Int]
  BY SizeAssumption DEF BInv, BufferTypeOK, ContentsExact, Space, Unread, Slots
<1>1. ASSUME NEW n \in 1 .. Size, DeviceDelivers(n) PROVE BInv'
  <2>1. CASE n <= Space
    <3>1. Stored(n) \in [Slots -> Int]
      BY <1>0, SizeAssumption DEF Stored, BInv, BufferTypeOK, Slots, Distance
    <3> QED
      BY <1>0, <1>1, <2>1, <3>1, EnterKeeps DEF DeviceDelivers
  <2>2. CASE ~(n <= Space)
    BY <1>1, <2>2 DEF DeviceDelivers, BInv, BufferTypeOK, ContentsExact, UnreadIntact,
                      Unread, get_buffer_contents
  <2> QED
    BY <2>1, <2>2
<1>2. ASSUME NEW n \in 1 .. Size, DeviceTakes(n) PROVE BInv'
  <2>1. CASE n <= Unread
    BY <1>0, <1>2, <2>1, LeaveKeeps DEF DeviceTakes
  <2>2. CASE ~(n <= Unread)
    BY <1>2, <2>2 DEF DeviceTakes, BInv, BufferTypeOK, ContentsExact, UnreadIntact,
                      Unread, get_buffer_contents
  <2> QED
    BY <2>1, <2>2
<1>3. CASE CallFails
  BY <1>3 DEF CallFails, ContentsFails, MarkReadFails, MarkWrittenFails, kernel, BInv,
              BufferTypeOK, ContentsExact, UnreadIntact, Unread, get_buffer_contents
<1>4. ASSUME NEW n \in 0 .. CountMod - 1, mark_buffer_read(n) PROVE BInv'
  <2>1. MarkedRead(n) \in Nat /\ MarkedRead(n) <= Unread
    BY <1>0 DEF MarkedRead
  <2> QED
    BY <1>4, <2>1, LeaveKeeps DEF mark_buffer_read
<1>5. ASSUME NEW n \in 0 .. CountMod - 1, mark_buffer_written(n) PROVE BInv'
  <2>1. MarkedWritten(n) \in Nat /\ MarkedWritten(n) <= Space
    BY <1>0 DEF MarkedWritten
  <2> QED
    BY <1>0, <1>5, <2>1, EnterKeeps DEF mark_buffer_written
<1>6. ASSUME NEW p \in Slots, StoreThroughMap(p, p) PROVE BInv'
  BY <1>6 DEF StoreThroughMap, Slots, BInv, BufferTypeOK, ContentsExact, UnreadIntact,
              Unread, get_buffer_contents
<1>7. CASE UNCHANGED bufferVars
  BY <1>7 DEF bufferVars, kernel, BInv, BufferTypeOK, ContentsExact, UnreadIntact, Unread,
              get_buffer_contents
<1> QED
  BY <1>1, <1>2, <1>3, <1>4, <1>5, <1>6, <1>7 DEF BufferNext, DeviceStep, MarkStep, StoreStep

\* comedi_get_buffer_contents is exact and the unread bytes are intact under
\* any program, for every buffer size and counter width.
THEOREM BufferSafe == BufferSpec => [](BufferTypeOK /\ ContentsExact /\ UnreadIntact)
<1>1. BInv => BufferTypeOK /\ ContentsExact /\ UnreadIntact
  BY DEF BInv
<1> QED
  BY BufferInitInv, BufferStep, <1>1, PTL DEF BufferSpec
================================================================================
