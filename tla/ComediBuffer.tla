----------------------------- MODULE ComediBuffer -----------------------------
(***************************************************************************)
(* The streaming buffer of one subdevice, as a program sees it through     *)
(* lib/buffer.c: the calls that ask how much is in it, where the read and  *)
(* the write positions are, and that mark bytes read or written.  The      *)
(* kernel's side (the ring, its offsets, its two 32-bit byte counters, the *)
(* transfer to or from the device) is external and modelled from what      *)
(* those calls and demo/mmap.c rely on.  Bytes are numbered from 0 in the  *)
(* order they enter the stream; the ring holds those numbers.              *)
(***************************************************************************)
EXTENDS Integers

CONSTANTS Size,      \* buffer size in bytes
          CountMod,  \* UINT_MAX + 1
          Total      \* bytes of the whole acquisition, cmd.stop_arg scans

ASSUME SizeAssumption == Size \in Nat \ {0}
ASSUME CountModAssumption == CountMod \in Nat /\ CountMod > Size
ASSUME TotalAssumption == Total \in Nat

VARIABLES dir,             \* "in" for a read subdevice, "out" for a write one
          ring,            \* the mapped buffer
          written, read,   \* bytes that ever entered, ever left (history)
          wcount, rcount,  \* buf_write_count, buf_read_count
          wptr, rptr,      \* buf_write_ptr, buf_read_ptr
          status,          \* "running", "overflow" or "underflow"
          errno            \* comedi_errno as the last failing call left it

kernel == <<dir, ring, written, read, wcount, rcount, wptr, rptr, status>>
bufferVars == <<kernel, errno>>

Slots == 0 .. Size - 1
Unread == written - read
Space == Size - Unread

\* unsigned int arithmetic, for operands below CountMod.
UAdd(a, n) == IF a + n >= CountMod THEN a + n - CountMod ELSE a + n
USub(a, b) == IF a >= b THEN a - b ELSE a - b + CountMod

\* The offset n bytes after offset p, and the distance from p to q.
Ahead(p, n) == IF p + n >= Size THEN p + n - Size ELSE p + n
Distance(p, q) == IF q >= p THEN q - p ELSE q - p + Size

-----------------------------------------------------------------------------
(***************************************************************************)
(* Kernel side.                                                            *)
(***************************************************************************)
KernelInit ==
  /\ dir \in {"in", "out"}
  /\ ring = [p \in Slots |-> -1]
  /\ written = 0 /\ read = 0
  /\ wcount = 0 /\ rcount = 0 /\ wptr = 0 /\ rptr = 0
  /\ status = "running"

\* n bytes enter the stream at the write position.
Enter(n) ==
  /\ written' = written + n
  /\ wcount' = UAdd(wcount, n)
  /\ wptr' = Ahead(wptr, n)

\* n bytes leave it at the read position.
Leave(n) ==
  /\ read' = read + n
  /\ rcount' = UAdd(rcount, n)
  /\ rptr' = Ahead(rptr, n)

\* What the ring holds once the next n bytes of the stream are stored.
Stored(n) ==
  [p \in Slots |-> IF Distance(wptr, p) < n THEN written + Distance(wptr, p) ELSE ring[p]]

\* The device delivers n bytes; when they do not fit, the acquisition stops
\* with an overflow and the buffer keeps what it has.
DeviceDelivers(n) ==
  /\ dir = "in" /\ status = "running"
  /\ n \in 1 .. Size /\ written + n <= Total
  /\ IF n <= Space
       THEN ring' = Stored(n) /\ Enter(n) /\ UNCHANGED status
       ELSE status' = "overflow" /\ UNCHANGED <<ring, written, wcount, wptr>>
  /\ UNCHANGED <<dir, read, rcount, rptr, errno>>

\* The device takes n bytes; when they are not there, the output stops.
DeviceTakes(n) ==
  /\ dir = "out" /\ status = "running"
  /\ n \in 1 .. Size /\ read + n <= Total
  /\ IF n <= Unread
       THEN Leave(n) /\ UNCHANGED status
       ELSE status' = "underflow" /\ UNCHANGED <<read, rcount, rptr>>
  /\ UNCHANGED <<dir, ring, written, wcount, wptr, errno>>

\* COMEDI_BUFINFO after the stream stopped with an error may answer EPIPE.
Broken == status # "running"

-----------------------------------------------------------------------------
(***************************************************************************)
(* Library calls.                                                          *)
(***************************************************************************)

\* A slip: the difference taken in a type wider than the counters.
ContentsTakenWide == wcount - rcount

\* comedi_get_buffer_contents: the difference of two unsigned counters.
get_buffer_contents == USub(wcount, rcount)

\* comedi_get_buffer_read_offset, comedi_get_buffer_offset, and their twin.
get_buffer_read_offset == rptr
get_buffer_write_offset == wptr

\* comedi_get_buffer_read_count, comedi_get_buffer_write_count.
get_buffer_read_count == rcount
get_buffer_write_count == wcount

\* How EPIPE is translated by comedi_get_buffer_contents and
\* comedi_mark_buffer_read, and by comedi_mark_buffer_written.
ContentsFails == Broken /\ errno' = "EBUF_OVR" /\ UNCHANGED kernel
MarkReadFails == Broken /\ errno' = "EBUF_OVR" /\ UNCHANGED kernel
MarkWrittenFails == Broken /\ errno' = "EBUF_UNDR" /\ UNCHANGED kernel

\* A slip: the driver trusts the number it is given.
MarkedWrittenTrusting(bytes) == bytes

\* comedi_mark_buffer_read: the kernel frees no more than is unread.
MarkedRead(bytes) == IF bytes <= Unread THEN bytes ELSE Unread
mark_buffer_read(bytes) ==
  /\ dir = "in"
  /\ Leave(MarkedRead(bytes))
  /\ UNCHANGED <<dir, ring, written, wcount, wptr, status, errno>>

\* comedi_mark_buffer_written: no more than there is room for.  The bytes are
\* those the program stored in the mapping beforehand.
MarkedWritten(bytes) == IF bytes <= Space THEN bytes ELSE Space
mark_buffer_written(bytes) ==
  /\ dir = "out"
  /\ Enter(MarkedWritten(bytes))
  /\ UNCHANGED <<dir, ring, read, rcount, rptr, status, errno>>

\* The program stores through the mapping of an output buffer (testing and
\* demos map it PROT_WRITE); the kernel takes no part in it.
StoreThroughMap(p, v) ==
  /\ dir = "out"
  /\ ring' = [ring EXCEPT ![p] = v]
  /\ UNCHANGED <<dir, written, read, wcount, rcount, wptr, rptr, status, errno>>

-----------------------------------------------------------------------------
(***************************************************************************)
(* The buffer under any program: marks of any size at any time.            *)
(***************************************************************************)
BufferInit == KernelInit /\ errno = "none"

DeviceStep == \E n \in 1 .. Size : DeviceDelivers(n) \/ DeviceTakes(n)

CallFails == ContentsFails \/ MarkReadFails \/ MarkWrittenFails

MarkStep ==
  \E n \in 0 .. CountMod - 1 : mark_buffer_read(n) \/ mark_buffer_written(n)

StoreStep == \E p \in Slots : StoreThroughMap(p, p)

BufferNext == DeviceStep \/ CallFails \/ MarkStep \/ StoreStep

BufferSpec == BufferInit /\ [][BufferNext]_bufferVars

-----------------------------------------------------------------------------
(***************************************************************************)
(* Properties.                                                             *)
(***************************************************************************)

\* Every variable holds a value of its kind.
BufferTypeOK ==
  /\ dir \in {"in", "out"}
  /\ ring \in [Slots -> Int]
  /\ written \in Nat /\ read \in Nat
  /\ wcount \in 0 .. CountMod - 1 /\ rcount \in 0 .. CountMod - 1
  /\ wptr \in Slots /\ rptr \in Slots
  /\ status \in {"running", "overflow", "underflow"}
  /\ errno \in {"none", "EBUF_OVR", "EBUF_UNDR"}

\* comedi_get_buffer_contents is the number of unread bytes, however often
\* either counter has wrapped, and never more than the buffer holds.
ContentsExact == get_buffer_contents = Unread /\ Unread \in 0 .. Size

\* Whatever program and device do, the unread bytes lie in the ring in
\* stream order from the read offset on, so a program that follows the read
\* offset through the mapping reads what the device delivered; and the two
\* offsets differ by the number of unread bytes.
UnreadIntact ==
  /\ dir = "in" => \A d \in 0 .. Unread - 1 : ring[Ahead(rptr, d)] = read + d
  /\ wptr = Ahead(rptr, Unread)

\* comedi_errno.h:40-41 call EBUF_OVR "buffer overflow" and EBUF_UNDR "buffer
\* underflow"; a call that fails on a stopped stream says which it was.
ErrnoNamesTheCause ==
  /\ errno = "EBUF_OVR" => status = "overflow"
  /\ errno = "EBUF_UNDR" => status = "underflow"
=============================================================================
