------------------------------ MODULE MmapReader ------------------------------
(***************************************************************************)
(* The acquisition loop of demo/mmap.c on top of ComediBuffer: ask how     *)
(* many bytes are unread, print that many whole samples straight from the  *)
(* mapped buffer, mark them read.  The program keeps its own position in   *)
(* the mapping and never asks the library for it; the device goes on       *)
(* delivering between any two of its steps.                                *)
(***************************************************************************)
EXTENDS ComediBuffer, Sequences

CONSTANT SampleSize   \* sizeof(sampl_t) or sizeof(lsampl_t)

ASSUME SampleSizeAssumption == SampleSize \in 1 .. Size /\ Size % SampleSize = 0

VARIABLES pc,           \* "poll", "print", or "exit" after a failing call
          front, back,  \* unsigned positions in the stream
          bufpos,       \* offset of the next byte to print
          nsamples, i,  \* samples of this round, and those printed of them
          out           \* the samples printed so far

reader == <<pc, front, back, bufpos, nsamples, i, out>>
vars == <<bufferVars, reader>>

Init ==
  /\ BufferInit /\ dir = "in"
  /\ pc = "poll" /\ front = 0 /\ back = 0 /\ bufpos = 0
  /\ nsamples = 0 /\ i = 0 /\ out = << >>

\* A slip: a sample that has only begun to arrive counts.
SamplesRoundedUp(f, b) == (USub(f, b) + SampleSize - 1) \div SampleSize

\* Whole samples between two unsigned positions.
Samples(f, b) == USub(f, b) \div SampleSize

\* A slip: front keeps the bytes of a sample still incomplete.
PollKeepsFront ==
  /\ pc = "poll"
  /\ front' = UAdd(front, get_buffer_contents)
  /\ nsamples' = Samples(front', back)
  /\ pc' = IF nsamples' = 0 THEN "poll" ELSE "print"
  /\ i' = 0
  /\ UNCHANGED <<back, bufpos, out, bufferVars>>

\* A slip: the loop waits for a whole bufferful.
PollForFullBuffer ==
  /\ pc = "poll"
  /\ LET n == IF get_buffer_contents = Size THEN Size \div SampleSize ELSE 0
     IN  /\ nsamples' = n
         /\ front' = UAdd(back, n * SampleSize)
         /\ pc' = IF n = 0 THEN "poll" ELSE "print"
  /\ i' = 0
  /\ UNCHANGED <<back, bufpos, out, bufferVars>>

\* comedi_get_buffer_contents and the arithmetic up to the test for nothing
\* to do; an empty round sleeps and polls again.
Poll ==
  /\ pc = "poll"
  /\ LET n == Samples(UAdd(front, get_buffer_contents), back)
     IN  /\ nsamples' = n
         /\ front' = UAdd(back, n * SampleSize)
         /\ pc' = IF front' = back THEN "poll" ELSE "print"
  /\ i' = 0
  /\ UNCHANGED <<back, bufpos, out, bufferVars>>

PollFails ==
  /\ pc = "poll" /\ ContentsFails
  /\ pc' = "exit" /\ UNCHANGED <<front, back, bufpos, nsamples, i, out>>

\* The sample at an offset of the mapping.
SampleAt(p) == [b \in 0 .. SampleSize - 1 |-> ring[p + b]]

\* A slip: the position runs on past the end of the mapping.
PrintPastEnd ==
  /\ pc = "print" /\ i < nsamples
  /\ out' = Append(out, SampleAt(bufpos))
  /\ bufpos' = bufpos + SampleSize
  /\ i' = i + 1
  /\ UNCHANGED <<pc, front, back, nsamples, bufferVars>>

\* printf of one sample, and the position wraps at the end of the mapping.
PrintSample ==
  /\ pc = "print" /\ i < nsamples
  /\ out' = Append(out, SampleAt(bufpos))
  /\ bufpos' = IF bufpos + SampleSize >= Size THEN 0 ELSE bufpos + SampleSize
  /\ i' = i + 1
  /\ UNCHANGED <<pc, front, back, nsamples, bufferVars>>

\* A slip: the operands of the subtraction are swapped.
MarkSwapped ==
  /\ pc = "print" /\ i = nsamples
  /\ mark_buffer_read(USub(back, front))
  /\ back' = front /\ pc' = "poll"
  /\ UNCHANGED <<front, bufpos, nsamples, i, out>>

\* comedi_mark_buffer_read(front - back); its answer is not looked at beyond
\* its sign.
Mark ==
  /\ pc = "print" /\ i = nsamples
  /\ mark_buffer_read(USub(front, back))
  /\ back' = front /\ pc' = "poll"
  /\ UNCHANGED <<front, bufpos, nsamples, i, out>>

MarkFails ==
  /\ pc = "print" /\ i = nsamples /\ MarkReadFails
  /\ pc' = "exit" /\ UNCHANGED <<front, back, bufpos, nsamples, i, out>>

Deliver == (\E n \in 1 .. Size : DeviceDelivers(n)) /\ UNCHANGED reader

ReaderStep == Poll \/ PollFails \/ PrintSample \/ Mark \/ MarkFails

Next == Deliver \/ ReaderStep

Spec == Init /\ [][Next]_vars

\* The loop has no exit but a failing call: the reader always takes its next
\* step.  Nothing is assumed of the device.
FairSpec == Spec /\ WF_vars(ReaderStep)

-----------------------------------------------------------------------------
(***************************************************************************)
(* Properties.                                                             *)
(***************************************************************************)

\* Every variable holds a value of its kind.
TypeOK ==
  /\ BufferTypeOK /\ dir = "in"
  /\ pc \in {"poll", "print", "exit"}
  /\ front \in 0 .. CountMod - 1 /\ back \in 0 .. CountMod - 1
  /\ bufpos \in Slots
  /\ nsamples \in Nat /\ i \in 0 .. nsamples
  /\ out \in Seq([0 .. SampleSize - 1 -> Int])

\* The position the program keeps for itself is the kernel's read offset
\* plus what it has printed but not yet marked, and its idea of how much to
\* mark is never more than is unread.
ReaderInStep ==
  /\ pc = "poll" => bufpos = rptr
  /\ pc = "print" => bufpos = Ahead(rptr, i * SampleSize)
  /\ pc = "print" => USub(front, back) = nsamples * SampleSize
  /\ pc = "print" => nsamples * SampleSize <= Unread

\* comedi_mark_buffer_read may mark less than it is asked for
\* (command_funcref.txt:314-316); the loop, which ignores how much, is
\* always granted all of it.
MarkedInFull == [][pc = "print" /\ pc' = "poll" => read' = read + nsamples * SampleSize]_vars

\* Mapping this loop to the promise of streaming input.
Stream == INSTANCE SampleStream WITH produced <- written
StreamSpec == Stream!Spec

\* Every whole sample the device delivered is printed in the end, unless a
\* call failed on a stopped stream.
AllPrinted ==
  \A n \in 1 .. Total : written >= n * SampleSize ~> (Len(out) >= n \/ pc = "exit")
=============================================================================
