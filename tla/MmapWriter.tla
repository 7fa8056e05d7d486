------------------------------ MODULE MmapWriter ------------------------------
(***************************************************************************)
(* demo/ao_mmap.c on top of ComediBuffer: a streaming output command with  *)
(* an internal start trigger is set up, one period of a waveform that      *)
(* fills the whole buffer is stored through the mapping and marked         *)
(* written, the command is triggered, and from then on the program only    *)
(* marks again as written what the device has taken, so that the same      *)
(* period is played over and over.                                         *)
(***************************************************************************)
EXTENDS ComediBuffer

VARIABLES pc,        \* "waveform", "mark", "trigger", "poll", "more", "exit"
          filled,    \* bytes of the waveform stored so far
          unmarked,  \* bytes_unmarked
          started    \* the command has been triggered

writer == <<pc, filled, unmarked, started>>
vars == <<bufferVars, writer>>

Init ==
  /\ BufferInit /\ dir = "out"
  /\ pc = "waveform" /\ filled = 0 /\ unmarked = 0 /\ started = FALSE

\* write_waveform: byte p of the buffer becomes byte p of the period.
WriteWaveform ==
  /\ pc = "waveform" /\ filled < Size
  /\ StoreThroughMap(filled, filled)
  /\ filled' = filled + 1
  /\ pc' = IF filled' = Size THEN "mark" ELSE "waveform"
  /\ UNCHANGED <<unmarked, started>>

\* The whole buffer is marked before the command is triggered.
MarkPeriod ==
  /\ pc = "mark" /\ mark_buffer_written(Size)
  /\ pc' = "trigger" /\ UNCHANGED <<filled, unmarked, started>>

\* comedi_internal_trigger starts the device, or fails.
Trigger ==
  /\ pc = "trigger"
  /\ \/ started' = TRUE /\ pc' = "poll"
     \/ started' = FALSE /\ pc' = "exit"
  /\ UNCHANGED <<filled, unmarked, bufferVars>>

\* A slip: the operands are swapped.
PollSwapped ==
  /\ pc = "poll"
  /\ unmarked' = get_buffer_contents - Size
  /\ pc' = IF unmarked' > 0 THEN "more" ELSE "poll"
  /\ UNCHANGED <<filled, started, bufferVars>>

\* comedi_get_buffer_contents, and what it leaves of the buffer; with
\* nothing to mark the program sleeps and asks again.
Poll ==
  /\ pc = "poll"
  /\ unmarked' = Size - get_buffer_contents
  /\ pc' = IF unmarked' > 0 THEN "more" ELSE "poll"
  /\ UNCHANGED <<filled, started, bufferVars>>

PollFails ==
  /\ pc = "poll" /\ ContentsFails
  /\ pc' = "exit" /\ UNCHANGED <<filled, unmarked, started>>

MarkMore ==
  /\ pc = "more" /\ mark_buffer_written(unmarked)
  /\ pc' = "poll" /\ UNCHANGED <<filled, unmarked, started>>

MarkFails ==
  /\ pc \in {"mark", "more"} /\ MarkWrittenFails
  /\ pc' = "exit" /\ UNCHANGED <<filled, unmarked, started>>

Take == started /\ (\E n \in 1 .. Size : DeviceTakes(n)) /\ UNCHANGED writer

WriterStep ==
  WriteWaveform \/ MarkPeriod \/ Trigger \/ Poll \/ PollFails \/ MarkMore \/ MarkFails

Next == Take \/ WriterStep

Spec == Init /\ [][Next]_vars

\* The program runs straight through its statements; the device is not
\* obliged to take anything.
FairSpec == Spec /\ WF_vars(WriterStep)

-----------------------------------------------------------------------------
(***************************************************************************)
(* Properties.                                                             *)
(***************************************************************************)

\* Every variable holds a value of its kind.
TypeOK ==
  /\ BufferTypeOK /\ dir = "out"
  /\ pc \in {"waveform", "mark", "trigger", "poll", "more", "exit"}
  /\ filled \in 0 .. Size
  /\ unmarked \in 0 .. Size
  /\ started \in BOOLEAN

\* Whatever is marked and not yet taken continues the periodic waveform:
\* byte n of the output is byte n modulo the buffer size of the period, and
\* nothing stale from before the waveform was stored is ever played.
PlaysPeriod ==
  \A d \in 0 .. Unread - 1 : ring[Ahead(rptr, d)] = (read + d) % Size

\* When the device stops taking, the buffer is full again in the end: no byte
\* it freed stays unmarked, unless the program exited.
Refilled == <>[](pc = "exit" \/ Space = 0)
=============================================================================
