---------------------------- MODULE MCStreamOutput ----------------------------
(***************************************************************************)
(* Streaming output to one subdevice by one program, the mmap demo or one  *)
(* of those that call write(2); or, as the third choice, the buffer of a   *)
(* subdevice in either direction under a program that makes any calls.     *)
(***************************************************************************)
EXTENDS ComediBuffer

CONSTANT BufSizes

VARIABLES by, pc, filled, unmarked, started, prog, bufsz, ours, armed, gen, left

W == INSTANCE MmapWriter
V == INSTANCE WriteStream

ASSUME WriteAssumption == V!Parameters

mmapOnly == <<filled, unmarked>>
writeOnly == <<prog, bufsz, ours, armed, gen, left>>

MmapIdle == filled = 0 /\ unmarked = 0
WriteIdle ==
  prog = "ao_waveform" /\ bufsz = 0 /\ ours = FALSE /\ armed = FALSE /\ gen = 0 /\ left = 0

OutputInit ==
  \/ by = "mmap" /\ W!Init /\ WriteIdle
  \/ by = "write" /\ V!Init /\ MmapIdle
  \/ by = "any" /\ BufferInit /\ pc = "exit" /\ started = TRUE /\ MmapIdle /\ WriteIdle

UsesMmap == by = "mmap" /\ UNCHANGED <<by, writeOnly>>
UsesWrite == by = "write" /\ UNCHANGED <<by, mmapOnly>>
AnyCalls == by = "any" /\ UNCHANGED <<by, pc, started, mmapOnly, writeOnly>>

OutputNext ==
  \/ UsesMmap /\ W!Next
  \/ UsesWrite /\ V!Next
  \/ AnyCalls /\ BufferNext

outputVars == <<bufferVars, by, pc, started, mmapOnly, writeOnly>>
OutputSpec ==
  /\ OutputInit /\ [][OutputNext]_outputVars
  /\ WF_outputVars(UsesMmap /\ W!WriterStep)
  /\ WF_outputVars(UsesWrite /\ V!PlayerStep)
  /\ WF_outputVars(UsesWrite /\ V!Take)

\* Every variable of the program that runs, and of the buffer, holds a value of
\* its kind.
OutputTypeOK ==
  /\ BufferTypeOK
  /\ by = "mmap" => W!TypeOK
  /\ by = "write" => V!TypeOK

\* The device plays the waveform or the stream from its beginning, in order and
\* without a gap, and the write programs trigger only with a full buffer or a
\* whole stream behind it.
PlaysStream ==
  /\ by = "mmap" => W!PlaysPeriod
  /\ by = "write" => V!PlaysStream /\ V!StartsFilled

\* Once it plays, the mmap demo marks again what was taken; and the write test
\* ends, but for the one size of its buffer with which it hangs.
KeepsPlaying == (by = "mmap" => W!Refilled) /\ (by = "write" => V!TestEnds)
=============================================================================
