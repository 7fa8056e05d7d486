----------------------------- MODULE WriteStream -----------------------------
(***************************************************************************)
(* The programs that output by write(2): demo/ao_waveform.c and            *)
(* demo/do_waveform.c, which play a generated waveform for ever, and the   *)
(* write test of testing/cmd_1.c, which plays a fixed number of bytes.     *)
(* All fill the buffer before they trigger the command, and then feed it.  *)
(* The file is in blocking mode: a write waits for room, and moves as much *)
(* as there is room for.                                                   *)
(***************************************************************************)
EXTENDS ComediBuffer

CONSTANT BufSizes  \* BUF_LEN * sizeof(sampl_t), BUFSZ

\* What the constant must be.
Parameters == BufSizes \subseteq Nat \ {0}

VARIABLES prog,     \* "ao_waveform", "do_waveform" or "test"
          pc,
          bufsz,    \* bytes of one chunk
          ours,     \* the file's write subdevice is the command's
          armed,    \* the driver accepted the command
          started,  \* and was triggered
          gen,      \* bytes generated so far
          left      \* of which not yet written

player == <<prog, pc, bufsz, ours, armed, started, gen, left>>
vars == <<bufferVars, player>>

Programs == {"ao_waveform", "do_waveform", "test"}
Endless == prog # "test"

Init ==
  /\ BufferInit /\ dir = "out"
  /\ prog \in Programs /\ bufsz \in BufSizes
  /\ pc = (IF Endless THEN "test1" ELSE "subdevice")
  /\ ours \in BOOLEAN /\ armed = FALSE /\ started = FALSE
  /\ gen = 0 /\ left = 0

Goto(l) == pc' = l
fixed == <<prog, bufsz>>
data == <<gen, left>>

\* The command is tested twice, and the program stops at an error;
\* do_waveform.c tests it once more and insists on a command that is valid.
AfterTest ==
  IF pc = "test1" THEN "test2" ELSE IF pc = "test2" /\ prog = "do_waveform" THEN "test3" ELSE "subdevice"
CommandTest ==
  /\ pc \in {"test1", "test2", "test3"}
  /\ Goto("exit") \/ Goto(AfterTest)
  /\ UNCHANGED <<fixed, ours, armed, started, data, bufferVars>>

\* comedi_set_write_subdevice, and the question whether it was done.
SetWriteSubdevice ==
  /\ pc = "subdevice"
  /\ ours' \in {ours, TRUE}
  /\ Goto(IF ours' THEN "command" ELSE "exit")
  /\ UNCHANGED <<fixed, armed, started, data, bufferVars>>

\* comedi_command; the test reports a failure and goes on.
Command ==
  /\ pc = "command"
  /\ armed' \in BOOLEAN
  /\ Goto(IF armed' \/ prog = "test" THEN "preload" ELSE "exit")
  /\ UNCHANGED <<fixed, ours, started, data, bufferVars>>

\* A chunk: the waveforms fill whole ones, the test cuts the last.
Chunk == IF prog = "test" /\ Total - gen < bufsz THEN Total - gen ELSE bufsz

\* What a write of n bytes moves.
Moved(n) == IF n < Space THEN n ELSE Space

\* The ring once m bytes are copied from where the chunk was left.
StoredRest(m) ==
  [p \in Slots |-> IF Distance(wptr, p) < m THEN gen - left + Distance(wptr, p) ELSE ring[p]]

\* A slip: what a short write did not take is not written again.
AfterCutDropped(m) == UNCHANGED gen /\ left' = 0

\* After m bytes of the chunk: the waveforms go on with the rest of it; the
\* test, whose bytes are all zero, counts the bytes written and begins anew.
AfterCut(m) ==
  IF prog = "test" THEN gen' = gen - (left - m) /\ left' = 0
                   ELSE UNCHANGED gen /\ left' = left - m

\* write(2) of what is left of the chunk.
Write ==
  /\ armed /\ ~Broken /\ Space > 0
  /\ ring' = StoredRest(Moved(left)) /\ Enter(Moved(left)) /\ AfterCut(Moved(left))
  /\ UNCHANGED <<fixed, ours, armed, started, dir, read, rcount, rptr, status, errno>>
CutShort == Moved(left) < left

\* What follows a chunk.
NextChunk == IF prog = "test" /\ gen' = Total THEN "drain" ELSE "fill"

\* dds_output, build_waveforms, or the length of the next write.  Total bounds the waveform,
\* which has no end.
Generate ==
  /\ pc \in {"preload", "fill"} /\ gen < Total
  /\ gen' = gen + Chunk /\ left' = Chunk
  /\ Goto(IF pc = "preload" THEN "prewrite" ELSE "write")
  /\ UNCHANGED <<fixed, ours, armed, started, bufferVars>>

\* Before the trigger the waveforms make one write that must take the whole
\* chunk; the test writes chunks until one is cut short or all is written.
Preload ==
  /\ pc = "prewrite" /\ Write
  /\ Goto(IF Endless THEN (IF CutShort THEN "exit" ELSE "trigger")
          ELSE IF CutShort \/ gen' = Total THEN "trigger" ELSE "preload")

\* comedi_internal_trigger; where it fails the test cancels the command.
Trigger ==
  /\ pc = "trigger"
  /\ started' \in BOOLEAN
  /\ UNCHANGED <<fixed, ours, armed, data, bufferVars>>
  /\ Goto(IF started' THEN NextChunk ELSE "exit")

\* The inner loop: until the chunk is written.
Feed ==
  /\ pc = "write" /\ Write
  /\ Goto(IF left' > 0 THEN "write" ELSE NextChunk)

\* write(2) on a stream that broke or never started.
WriteFails ==
  /\ pc \in {"prewrite", "write"} /\ (Broken \/ ~armed)
  /\ Goto(IF prog = "test" /\ pc = "write" THEN "drain" ELSE "exit")
  /\ UNCHANGED <<fixed, ours, armed, started, data, bufferVars>>

\* A slip: the test waits for the stream to be played to its end.
DrainedAtEnd ==
  /\ pc = "drain" /\ read = Total /\ Goto("exit")
  /\ UNCHANGED <<fixed, ours, armed, started, data, bufferVars>>

\* The test waits until the subdevice runs no more, then cancels.
Running == started /\ status = "running" /\ read < Total
Drained ==
  /\ pc = "drain" /\ ~Running /\ Goto("exit")
  /\ UNCHANGED <<fixed, ours, armed, started, data, bufferVars>>

Take == started /\ (\E n \in 1 .. Size : DeviceTakes(n)) /\ UNCHANGED player

PlayerStep ==
  CommandTest \/ SetWriteSubdevice \/ Command \/ Generate \/ Preload
    \/ Trigger \/ Feed \/ WriteFails \/ Drained

Next == PlayerStep \/ Take

Spec == Init /\ [][Next]_vars

\* The program takes its next step when it can, and a triggered device is
\* driven by its clock.
FairSpec == Spec /\ WF_vars(PlayerStep) /\ WF_vars(Take)

-----------------------------------------------------------------------------
(***************************************************************************)
(* Properties.                                                             *)
(***************************************************************************)

\* Every variable holds a value of its kind.
TypeOK ==
  /\ BufferTypeOK /\ dir = "out"
  /\ prog \in Programs /\ bufsz \in BufSizes
  /\ pc \in {"test1", "test2", "test3", "subdevice", "command", "preload", "prewrite",
             "trigger", "fill", "write", "drain", "exit"}
  /\ ours \in BOOLEAN /\ armed \in BOOLEAN /\ started \in BOOLEAN
  /\ gen \in Nat /\ left \in 0 .. bufsz

\* However the device cuts the writes, the buffer holds the next bytes of the
\* generated stream in order, none repeated and none left out.
PlaysStream ==
  \A d \in 0 .. Unread - 1 : ring[Ahead(rptr, d)] = read + d

\* The device is not started on an empty buffer: a waveform has a whole
\* chunk in it, the test all it will play or a full buffer.
StartsFilled ==
  pc = "trigger" => Unread = (IF Endless THEN bufsz ELSE IF gen < Total THEN Size ELSE Total)

\* The test ends, unless its chunks fill the buffer exactly: then the last
\* write of the preload waits for a device nobody has triggered.
TestEnds ==
  prog = "test" ~> pc = "exit" \/ (pc = "prewrite" /\ Space = 0 /\ Size % bufsz = 0)
=============================================================================
