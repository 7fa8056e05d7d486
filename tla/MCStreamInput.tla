---------------------------- MODULE MCStreamInput ----------------------------
(***************************************************************************)
(* Streaming input from one subdevice, taken up by one program: the mmap   *)
(* demo, or one of those that call read(2).  "by" says which; the state of *)
(* the other stays idle.                                                   *)
(***************************************************************************)
EXTENDS MmapReader

CONSTANTS ReadSize, NChan, FifoSize

VARIABLES by, prog, at, prepared, valid, ours, fifo, chunk, col, why

R == INSTANCE ReadStream WITH pc <- at

ASSUME ReadAssumption == R!Parameters

readers == <<prog, at, prepared, valid, ours, fifo, chunk, col, why>>

ByMmap ==
  /\ by = "mmap" /\ Init
  /\ prog = R!CmdC /\ at = "exit" /\ prepared = TRUE /\ valid = TRUE /\ ours = TRUE
  /\ fifo = 0 /\ chunk = << >> /\ col = 0 /\ why = "none"

ByRead ==
  /\ by = "read" /\ R!Init
  /\ pc = "exit" /\ front = 0 /\ back = 0 /\ bufpos = 0 /\ nsamples = 0 /\ i = 0

InputInit == ByMmap \/ ByRead

UsesMmap == by = "mmap" /\ UNCHANGED <<by, readers>>
UsesRead == by = "read" /\ UNCHANGED <<by, pc, front, back, bufpos, nsamples, i>>

InputNext == (UsesMmap /\ Next) \/ (UsesRead /\ R!Next)

inputVars == <<vars, by, readers>>
InputSpec ==
  /\ InputInit /\ [][InputNext]_inputVars
  /\ WF_inputVars(UsesMmap /\ ReaderStep)
  /\ WF_inputVars(UsesRead /\ R!ProgramStep)

\* Every variable of the program that runs holds a value of its kind.
InputTypeOK == IF by = "mmap" THEN TypeOK ELSE R!TypeOK

\* The programs that call read(2) read the subdevice they prepared, print each
\* sample in the column of its channel, and have printed the whole stream when
\* they leave at its end.
PrintsItsStream ==
  by = "read" => R!ReadsItsCommand /\ R!ColumnIsChannel /\ R!EndsComplete

\* Each program prints what the device delivers in the end, and those that
\* call read(2) end when the stream does.
AllPrintedInTheEnd == AllPrinted /\ (by = "read" => R!AllRead)
Ends == by = "read" => R!Ends
=============================================================================
