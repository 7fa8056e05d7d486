------------------------------ MODULE ReadStream ------------------------------
(***************************************************************************)
(* The programs that acquire by read(2): demo/cmd.c, demo/tut3.c,          *)
(* demo/select.c, demo/poll.c, demo/sigio.c, demo/ext_trig.c,              *)
(* demo/ledclock.c and demo/gpct_buffered_counting.c.  They have one       *)
(* outline: prepare a command, test it, make its subdevice the one read(2) *)
(* reads from, start it, and read until the stream ends.  They differ in   *)
(* what they insist on and in how they wait; those differences are the     *)
(* sets below.  The card holds what it has acquired in a fifo until it     *)
(* interrupts or is polled; then the driver moves it into the buffer of    *)
(* ComediBuffer, in whole samples.                                         *)
(***************************************************************************)
EXTENDS ComediBuffer, Sequences

CONSTANTS SampleSize,  \* sizeof(sampl_t) or sizeof(lsampl_t)
          ReadSize,    \* BUFSZ, sizeof(buf)
          NChan,       \* options.n_chan
          FifoSize     \* bytes at which the card interrupts

\* What the constants must be: whole samples fit the reads and the fifo, and
\* the fifo fits the buffer.
Parameters ==
  /\ SampleSize \in Nat \ {0} /\ NChan \in Nat \ {0}
  /\ ReadSize \in Nat \ {0} /\ ReadSize % SampleSize = 0
  /\ FifoSize \in 1 .. Size /\ FifoSize % SampleSize = 0 /\ Total % SampleSize = 0

VARIABLES prog,      \* the program that runs
          pc,
          prepared,  \* the command names trigger sources
          valid,     \* the last command test answered 0
          ours,      \* the file's read subdevice is the command's
          fifo,      \* bytes in the card
          chunk,     \* samples of the last read not yet printed
          col,       \* column of the next sample in its scan
          out,       \* the samples printed so far
          why        \* what ended the program

program == <<prog, pc, prepared, valid, ours, fifo, chunk, col, out, why>>
vars == <<bufferVars, program>>

\* The commands.  Those of cmd.c and tut3.c are the library's choice; the
\* others are written out, name all their trigger sources, and differ in when
\* the driver is to wake the reader and in whether the acquisition ends.
LibraryCommand == [made |-> "library", wake |-> FALSE, stop |-> "COUNT"]
SelectCommand == [made |-> "hand", wake |-> TRUE, stop |-> "COUNT"]
PollCommand == [made |-> "hand", wake |-> FALSE, stop |-> "COUNT"]
SigioCommand == [made |-> "hand", wake |-> TRUE, stop |-> "NONE"]
ExternalCommand == [made |-> "hand", wake |-> TRUE, stop |-> "NONE"]
CountCommand == [made |-> "hand", wake |-> TRUE, stop |-> "NONE"]

\* The programs: the command; whether the lack of one, and a second test that
\* does not answer 0, end the program; how it waits for data; and whether it
\* prints samples in columns, one to a line, or not at all.
CmdC == [cmd |-> LibraryCommand, checks |-> TRUE, insists |-> TRUE, wait |-> "read",
         prints |-> "columns"]
Tut3C == [cmd |-> LibraryCommand, checks |-> FALSE, insists |-> TRUE, wait |-> "read",
          prints |-> "columns"]
SelectC == [cmd |-> SelectCommand, checks |-> TRUE, insists |-> FALSE, wait |-> "select",
            prints |-> "lines"]
PollC == [cmd |-> PollCommand, checks |-> TRUE, insists |-> FALSE, wait |-> "poll",
          prints |-> "lines"]
SigioC == [cmd |-> SigioCommand, checks |-> TRUE, insists |-> FALSE, wait |-> "signal",
           prints |-> "none"]
CountingC == [cmd |-> CountCommand, checks |-> TRUE, insists |-> TRUE, wait |-> "read",
              prints |-> "lines"]

\* ext_trig.c tells when each read came, ledclock.c toggles its outputs.
ExtTrigC == [cmd |-> ExternalCommand, checks |-> TRUE, insists |-> FALSE, wait |-> "select",
             prints |-> "none"]
LedclockC == ExtTrigC
Programs == {CmdC, Tut3C, SelectC, PollC, SigioC, CountingC, ExtTrigC, LedclockC}

\* O_NONBLOCK and select() before every read.
Nonblocking == prog.wait \in {"select", "poll"}
LoopStart == IF Nonblocking THEN "wait" ELSE "read"
InLoop == pc \in {"wait", "read", "print"}

Init ==
  /\ BufferInit /\ dir = "in"
  /\ prog \in Programs
  /\ pc = (IF prog \in {CmdC, CountingC} THEN "choose" ELSE IF prog = Tut3C THEN "prepare" ELSE "test1")
  /\ prepared = (prog.cmd.made = "hand")
  /\ valid = FALSE /\ ours \in BOOLEAN
  /\ fifo = 0 /\ chunk = << >> /\ col = 0 /\ out = << >> /\ why = "none"

Exit(reason) == pc' = "exit" /\ why' = reason
Goto(l) == pc' = l /\ UNCHANGED why
setup == <<bufferVars, prog, fifo, chunk, col, out>>

-----------------------------------------------------------------------------
(***************************************************************************)
(* From the command to its start.                                          *)
(***************************************************************************)

\* check_subdevice of gpct_buffered_counting.c makes the subdevice the read
\* subdevice, and goes on only if it is; the counter is then set up, and the
\* command is tested once.
CheckSubdevice ==
  /\ pc = "choose" /\ prog = CountingC
  /\ ours' \in {ours, TRUE}
  /\ (ours' /\ Goto("test2")) \/ Exit("setup")
  /\ UNCHANGED <<prepared, valid, setup>>

\* cmd.c defaults to the read subdevice, if the device has one, and makes sure
\* that the subdevice exists and takes read commands.
Choose ==
  /\ pc = "choose" /\ prog = CmdC
  /\ ours' \in {ours, TRUE}
  /\ Goto("prepare") \/ Exit("setup")
  /\ UNCHANGED <<prepared, valid, setup>>

\* prepare_cmd_lib: comedi_get_cmd_generic_timed may not find a command.
Prepare ==
  /\ pc = "prepare"
  /\ prepared' \in BOOLEAN
  /\ IF ~prepared' /\ prog.checks THEN Exit("setup") ELSE Goto("test1")
  /\ UNCHANGED <<valid, ours, setup>>

\* What the driver may answer; a command of zeroes names no trigger source.
Answers == {-1, 1} \union (IF prepared THEN {0} ELSE {})

\* The first test may adjust the command; only an error ends the program.
Test1 ==
  /\ pc = "test1"
  /\ \E r \in Answers : valid' = (r = 0) /\ IF r < 0 THEN Exit("setup") ELSE Goto("test2")
  /\ UNCHANGED <<prepared, ours, setup>>

Test2 ==
  /\ pc = "test2"
  /\ \E r \in Answers :
       /\ valid' = (r = 0)
       /\ IF r < 0 \/ (r # 0 /\ prog.insists) THEN Exit("setup")
          ELSE Goto(IF prog = CountingC THEN "command" ELSE "subdevice")
  /\ UNCHANGED <<prepared, ours, setup>>

\* comedi_set_read_subdevice, which older drivers refuse, and the question
\* that follows it.
SetReadSubdevice ==
  /\ pc = "subdevice"
  /\ ours' \in {ours, TRUE}
  /\ IF ours' THEN Goto("command") ELSE Exit("setup")
  /\ UNCHANGED <<prepared, valid, setup>>

\* comedi_command: the driver tests the command once more, and may be busy.
Command ==
  /\ pc = "command"
  /\ \/ valid /\ Goto(LoopStart)
     \/ Exit("setup")
  /\ UNCHANGED <<prepared, valid, ours, setup>>

Start == CheckSubdevice \/ Choose \/ Prepare \/ Test1 \/ Test2 \/ SetReadSubdevice \/ Command

-----------------------------------------------------------------------------
(***************************************************************************)
(* The card and its driver.                                                *)
(***************************************************************************)
unprogrammed == <<prog, pc, prepared, valid, ours, chunk, col, out, why>>

Acquire ==
  /\ InLoop /\ status = "running"
  /\ written + fifo < Total /\ fifo < FifoSize
  /\ fifo' = fifo + SampleSize
  /\ UNCHANGED <<bufferVars, unprogrammed>>

\* The driver empties the card into the buffer.
Drain == fifo > 0 /\ DeviceDelivers(fifo) /\ fifo' = 0

\* The card interrupts when the fifo is full enough, or after every scan when
\* TRIG_WAKE_EOS asks for it.
Interrupt ==
  /\ InLoop /\ (fifo = FifoSize \/ prog.cmd.wake)
  /\ Drain /\ UNCHANGED unprogrammed

\* The stream has delivered all its scans.
Finished == prog.cmd.stop = "COUNT" /\ written = Total

-----------------------------------------------------------------------------
(***************************************************************************)
(* The loop.                                                               *)
(***************************************************************************)
kept == <<prog, prepared, valid, ours>>
shown == <<chunk, col, out>>

\* select() returns because a read would not block.
Select ==
  /\ pc = "wait"
  /\ Unread > 0 \/ Broken \/ Finished
  /\ Goto("read") /\ UNCHANGED <<kept, shown, fifo, bufferVars>>

\* It returns 0 after 50 ms; poll.c then has the driver empty the card.
Timeout ==
  /\ pc = "wait" /\ Unread = 0 /\ ~Broken /\ ~Finished
  /\ IF prog.wait = "poll" /\ fifo > 0 THEN Drain ELSE UNCHANGED <<bufferVars, fifo>>
  /\ UNCHANGED unprogrammed

\* What read(2) moves: no more than is asked for, and what there is.
Moved == IF Unread < ReadSize THEN Unread ELSE ReadSize

\* The k-th sample from the read offset on.
SampleAhead(k) == [b \in 0 .. SampleSize - 1 |-> ring[Ahead(rptr, k * SampleSize + b)]]

ReadData ==
  /\ pc = "read" /\ Unread > 0
  /\ Leave(Moved)
  /\ chunk' = IF prog.prints # "none"
                THEN [k \in 1 .. Moved \div SampleSize |-> SampleAhead(k - 1)] ELSE << >>
  /\ Goto("print")
  /\ UNCHANGED <<dir, ring, written, wcount, wptr, status, errno, fifo, kept, col, out>>

\* A slip: EPIPE is taken for a pause, as in select.c.
ReadErrorRetried ==
  /\ pc = "read" /\ Unread = 0 /\ Broken
  /\ Goto(LoopStart)
  /\ UNCHANGED <<bufferVars, fifo, kept, shown>>

\* EPIPE once a broken stream is used up.  Those that use select() end on
\* EAGAIN alone and wait again.
ReadError ==
  /\ pc = "read" /\ Unread = 0 /\ Broken
  /\ IF Nonblocking THEN Goto("wait") ELSE Exit("error")
  /\ UNCHANGED <<bufferVars, fifo, kept, shown>>

\* 0 at the end of the stream; on an empty buffer a file in O_NONBLOCK mode
\* answers EAGAIN, at which those that use select() stop.
ReadNothing ==
  /\ pc = "read" /\ Unread = 0 /\ ~Broken /\ (Finished \/ Nonblocking)
  /\ Exit(IF Finished THEN "end" ELSE "EAGAIN")
  /\ UNCHANGED <<bufferVars, fifo, kept, shown>>

\* sigio.c installs its handler without SA_RESTART, so SIGIO interrupts a
\* read that waits, and the program takes EINTR for the end.
ReadInterrupted ==
  /\ pc = "read" /\ Unread = 0 /\ ~Broken /\ prog.wait = "signal"
  /\ Exit("EINTR")
  /\ UNCHANGED <<bufferVars, fifo, kept, shown>>

\* The column after the one just printed.
NextColumn == IF prog.prints # "columns" \/ col + 1 = NChan THEN 0 ELSE col + 1

\* A slip: columns are counted from each read on.
PrintNewColumns ==
  /\ pc = "print" /\ chunk # << >>
  /\ out' = Append(out, Head(chunk)) /\ chunk' = Tail(chunk)
  /\ col' = IF Len(chunk) = 1 THEN 0 ELSE NextColumn
  /\ UNCHANGED <<pc, why, fifo, kept, bufferVars>>

\* One sample printed, in its column.
PrintSample ==
  /\ pc = "print" /\ chunk # << >>
  /\ out' = Append(out, Head(chunk)) /\ chunk' = Tail(chunk)
  /\ col' = NextColumn
  /\ UNCHANGED <<pc, why, fifo, kept, bufferVars>>

ChunkDone ==
  /\ pc = "print" /\ chunk = << >>
  /\ Goto(LoopStart) /\ UNCHANGED <<kept, shown, fifo, bufferVars>>

Loop ==
  \/ Select \/ Timeout \/ ReadData \/ ReadError \/ ReadNothing
  \/ PrintSample \/ ChunkDone

ProgramStep == Start \/ Loop

Next == ProgramStep \/ ReadInterrupted \/ Acquire \/ Interrupt

Spec == Init /\ [][Next]_vars

\* A program that can go on does, and select() does time out; nothing is
\* assumed of the card.
FairSpec == Spec /\ WF_vars(ProgramStep)

-----------------------------------------------------------------------------
(***************************************************************************)
(* Properties.                                                             *)
(***************************************************************************)

\* Every variable holds a value of its kind.
TypeOK ==
  /\ BufferTypeOK /\ dir = "in"
  /\ prog \in Programs
  /\ pc \in {"choose", "prepare", "test1", "test2", "subdevice", "command",
             "wait", "read", "print", "exit"}
  /\ prepared \in BOOLEAN /\ valid \in BOOLEAN /\ ours \in BOOLEAN
  /\ fifo \in 0 .. FifoSize
  /\ chunk \in Seq([0 .. SampleSize - 1 -> Int])
  /\ out \in Seq([0 .. SampleSize - 1 -> Int])
  /\ col \in 0 .. NChan - 1
  /\ why \in {"none", "setup", "error", "end", "EAGAIN", "EINTR"}

\* However the driver answers, what is read is the stream of the command the
\* program prepared: the loop is entered only with a complete command that
\* the driver accepted, on the file's own read subdevice.
ReadsItsCommand == InLoop => ours /\ valid /\ prepared

\* Every sample is printed in the column of the channel it comes from,
\* however the reads cut the scans.
ColumnIsChannel ==
  col = IF prog.prints = "columns" THEN Len(out) % NChan ELSE 0

\* A program that takes read's 0 for the end has printed the whole
\* acquisition, and no program ends on EAGAIN while the stream is running:
\* what select() promised is still there at the read.
EndsComplete ==
  /\ why = "end" /\ prog.prints # "none" => Len(out) * SampleSize = Total
  /\ why # "EAGAIN"

Stream == INSTANCE SampleStream WITH produced <- written
StreamSpec == Stream!Spec

\* What reaches the buffer is printed in the end; with poll.c so is what the
\* card holds without ever interrupting, unless the buffer overflows.
AllRead ==
  \A n \in 1 .. Total \div SampleSize :
    /\ prog.prints # "none" /\ written >= n * SampleSize ~> Len(out) >= n
    /\ prog.wait = "poll" /\ written + fifo >= n * SampleSize
         ~> Len(out) >= n \/ status = "overflow"

\* A stream that is over ends the program; one that broke ends those that
\* look at more than EAGAIN (those that use select() go on asking for ever).
Ends ==
  /\ Finished /\ InLoop ~> pc = "exit"
  /\ Broken /\ ~Nonblocking ~> pc = "exit"
=============================================================================
