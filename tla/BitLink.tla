------------------------------- MODULE BitLink -------------------------------
(***************************************************************************)
(* demo/sender.c and demo/receiver.c: bytes sent over two digital lines,   *)
(* a clock and a data line, to a program that takes a sample of the data   *)
(* line at each falling edge of the clock and prints them in rows.  A bit  *)
(* is written by a list of instructions; the conversion follows the edge   *)
(* before the next instruction.                                            *)
(***************************************************************************)
EXTENDS Integers, Sequences, FiniteSets

CONSTANTS Message,   \* the bits of the bytes that are sent
          Row,       \* samples to a row
          MaxPauses, \* how often select() times out
          BufSize    \* samples of one read

Parameters == Message \in Seq({0, 1}) /\ Row \in Nat \ {0} /\ MaxPauses \in Nat /\ BufSize \in Nat \ {0}

VARIABLES next,     \* the bit of the message that is being written
          insn,     \* the instruction of its list that is due
          lines,    \* level of the clock and of the data line
          failed,   \* bits whose list failed
          fifo,     \* samples not read yet
          buf,      \* samples read and not printed yet
          c,        \* samples in the row so far
          printed,  \* samples printed
          breaks,   \* how many were printed at each line feed
          pauses

vars == <<next, insn, lines, failed, fifo, buf, c, printed, breaks, pauses>>

Init ==
  /\ next = 1 /\ insn = 1 /\ lines = [clk |-> 0, dat |-> 0] /\ failed = {}
  /\ fifo = << >> /\ buf = << >> /\ c = 0 /\ printed = << >> /\ breaks = << >> /\ pauses = 0

-----------------------------------------------------------------------------
\* A slip: the clock is not lowered after a bit.
write_bits_high(bit) ==
  <<[clk |-> 0, dat |-> bit], [clk |-> 1, dat |-> bit], [clk |-> 1, dat |-> bit]>>

\* write_bits for one bit: clock low and the data, clock high, clock low; the
\* INSN_WAITs between them change nothing.
write_bits(bit) ==
  <<[clk |-> 0, dat |-> bit], [clk |-> 1, dat |-> bit], [clk |-> 0, dat |-> bit]>>

\* The receiver's card converts at a falling edge.
Converts(to) == fifo' = IF lines.clk = 1 /\ to.clk = 0 THEN Append(fifo, to.dat) ELSE fifo

\* The driver carries out the next instruction of the list.
WriteLines ==
  /\ next <= Len(Message)
  /\ lines' = write_bits(Message[next])[insn] /\ Converts(lines')
  /\ IF insn = 3 THEN insn' = 1 /\ next' = next + 1 ELSE insn' = insn + 1 /\ UNCHANGED next
  /\ UNCHANGED <<failed, buf, c, printed, breaks, pauses>>

\* comedi_do_insnlist fails at an instruction: the sender reports it and goes
\* on with the next bit.
ListFails ==
  /\ next <= Len(Message)
  /\ failed' = failed \union {next} /\ next' = next + 1 /\ insn' = 1
  /\ UNCHANGED <<lines, fifo, buf, c, printed, breaks, pauses>>

\* select() waits 50 ms for nothing: a row that was begun is ended.
Pause ==
  /\ fifo = << >> /\ buf = << >> /\ pauses < MaxPauses /\ c > 0
  /\ breaks' = Append(breaks, Len(printed)) /\ c' = 0 /\ pauses' = pauses + 1
  /\ UNCHANGED <<next, insn, lines, failed, fifo, buf, printed>>

\* read().
ReadBits ==
  /\ fifo # << >> /\ buf = << >>
  /\ LET n == IF Len(fifo) < BufSize THEN Len(fifo) ELSE BufSize
     IN  buf' = SubSeq(fifo, 1, n) /\ fifo' = SubSeq(fifo, n + 1, Len(fifo))
  /\ UNCHANGED <<next, insn, lines, failed, c, printed, breaks, pauses>>

\* One iteration of the loop that prints what was read.
PrintBit ==
  /\ buf # << >>
  /\ printed' = Append(printed, Head(buf)) /\ buf' = Tail(buf)
  /\ IF c + 1 >= Row THEN c' = 0 /\ breaks' = Append(breaks, Len(printed) + 1)
                     ELSE c' = c + 1 /\ UNCHANGED breaks
  /\ UNCHANGED <<next, insn, lines, failed, fifo, pauses>>

Next == WriteLines \/ ListFails \/ Pause \/ ReadBits \/ PrintBit

Spec == Init /\ [][Next]_vars

-----------------------------------------------------------------------------
(***************************************************************************)
(* Properties.                                                             *)
(***************************************************************************)
Received == printed \o buf \o fifo

\* Every variable holds a value of its kind.
TypeOK ==
  /\ next \in 1 .. Len(Message) + 1 /\ insn \in 1 .. 3 /\ lines \in [clk : {0, 1}, dat : {0, 1}]
  /\ failed \subseteq 1 .. Len(Message) /\ fifo \in Seq({0, 1}) /\ buf \in Seq({0, 1}) /\ printed \in Seq({0, 1})
  /\ c \in 0 .. Row - 1 /\ breaks \in Seq(Nat) /\ pauses \in 0 .. MaxPauses

\* Until a list fails, what the receiver has is the message so far, whatever
\* the pauses and however the reads cut it; a list that fails costs one bit
\* at most, and those written before the first one that failed are unharmed.
BitsArrive ==
  /\ Len(Received) \in next - 1 - Cardinality(failed) .. next - 1
  /\ \A k \in 1 .. next - 1 : (\A f \in failed : k < f) => k <= Len(Received) /\ Received[k] = Message[k]

\* The rows are full but for those a pause ended and the last, and none is
\* longer or empty: a pause in the middle of a row starts the next one there.
RowLength(r) == breaks[r] - (IF r = 1 THEN 0 ELSE breaks[r - 1])
RowsFull ==
  /\ c = Len(printed) - (IF breaks = << >> THEN 0 ELSE breaks[Len(breaks)])
  /\ \A r \in DOMAIN breaks : RowLength(r) \in 1 .. Row
  /\ Cardinality({r \in DOMAIN breaks : RowLength(r) < Row}) = pauses
=============================================================================
