------------------------------- MODULE DataInsn -------------------------------
(***************************************************************************)
(* lib/data.c: reading and writing samples of one analog subdevice, by     *)
(* instructions where the driver has COMEDI_INSNLIST and by the older      *)
(* COMEDI_TRIG where it has not.  Either may move fewer samples than it is *)
(* asked for, and a list may stop part-way.  The device has one            *)
(* multiplexer, which needs time to settle after it is switched, and other *)
(* processes use it between any two ioctls.  A 32-bit value is a pair of   *)
(* 16-bit halves.                                                          *)
(***************************************************************************)
EXTENDS Integers, Sequences

CONSTANTS Chans,         \* channel, range and reference, as CR_PACK packs them
          MaxChunkSize,  \* max_chunk_size
          MaxN,          \* samples of one comedi_data_read_n
          Settling,      \* longest delay a program asks for, in ticks
          Halves         \* values of half a sample

Parameters ==
  /\ MaxChunkSize \in Nat \ {0} /\ MaxN \in Nat \ {0} /\ Settling \in Nat
  /\ 0 \in Halves

VARIABLES insn, insnlist,      \* has_insn_ioctl, has_insnlist_ioctl
          lsampl, bigEndian,   \* SDF_LSAMPL; the machine
          mux, settle,   \* the selected channel, and for how long it has been
          conv, dac,     \* conversions made; the value last written
          at, fn,        \* "idle", in a call or "done" with it; which function
          chan, arg,     \* its channel; its number of samples, or its delay
          value,         \* the value to write
          n, count,      \* samples still to read, and read
          buf, ret       \* the caller's array, and the answer

device == <<mux, settle, conv, dac>>
config == <<insn, insnlist, lsampl, bigEndian>>
call == <<fn, chan, arg, value>>
vars == <<config, device, at, call, n, count, buf, ret>>

\* What an element of the caller's array holds when it is not a sample.
Nothing(what) == [chan |-> what, no |-> 0, settled |-> 0]
Unset == [p \in 1 .. MaxN |-> Nothing("unset")]

\* The program is between calls.
Idle ==
  /\ at = "idle" /\ fn = "none" /\ chan \in Chans /\ arg = 0 /\ value = <<0, 0>>
  /\ n = 0 /\ count = 0 /\ buf = Unset /\ ret = 0

Init ==
  /\ insn \in BOOLEAN /\ insnlist \in BOOLEAN /\ lsampl \in BOOLEAN /\ bigEndian \in BOOLEAN
  /\ mux \in Chans /\ settle = 0 /\ conv = 0 /\ dac = <<0, 0>>
  /\ Idle

-----------------------------------------------------------------------------
(***************************************************************************)
(* The device and its driver.                                              *)
(***************************************************************************)

\* Time on channel c, when it is selected now.
SettleOn(c) == IF c = mux THEN settle ELSE 0

\* The k-th sample of a read of channel c that begins after t ticks on it.
Sample(c, k, t) == [chan |-> c, no |-> conv + k, settled |-> t]

\* The driver selects channel c, waits until it has been selected for t
\* ticks, and makes k conversions.
Converts(c, k, t) == mux' = c /\ settle' = t /\ conv' = conv + k /\ UNCHANGED dac

Tick == settle < Settling /\ settle' = settle + 1 /\ UNCHANGED <<mux, conv, dac, config, at, call, n, count, buf, ret>>

\* Another process reads some channel; at most 2 * MaxN conversions are made.
OtherRead ==
  /\ conv < 2 * MaxN /\ \E c \in Chans : Converts(c, 1, SettleOn(c))
  /\ UNCHANGED <<config, at, call, n, count, buf, ret>>

-----------------------------------------------------------------------------
(***************************************************************************)
(* The calls.                                                              *)
(***************************************************************************)
In(f) == at = "in" /\ fn = f

Call(f, a, v, k) ==
  /\ at = "idle" /\ at' = "in" /\ fn' = f /\ arg' = a /\ value' = v /\ n' = k
  /\ chan' \in Chans
  /\ UNCHANGED <<config, device, count, buf, ret>>

CallRead == Call("read", 1, value, 1)
CallReadN == \E k \in 0 .. MaxN : Call("read_n", k, value, k)
CallHint == Call("hint", 0, value, 0)
CallDelayed == \E t \in 0 .. Settling : Call("delayed", t, value, 1)
CallWrite == \E v \in Halves \X Halves : Call("write", 0, v, 0)

Answer(r) == at' = "done" /\ ret' = r /\ UNCHANGED <<call, n, count>>

\* A slip: every chunk is a full one.
ChunkSizeFull == IF n > 0 THEN MaxChunkSize ELSE n

\* How many samples the next ioctl asks for.
ChunkSize == IF n > MaxChunkSize THEN MaxChunkSize ELSE n

\* The caller's array once the first k samples of the chunk are in it and
\* the others of the chunk are "rest".
Filled(k, rest) ==
  [p \in 1 .. MaxN |->
     IF p \notin count + 1 .. count + ChunkSize THEN buf[p]
     ELSE IF p - count <= k THEN Sample(chan, p - count, SettleOn(chan)) ELSE Nothing(rest)]

Reading == n > 0 /\ (In("read") \/ In("read_n"))
NextChunk == n' = n - ChunkSize /\ count' = count + ChunkSize /\ UNCHANGED at

\* What comedi_do_insn answers when k samples of m were moved: by a list of
\* one instruction, for want of COMEDI_INSN, what it was asked for.
do_insn(k, m) == IF insn THEN k ELSE m

\* comedi_internal_data_read_n by INSN_READ, the data zeroed first.
\* comedi_data_read returns the answer, comedi_data_read_n 0.
ReadInsn ==
  /\ Reading /\ insnlist
  /\ \/ \E k \in 0 .. ChunkSize :
          /\ Converts(chan, k, SettleOn(chan)) /\ buf' = Filled(k, "zero")
          /\ NextChunk
          /\ ret' = (IF fn = "read" THEN do_insn(k, ChunkSize) ELSE 0)
     \/ buf' = Filled(0, "zero") /\ Answer(-1) /\ UNCHANGED device
  /\ UNCHANGED <<call, config>>

\* By COMEDI_TRIG.  Long samples go straight to the array, short ones through
\* a local array that is copied whole, so that its uninitialized end is copied
\* too.
ReadTrig ==
  /\ Reading /\ ~insnlist
  /\ \/ \E k \in 0 .. ChunkSize :
          /\ Converts(chan, k, SettleOn(chan))
          /\ buf' = Filled(k, IF lsampl THEN "unset" ELSE "garbage")
          /\ NextChunk /\ UNCHANGED ret
     \/ Answer(-1) /\ UNCHANGED <<device, buf>>
  /\ UNCHANGED <<call, config>>

ReadDone ==
  /\ In("read") \/ In("read_n")
  /\ n = 0
  /\ Answer(ret) /\ UNCHANGED <<config, device, buf>>

\* comedi_data_read_hint asks for 0 samples, for which
\* comedi_internal_data_read_n returns before it does anything.
Hint ==
  /\ In("hint") /\ Answer(0) /\ UNCHANGED <<config, device, buf>>

\* A slip: the list waits before it selects the channel.
DelayedWaitsFirst ==
  /\ In("delayed") /\ insnlist
  /\ Converts(chan, 1, SettleOn(chan))
  /\ buf' = [buf EXCEPT ![1] = Sample(chan, 1, SettleOn(chan))]
  /\ Answer(3) /\ UNCHANGED config

\* comedi_data_read_delayed: select the channel, wait, convert, in one list
\* that the driver runs without letting others in.
Waited == IF SettleOn(chan) + arg > Settling THEN Settling ELSE SettleOn(chan) + arg
Delayed ==
  /\ In("delayed") /\ insnlist
  /\ Converts(chan, 1, Waited) /\ buf' = [buf EXCEPT ![1] = Sample(chan, 1, Waited)]
  /\ Answer(3) /\ UNCHANGED config

\* The list gives no sample, and the zero stored beforehand stays: where there
\* is no COMEDI_INSNLIST; when the driver fails or completes but one or two of
\* the instructions, which number is the answer; or when the last of them is
\* completed without a sample.
DelayedStops ==
  /\ In("delayed")
  /\ buf' = [buf EXCEPT ![1] = Nothing("zero")]
  /\ \/ UNCHANGED device /\ Answer(-1)
     \/ /\ insnlist
        /\ \/ Converts(chan, 0, SettleOn(chan)) /\ \E r \in {-1, 1} : Answer(r)
           \/ Converts(chan, 0, Waited) /\ \E r \in {2, 3} : Answer(r)
  /\ UNCHANGED config

\* A slip: the halves the other way round.
TrigDataSwapped == <<value[1], value[2]>>

\* The two 16-bit words handed to COMEDI_TRIG; value is <<high, low>>.
TrigData == <<value[2], value[1]>>

\* What the driver makes of the words: one of 16 bits, or one of 32 in the
\* byte order of the machine.
Received(w) ==
  IF ~lsampl THEN <<0, w[1]>> ELSE IF bigEndian THEN w ELSE <<w[2], w[1]>>

Write ==
  /\ In("write")
  /\ \/ \E k \in 0 .. 1 :
          /\ dac' = (IF k = 0 THEN dac ELSE IF insnlist THEN value ELSE Received(TrigData))
          /\ Answer(IF insnlist THEN do_insn(k, 1) ELSE k) /\ UNCHANGED <<mux, settle, conv>>
     \/ Answer(-1) /\ UNCHANGED device
  /\ UNCHANGED <<config, buf>>

\* The program has looked at the answer.
Looked ==
  /\ at = "done"
  /\ at' = "idle" /\ fn' = "none" /\ arg' = 0 /\ value' = <<0, 0>> /\ n' = 0 /\ count' = 0 /\ buf' = Unset /\ ret' = 0
  /\ conv' = 0 /\ UNCHANGED <<chan, config, mux, settle, dac>>

Next ==
  \/ CallRead \/ CallReadN \/ CallHint \/ CallDelayed \/ CallWrite
  \/ ReadInsn \/ ReadTrig \/ ReadDone \/ Hint \/ Delayed \/ DelayedStops \/ Write
  \/ Looked \/ Tick \/ OtherRead

Spec == Init /\ [][Next]_vars

-----------------------------------------------------------------------------
(***************************************************************************)
(* Properties.                                                             *)
(***************************************************************************)
Good(p) == buf[p].no > 0
Done(fs) == at = "done" /\ fn \in fs
SameChunk(p, q) == (p - 1) \div MaxChunkSize = (q - 1) \div MaxChunkSize

\* Every variable holds a value of its kind; n and count are the two parts
\* of what was asked for.
TypeOK ==
  /\ {insn, insnlist, lsampl, bigEndian} \subseteq BOOLEAN /\ mux \in Chans /\ chan \in Chans
  /\ settle \in 0 .. Settling /\ conv \in 0 .. 3 * MaxN /\ dac \in Halves \X Halves
  /\ at \in {"idle", "in", "done"} /\ ret \in -1 .. 3
  /\ fn = "read_n" => n + count = arg /\ n \in 0 .. MaxN

\* The first m elements hold, in order, conversions of the channel asked for;
\* those of one chunk follow each other without another process between, and
\* only ends of chunks may be missing, which by instructions are zeroes.
InOrder(m) ==
  /\ \A p \in 1 .. m :
       IF Good(p) THEN buf[p].chan = chan ELSE insnlist => buf[p] = Nothing("zero")
  /\ \A p, q \in 1 .. m :
       p < q /\ Good(q) =>
         IF SameChunk(p, q) THEN Good(p) /\ buf[q].no = buf[p].no + q - p
         ELSE Good(p) => buf[q].no > buf[p].no

\* A read that does not fail has filled just the elements asked for, in order.
\* Whether it is a sample or a zero that it has stored, the answer of
\* comedi_data_read tells where there is COMEDI_INSN; where there is not, it is
\* 1 for either, and comedi_data_read_n never tells.
ReadsInOrder ==
  Done({"read", "read_n"}) /\ ret >= 0 =>
    /\ InOrder(arg) /\ \A p \in 1 .. MaxN : p > arg => buf[p] = Nothing("unset")
    /\ fn = "read" /\ insnlist =>
         (Good(1) => ret = 1) /\ (insn /\ ret = 1 => Good(1))

\* A read that fails has stored whole chunks from the first element on, and
\* no sample after them: what it had read by then is usable, though the
\* caller is not told how much that is.
FailureKeepsChunks ==
  Done({"read", "read_n"}) /\ ret = -1 =>
    /\ count < arg /\ count % MaxChunkSize = 0 /\ InOrder(count)
    /\ \A p \in 1 .. MaxN : Good(p) => p <= count

\* A delayed read stores a conversion of its channel, selected for as long as
\* was asked, and then answers 3, the instructions of its list; any other
\* answer, and sometimes this one, comes with a zero.
DelayedSettled ==
  Done({"delayed"}) =>
    IF Good(1) THEN ret = 3 /\ buf[1].chan = chan /\ buf[1].settled >= arg
    ELSE buf[1] = Nothing("zero")

\* A write has written its value when it answers 1 and left the device alone
\* otherwise, except that a list of one instruction answers 1 for either.  By
\* COMEDI_TRIG a subdevice of short samples takes the low half only, and on a
\* big-endian machine a long sample arrives with its halves exchanged.
WriteArrivesStep ==
  In("write") /\ at' = "done" =>
    LET sent == IF insnlist \/ (lsampl /\ ~bigEndian) THEN value
                ELSE IF lsampl THEN <<value[2], value[1]>> ELSE <<0, value[2]>>
    IN  /\ dac' = dac \/ (ret' = 1 /\ dac' = sent)
        /\ ret' = 1 /\ (insn \/ ~insnlist) => dac' = sent
WriteArrives == [][WriteArrivesStep]_vars

=============================================================================
