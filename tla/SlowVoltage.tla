----------------------------- MODULE SlowVoltage -----------------------------
(***************************************************************************)
(* lib/sv.c and lib/timed.c: the mean of many samples of a slowly varying  *)
(* input, and a block of samples at a fixed rate.  Both take what the      *)
(* driver gives them in pieces.  A conversion is its number; a result is   *)
(* the sequence of conversions it is made of.                              *)
(***************************************************************************)
EXTENDS Integers, Sequences

CONSTANTS MaxN,   \* samples of a measurement or a block
          BufSz   \* BUFSZ, in samples

Parameters == MaxN \in Nat \ {0} /\ BufSz \in Nat \ {0}

\* sizeof(sampl_t) and sizeof(lsampl_t), and the channels of a subdevice,
\* which differ in maxdata.
SampleBytes == 2
LongBytes == 4
SvChans == {0, 1}
Maxdata(c) == 10 + c

VARIABLES sv,       \* comedi_sv_t: subdevice, chan, maxdata and n
          fresh,    \* whether chan is as it was at the last comedi_sv_update
          at, fn,   \* "idle", in a call or "done" with it; which function
          n, data,  \* samples collected; the result
          val,      \* the array: the conversion in each place, or the number of its
                    \* first byte in the stream; 0 for none
          heap,     \* arrays allocated and not freed
          taken,    \* conversions the driver has handed to this call
          ret,
          trig,     \* timed: whether the acquisition was started
          bytes     \* timed: bytes of it that were read

call == <<at, fn>>
vars == <<sv, fresh, call, n, data, val, heap, taken, ret, trig, bytes>>

Unset == <<"unset">>
NaN == <<"nan">>
Clear == [p \in 1 .. MaxN |-> 0]

Idle ==
  /\ at = "idle" /\ fn = "none" /\ n = 0 /\ data = Unset /\ val = Clear
  /\ heap = 0 /\ taken = << >> /\ ret = 0 /\ trig = FALSE /\ bytes = 0

\* A subdevice of short samples, or with SDF_LSAMPL one of long ones.
Init ==
  /\ sv \in [subdevice : {"short", "long"}, chan : SvChans, maxdata : {Maxdata(c) : c \in SvChans},
             n : 0 .. MaxN]
  /\ fresh = FALSE /\ Idle

\* The program sets the fields it may set, and calls comedi_sv_update, which
\* looks the maximum sample value of the channel up again.
SetField ==
  /\ at = "idle"
  /\ \E c \in SvChans, k \in 0 .. MaxN : sv' = [sv EXCEPT !.chan = c, !.n = k] /\ fresh' = (fresh /\ c = sv.chan)
  /\ UNCHANGED <<call, n, data, val, heap, taken, ret, trig, bytes>>

Update ==
  /\ at = "idle"
  /\ sv' = [sv EXCEPT !.maxdata = Maxdata(sv.chan)] /\ fresh' = TRUE
  /\ UNCHANGED <<call, n, data, val, heap, taken, ret, trig, bytes>>

Finish(r, freed) == at' = "done" /\ ret' = r /\ heap' = heap - freed /\ UNCHANGED <<fn, sv, fresh, trig>>

-----------------------------------------------------------------------------
(***************************************************************************)
(* comedi_sv_measure: sv_measure_l or sv_measure_s, whose arrays are of    *)
(* the samples of the subdevice.                                           *)
(***************************************************************************)
Measure ==
  /\ at = "idle" /\ fn' = "sv"
  /\ \/ at' = "in" /\ heap' = heap + 1 /\ UNCHANGED ret
     \/ at' = "done" /\ ret' = -1 /\ UNCHANGED heap
  /\ UNCHANGED <<sv, fresh, n, data, val, taken, trig, bytes>>

Collecting == at = "in" /\ fn = "sv" /\ n < sv.n

\* A slip: every answer is stored at the start of the array.
PlaceAtStart(p) == p

\* Where the p-th sample of an answer goes: t.data is val + n.
Place(p) == n + p

\* COMEDI_TRIG for the samples that are missing; it may give fewer.
Collect ==
  /\ Collecting
  /\ \E k \in 1 .. sv.n - n :
       LET next(p) == Len(taken) + p
       IN  /\ val' = [q \in 1 .. MaxN |->
                        IF \E p \in 1 .. k : Place(p) = q
                        THEN next(CHOOSE p \in 1 .. k : Place(p) = q) ELSE val[q]]
           /\ taken' = taken \o [p \in 1 .. k |-> next(p)]
           /\ n' = n + k
  /\ UNCHANGED <<sv, fresh, call, data, heap, ret, trig, bytes>>

\* An error, or no sample at all: the answer of the ioctl is returned, which
\* for no sample is 0.
StopCollecting ==
  /\ Collecting
  /\ \E r \in {-1, 0} : Finish(r, 1)
  /\ UNCHANGED <<n, data, val, taken, bytes>>

\* The mean of the first sv.n places; of none it is 0 / 0.  A range the
\* channel has not got gives NaN for each of them.
Average ==
  /\ at = "in" /\ fn = "sv" /\ n >= sv.n
  /\ data' \in {NaN, IF sv.n = 0 THEN NaN ELSE <<"mean", sv.maxdata, SubSeq(val, 1, sv.n)>>}
  /\ Finish(0, 1) /\ UNCHANGED <<n, val, taken, bytes>>

-----------------------------------------------------------------------------
(***************************************************************************)
(* comedi_timed_1chan, which takes the samples of any subdevice for short  *)
(* ones.  The device delivers as many as it is asked for, and read() is    *)
(* free to stop anywhere, also inside a sample.                            *)
(***************************************************************************)

\* The answer of comedi_trigger is not looked at.
Timed ==
  /\ at = "idle" /\ fn' = "timed"
  /\ sv' \in {[sv EXCEPT !.n = k] : k \in 0 .. MaxN}
  /\ \/ at' = "in" /\ heap' = heap + 1 /\ trig' \in BOOLEAN /\ UNCHANGED ret
     \/ at' = "done" /\ ret' = -1 /\ UNCHANGED <<heap, trig>>
  /\ UNCHANGED <<fresh, n, data, val, taken, bytes>>

\* A slip: the loop goes on until there is one sample more.
EnoughOneMore == n > sv.n

Enough == n >= sv.n
Reading == at = "in" /\ fn = "timed" /\ ~Enough

\* How many bytes are asked for, and how many the stream still has.
Asked == SampleBytes * (IF sv.n - n > BufSz THEN BufSz ELSE sv.n - n)
Width == IF sv.subdevice = "long" THEN LongBytes ELSE SampleBytes
Left == IF trig THEN Width * sv.n - bytes ELSE 0

\* Whole samples in b bytes: m /= sizeof(sampl_t).
Counted(b) == b \div SampleBytes

\* b bytes are read, and every two taken for a sample.  0 bytes leave the loop
\* where it is.
Read ==
  /\ Reading /\ Left > 0
  /\ \E b \in 1 .. Asked :
       /\ b <= Left /\ bytes' = bytes + b /\ n' = n + Counted(b)
       /\ val' = [q \in 1 .. MaxN |->
                    IF q \in n + 1 .. n + b \div SampleBytes
                    THEN 1 + bytes + SampleBytes * (q - n - 1) ELSE val[q]]
  /\ UNCHANGED <<sv, fresh, call, data, heap, taken, ret, trig>>

\* The end of the stream is read again and again.
ReadEnd == Reading /\ Left = 0 /\ UNCHANGED vars

\* A read that fails leaves the buffer allocated.
ReadFails ==
  /\ Reading /\ Finish(-1, 0) /\ UNCHANGED <<n, data, val, taken, bytes>>

TimedDone ==
  /\ at = "in" /\ fn = "timed" /\ Enough
  /\ Finish(0, 1) /\ UNCHANGED <<n, data, val, taken, bytes>>

\* The program has looked at the result.
Looked ==
  /\ at = "done"
  /\ at' = "idle" /\ fn' = "none" /\ n' = 0 /\ data' = Unset /\ val' = Clear /\ heap' = 0
  /\ taken' = << >> /\ ret' = 0 /\ trig' = FALSE /\ bytes' = 0
  /\ UNCHANGED <<sv, fresh>>

\* A call goes on; that a read fails is not what it may count on.
CallStep == Collect \/ StopCollecting \/ Average \/ Read \/ ReadEnd \/ TimedDone
Next == SetField \/ Update \/ Measure \/ Timed \/ CallStep \/ ReadFails \/ Looked

Spec == Init /\ [][Next]_vars /\ WF_vars(CallStep)

-----------------------------------------------------------------------------
(***************************************************************************)
(* Properties.                                                             *)
(***************************************************************************)

\* Every variable holds a value of its kind; what was collected fits.
TypeOK ==
  /\ sv.chan \in SvChans /\ at \in {"idle", "in", "done"} /\ fn \in {"none", "sv", "timed"}
  /\ n \in 0 .. MaxN /\ heap \in 0 .. 1 /\ ret \in {-1, 0}
  /\ at # "idle" => n <= sv.n /\ Len(taken) <= sv.n

\* A measurement that stores a number stores the mean of exactly sv.n
\* conversions, those the driver delivered, each once and in order, however
\* many pieces they came in, and with the maximum of the channel measured if
\* the program has called comedi_sv_update since it changed the channel; a
\* call that failed stores none.
AveragesAll ==
  at = "done" /\ fn = "sv" /\ data \notin {Unset, NaN} =>
    /\ ret = 0 /\ sv.n > 0 /\ data[3] = taken /\ Len(taken) = sv.n
    /\ (fresh => data[2] = Maxdata(sv.chan))

\* A call returns with nothing allocated, but for a failed read of
\* comedi_timed_1chan.
BufferFreed ==
  at = "done" /\ ~(fn = "timed" /\ ret = -1) => heap = 0

\* A block that is returned as read is of the stream, in order and no byte of
\* it twice.  Of short samples it is the stream, complete: a read that ended
\* inside a sample has lost half of it, and then there are never enough.  Of
\* long samples it is halves of some, and half of the stream at least is left.
BlockIsStream ==
  at = "done" /\ fn = "timed" /\ ret = 0 =>
    /\ \A p \in 1 .. sv.n : val[p] \in 1 .. bytes - 1
    /\ \A p, q \in 1 .. sv.n : p < q => val[p] + SampleBytes <= val[q]
    /\ sv.subdevice = "short" => Left = 0 /\ \A p \in 1 .. sv.n : val[p] = SampleBytes * p - 1

\* A block that was started returns, unless a read ended inside a sample and
\* so the stream ends before there are enough; a measurement returns always.
Misaligned == bytes # SampleBytes * n
Returns == at = "in" ~> (at = "done" \/ (fn = "timed" /\ (~trig \/ Misaligned)))

=============================================================================
