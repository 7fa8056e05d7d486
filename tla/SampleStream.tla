----------------------------- MODULE SampleStream -----------------------------
(***************************************************************************)
(* What streaming input promises: the device produces a stream of bytes,   *)
(* and the program is handed its samples one by one, each one whole, none  *)
(* lost, repeated or out of order, and none before it was produced.        *)
(***************************************************************************)
EXTENDS Integers, Sequences

CONSTANTS SampleSize, Total

VARIABLES produced, out

vars == <<produced, out>>

\* The k-th sample (from 0) of a stream whose bytes are numbered.
Sample(k) == [b \in 0 .. SampleSize - 1 |-> k * SampleSize + b]

Init == produced = 0 /\ out = << >>

Produce == \E n \in 1 .. Total - produced : produced' = produced + n /\ UNCHANGED out

Deliver ==
  /\ (Len(out) + 1) * SampleSize <= produced
  /\ out' = Append(out, Sample(Len(out)))
  /\ UNCHANGED produced

Next == Produce \/ Deliver

Spec == Init /\ [][Next]_vars
=============================================================================
