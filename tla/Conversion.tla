------------------------------ MODULE Conversion ------------------------------
(***************************************************************************)
(* lib/range.c and lib/timer.c: between raw samples and physical values,   *)
(* the choice of a range, and the settings of the hardware timers.  A      *)
(* physical value is a fraction <<n, d>>, d > 0; the code computes in      *)
(* doubles, and rounding of doubles is left out.  A timer is asked for by  *)
(* the number of ticks of its base clock in a period.                      *)
(***************************************************************************)
EXTENDS Integers, Sequences, FiniteSets

CONSTANTS RangeSet,  \* ranges [min, max, unit], min < max
          MaxDatas,  \* comedi_get_maxdata
          Volts,     \* physical values a program may pass
          Ticks,     \* base clock ticks of a timer period
          N          \* length of arrays and of range tables

Parameters ==
  /\ N \in Nat /\ MaxDatas \subseteq Nat /\ Ticks \subseteq Nat \ {0}
  /\ \A r \in RangeSet : r.min \in Int /\ r.max \in Int /\ r.min < r.max
  /\ Volts \subseteq Int \X (Nat \ {0})

VARIABLES behavior,          \* comedi_oor_is_nan
          fn, rng, maxdata,  \* the call in progress
          src,               \* its array, range table, or argument
          seen,              \* the behavior it read at its start
          i, oor, dest       \* elements done, those out of range, results

call == <<fn, rng, maxdata, src, seen>>
vars == <<behavior, call, i, oor, dest>>

NaN == <<0, 0>>
Less(v, w) == v[1] * w[2] < w[1] * v[2]
Width(r) == r.max - r.min

\* Raw values a conversion counts as out of range.
Clipped(data, md) == data = 0 \/ data >= md

\* The linear map both directions share.
Linear(data, r, md) == <<data * Width(r) + r.min * md, md>>

\* comedi_to_phys.
to_phys(data, r, md, oorIsNan) ==
  IF md = 0 \/ (oorIsNan /\ Clipped(data, md)) THEN NaN ELSE Linear(data, r, md)

\* comedi_from_phys: limited to the codes there are, else the nearest one.
from_phys(v, r, md) ==
  IF md = 0 \/ v[1] < r.min * v[2] THEN 0
  ELSE IF v[1] > r.max * v[2] THEN md
  ELSE (2 * (v[1] - r.min * v[2]) * md + v[2] * Width(r)) \div (2 * v[2] * Width(r))

\* One element of comedi_sampl_from_phys and comedi_lsampl_from_phys: the
\* scaled value is stored and then replaced, below the minimum and above it.
array_from_phys(v, r, md) ==
  [data |-> IF v[1] > r.min * v[2] THEN md ELSE 0, oor |-> v[1] # r.min * v[2]]

\* comedi_find_range: whether range r is to replace the best one so far.
Better(r, best, unit, lo, hi) ==
  /\ r.unit = unit /\ r.min <= lo /\ r.max >= hi
  /\ best = 0 \/ Width(r) < Width(src[best])

\* The divider d halved while it is above a limit: the number of halvings.
Pow2[k \in Nat] == IF k = 0 THEN 1 ELSE 2 * Pow2[k - 1]
Halvings(d, limit) ==
  CHOOSE k \in 0 .. d : d \div Pow2[k] <= limit /\ \A j \in 0 .. k - 1 : d \div Pow2[j] > limit

\* dt282x_timer: halved until it fits eight bits, and once more if that was
\* only once; the prescaler has four bits.
Dt282x(d) ==
  LET once == Halvings(d, 255)
      p == IF once = 1 THEN 2 ELSE once
  IN  [fits |-> p < 16, prescaler |-> p, divider |-> d \div Pow2[p]]

\* acl8112_timer: the divider, halved until it fits 15 bits; the prescaler
\* counts from 1 and is a factor.  Fifteen bits are AclMax here.
AclMax == 31
Acl8112(d) ==
  LET k == Halvings(d, AclMax) IN [prescaler |-> Pow2[k], divider |-> d \div Pow2[k]]

\* dt2814_timer: the first decade the frequency is nearer to than to the
\* next.  Here the argument is a frequency in mHz; decades go down from 100 kHz.
Decade(k) == <<100000000, 10000000, 1000000, 100000, 10000, 1000, 100, 10, 1>>[k + 1]
Dt2814(freq) ==
  CHOOSE k \in 0 .. 8 :
    /\ k < 8 => Decade(k) - freq < freq - (Decade(k) \div 10)
    /\ \A j \in 0 .. k - 1 : Decade(j) - freq >= freq - (Decade(j) \div 10)

\* atmio_timer and nanosec_timer: the ticks as they are.
Plain(d) == [prescaler |-> 1, divider |-> d]

-----------------------------------------------------------------------------
(***************************************************************************)
(* Calls, one array element or range at a time.                            *)
(***************************************************************************)
Idle ==
  /\ behavior \in BOOLEAN
  /\ fn = "none" /\ rng = 0 /\ maxdata = 0 /\ src = << >> /\ seen = FALSE
  /\ i = 0 /\ oor = 0 /\ dest = << >>
Init == Idle

Begin(f, d) == fn' = f /\ seen' = behavior /\ i' = 0 /\ oor' = 0 /\ dest' = d /\ UNCHANGED behavior

\* comedi_sampl_to_phys, comedi_lsampl_to_phys: what to do out of range is
\* looked up once.
CallToPhys ==
  /\ fn = "none" /\ Begin("to_phys", << >>)
  /\ rng' \in RangeSet /\ maxdata' \in MaxDatas
  /\ src' \in [1 .. N -> 0 .. maxdata' + 1]

CallFromPhys ==
  /\ fn = "none" /\ Begin("from_phys", << >>)
  /\ rng' \in RangeSet /\ maxdata' \in MaxDatas
  /\ src' \in [1 .. N -> Volts]

\* comedi_find_range for a unit and an interval; here dest is the index of the
\* best range so far, 0 for none.
CallFindRange ==
  /\ fn = "none" /\ Begin("find_range", 0)
  /\ rng' \in RangeSet /\ maxdata' = 0
  /\ src' \in [1 .. N -> RangeSet]

\* comedi_get_timer.
CallTimer ==
  /\ fn = "none" /\ fn' = "timer" /\ src' \in Ticks
  /\ dest' = [dt282x |-> Dt282x(src'), acl8112 |-> Acl8112(src'), plain |-> Plain(src'),
              dt2814 |-> Dt2814(src')]
  /\ i' = N /\ UNCHANGED <<behavior, rng, maxdata, seen, oor>>

\* A slip: the behavior is asked again for each element.
ToPhysStepAsking ==
  /\ fn = "to_phys" /\ i < N
  /\ oor' = oor + IF Clipped(src[i + 1], maxdata) THEN 1 ELSE 0
  /\ dest' = Append(dest, to_phys(src[i + 1], rng, maxdata, behavior))
  /\ i' = i + 1 /\ UNCHANGED <<behavior, call>>

ToPhysStep ==
  /\ fn = "to_phys" /\ i < N
  /\ oor' = oor + IF Clipped(src[i + 1], maxdata) THEN 1 ELSE 0
  /\ dest' = Append(dest, to_phys(src[i + 1], rng, maxdata, seen))
  /\ i' = i + 1 /\ UNCHANGED <<behavior, call>>

FromPhysStep ==
  /\ fn = "from_phys" /\ i < N
  /\ LET e == array_from_phys(src[i + 1], rng, maxdata)
     IN  oor' = oor + (IF e.oor THEN 1 ELSE 0) /\ dest' = Append(dest, e.data)
  /\ i' = i + 1 /\ UNCHANGED <<behavior, call>>

FindRangeStep ==
  /\ fn = "find_range" /\ i < N
  /\ dest' = IF Better(src[i + 1], dest, rng.unit, rng.min, rng.max) THEN i + 1 ELSE dest
  /\ i' = i + 1 /\ UNCHANGED <<behavior, call, oor>>

Return ==
  /\ fn # "none" /\ i = N
  /\ fn' = "none" /\ rng' = 0 /\ maxdata' = 0 /\ src' = << >> /\ seen' = FALSE
  /\ i' = 0 /\ oor' = 0 /\ dest' = << >> /\ UNCHANGED behavior

\* comedi_set_global_oor_behavior, by any thread at any time.
SetBehavior ==
  /\ behavior' = ~behavior /\ UNCHANGED <<call, i, oor, dest>>

Next ==
  \/ CallToPhys \/ CallFromPhys \/ CallFindRange \/ CallTimer
  \/ ToPhysStep \/ FromPhysStep \/ FindRangeStep
  \/ Return \/ SetBehavior

Spec == Init /\ [][Next]_vars

-----------------------------------------------------------------------------
(***************************************************************************)
(* Properties.                                                             *)
(***************************************************************************)
Done(f) == fn = f /\ i = N
Distance(v, w) ==
  LET n == v[1] * w[2] - w[1] * v[2] IN <<IF n < 0 THEN -n ELSE n, v[2] * w[2]>>

\* An array conversion counts the elements at either end of the range, and
\* gives NaN for all of them or for none, whatever other threads set while
\* it runs; every other value converts back to the sample it came from.
ArrayConverted ==
  Done("to_phys") =>
    /\ oor = Cardinality({k \in 1 .. N : Clipped(src[k], maxdata)})
    /\ \A k, l \in 1 .. N :
         Clipped(src[k], maxdata) /\ Clipped(src[l], maxdata) => (dest[k] = NaN <=> dest[l] = NaN)
    /\ \A k \in 1 .. N :
         /\ dest[k] = NaN => Clipped(src[k], maxdata)
         /\ dest[k] # NaN /\ src[k] <= maxdata => from_phys(dest[k], rng, maxdata) = src[k]

\* comedi_from_phys gives the code nearest to the value, and the end of the
\* range for a value beyond it.
NearestCode ==
  Done("from_phys") =>
    \A k \in 1 .. N :
      LET code == from_phys(src[k], rng, maxdata)
      IN  /\ code \in 0 .. maxdata
          /\ \A c \in 0 .. maxdata :
               ~ Less(Distance(Linear(c, rng, maxdata), src[k]),
                      Distance(Linear(code, rng, maxdata), src[k]))

\* funcref.txt:610-612 of comedi_sampl_from_phys and comedi_lsampl_from_phys:
\* "Out-of-range physical unit values are silently truncated to the range 0
\* to maxdata" -- only those; a value in the range comes out near its code.
TruncatesOnlyOutside ==
  Done("from_phys") =>
    \A k \in 1 .. N :
      ~ Less(src[k], <<rng.min, 1>>) /\ ~ Less(<<rng.max, 1>>, src[k])
        => dest[k] - from_phys(src[k], rng, maxdata) \in {-1, 0, 1}

\* comedi_find_range answers a range that covers the interval in the unit
\* asked for, none of those that do being narrower, and none only when none does.
NarrowestCover ==
  Done("find_range") =>
    LET covers == {k \in 1 .. N : src[k].unit = rng.unit /\ src[k].min <= rng.min /\ src[k].max >= rng.max}
    IN  IF covers = {} THEN dest = 0
        ELSE dest \in covers /\ \A k \in covers : Width(src[dest]) <= Width(src[k])

\* The settings fit their fields; the period they make is at most the one
\* asked for, and shorter by less than the last bit of the divider.  The
\* dt282x fails only where eight bits after fifteen halvings are too few; the
\* dt2814 gets the decade nearest to the frequency.
TimerClose ==
  Done("timer") =>
    LET period(t, f) == t.divider * f
        close(t, f) == period(t, f) <= src /\ src < period(t, f) + f
        d == dest.dt282x
    IN  /\ close(d, Pow2[d.prescaler]) /\ d.divider \in 1 .. 255 /\ d.prescaler # 1
        /\ d.fits <=> src \div Pow2[15] <= 255
        /\ close(dest.acl8112, dest.acl8112.prescaler) /\ dest.acl8112.divider \in 1 .. AclMax
        /\ dest.plain.divider = src
        /\ \A k \in 0 .. 8 : ~ Less(Distance(<<Decade(k), 1>>, <<src, 1>>),
                                  Distance(<<Decade(dest.dt2814), 1>>, <<src, 1>>))

\* Every variable holds a value of its kind.
TypeOK ==
  /\ behavior \in BOOLEAN /\ seen \in BOOLEAN
  /\ fn \in {"none", "to_phys", "from_phys", "find_range", "timer"}
  /\ i \in 0 .. N /\ oor \in 0 .. i
  /\ fn \in {"to_phys", "from_phys"} => Len(dest) = i /\ rng \in RangeSet /\ maxdata \in MaxDatas
=============================================================================
