--------------------------- MODULE ComediCmd_proofs ---------------------------
(***************************************************************************)
(* lib/cmd.c for every driver, every finite number of threads, every list  *)
(* length and period: types, what is true of a mask while it is probed and *)
(* after, that a timed command passes its driver's test unchanged, and at  *)
(* which rate.                                                             *)
(***************************************************************************)
EXTENDS MCComediCmd, FiniteSetTheorems, SequenceTheorems, TLAPS

-----------------------------------------------------------------------------
(***************************************************************************)
(* Arithmetic of the driver's clock.                                       *)
(***************************************************************************)

\* n rounded up to a multiple of t.
RoundUp(n, t) == ((n + t - 1) \div t) * t

\* Division with remainder.
LEMMA Division ==
  ASSUME NEW u \in Nat, NEW t \in Nat \ {0}
  PROVE  /\ u \div t \in Nat
         /\ u % t \in 0 .. t - 1
         /\ u = (u \div t) * t + (u % t)
<1>1. u \div t \in Nat
  BY Z3
<1>2. u % t \in 0 .. t - 1
  OBVIOUS
<1>3. u % t = u - (u \div t) * t
  OBVIOUS
<1>4. (u \div t) * t \in Nat
  BY <1>1
<1> QED
  BY <1>1, <1>2, <1>3, <1>4

\* Rounding up gives a multiple, not below the number.
LEMMA RoundUpMultiple ==
  ASSUME NEW n \in Nat, NEW t \in Nat \ {0}
  PROVE  /\ (n + t - 1) \div t \in Nat
         /\ RoundUp(n, t) \in Nat
         /\ n <= RoundUp(n, t)
<1> DEFINE u == n + t - 1
<1>1. u \in Nat
  OBVIOUS
<1> HIDE DEF u
<1>2. /\ u \div t \in Nat
      /\ u % t \in 0 .. t - 1
      /\ u = (u \div t) * t + (u % t)
  BY <1>1, Division
<1>3. (u \div t) * t \in Nat
  BY <1>2
<1>4. (u \div t) * t > u - t
  BY <1>1, <1>2, <1>3
<1> QED
  BY <1>2, <1>3, <1>4 DEF RoundUp, u

\* A multiple is not changed by it.
LEMMA RoundUpOfMultiple ==
  ASSUME NEW k \in Nat, NEW t \in Nat \ {0}
  PROVE  RoundUp(k * t, t) = k * t
<1>1. (k * t + t - 1) \div t = k
  BY Z3
<1> QED
  BY <1>1 DEF RoundUp

\* Nor is the larger of two multiples, one of them of a multiple.
LEMMA MultipleOfMultiple ==
  ASSUME NEW k \in Nat, NEW t \in Nat, NEW m \in Nat
  PROVE  (k * t) * m = (k * m) * t /\ k * m \in Nat
  OBVIOUS

-----------------------------------------------------------------------------
(***************************************************************************)
(* The driver's test.                                                      *)
(***************************************************************************)

\* What a device is.
LEMMA DeviceKind ==
  ASSUME device \in Devices
  PROVE  /\ device.cmd \in BOOLEAN /\ device.src \in Masks
         /\ device.min \in Nat \ {0} /\ device.tick \in Nat \ {0}
  BY DevicesAssumption DEF Masks

\* Rounded, where it is used.
LEMMA RoundedIsUp ==
  ASSUME device \in Devices, NEW n \in Nat
  PROVE  /\ Rounded(n) \in Nat /\ n <= Rounded(n)
         /\ \E k \in Nat : Rounded(n) = k * device.tick
<1>1. device.tick \in Nat \ {0}
  BY DeviceKind
<1>2. Rounded(n) = RoundUp(n, device.tick)
  BY DEF Rounded, RoundUp
<1>3. Rounded(n) = ((n + device.tick - 1) \div device.tick) * device.tick
  BY DEF Rounded
<1> QED
  BY <1>1, <1>2, <1>3, RoundUpMultiple

\* A multiple of the tick is on the grid.
LEMMA RoundedMultiple ==
  ASSUME device \in Devices, NEW k \in Nat
  PROVE  Rounded(k * device.tick) = k * device.tick
<1>1. device.tick \in Nat \ {0}
  BY DeviceKind
<1>2. Rounded(k * device.tick) = RoundUp(k * device.tick, device.tick)
  BY DEF Rounded, RoundUp
<1> QED
  BY <1>1, <1>2, RoundUpOfMultiple

\* And so are 0, what was rounded, and a number of times that.
LEMMA OnTheGrid ==
  ASSUME device \in Devices, NEW n \in Nat, NEW m \in Nat
  PROVE  /\ Rounded(0) = 0
         /\ Rounded(Rounded(n)) = Rounded(n)
         /\ Rounded(n) * m \in Nat
         /\ Rounded(Rounded(n) * m) = Rounded(n) * m
<1>1. device.tick \in Nat \ {0}
  BY DeviceKind
<1>2. PICK k \in Nat : Rounded(n) = k * device.tick
  BY RoundedIsUp
<1>3. Rounded(Rounded(n)) = Rounded(n)
  BY <1>2, RoundedMultiple
<1>4. 0 * device.tick = 0
  BY <1>1
<1>5. Rounded(0) = 0
  BY <1>4, RoundedMultiple
<1>6. Rounded(n) * m = (k * m) * device.tick /\ k * m \in Nat
  BY <1>1, <1>2, MultipleOfMultiple
<1>7. Rounded((k * m) * device.tick) = (k * m) * device.tick
  BY <1>6, RoundedMultiple
<1>8. (k * m) * device.tick \in Nat
  BY <1>1, <1>6
<1> QED
  BY <1>3, <1>5, <1>6, <1>7, <1>8

\* Stage 3 leaves a command with its arguments in range.
LEMMA InRangeKind ==
  ASSUME device \in Devices, NEW c \in Commands
  PROVE  /\ InRange(c) \in Commands
         /\ InRange(c).src = c.src /\ InRange(c).scan_end_arg = c.scan_end_arg
<1>1. device.min \in Nat
  BY DeviceKind
<1> QED
  BY <1>1 DEF InRange, Commands, AtLeast

\* A command is in range if its timers are slow enough and what is not timed
\* is 0.
LEMMA InRangeMeans ==
  ASSUME device \in Devices, NEW c \in Commands
  PROVE  InRange(c) = c <=>
           /\ IF Timer(c, "convert") THEN device.min <= c.convert_arg ELSE c.convert_arg = 0
           /\ IF Timer(c, "scan_begin") THEN device.min <= c.scan_begin_arg ELSE c.scan_begin_arg = 0
<1>1. device.min \in Nat
  BY DeviceKind
<1>2. InRange(c).convert_arg = IF Timer(c, "convert") THEN AtLeast(c.convert_arg, device.min) ELSE 0
  BY DEF InRange, Commands
<1>3. InRange(c).scan_begin_arg = IF Timer(c, "scan_begin") THEN AtLeast(c.scan_begin_arg, device.min) ELSE 0
  BY DEF InRange, Commands
<1>4. InRange(c) = c <=> InRange(c).convert_arg = c.convert_arg /\ InRange(c).scan_begin_arg = c.scan_begin_arg
  BY InRangeKind DEF InRange, Commands
<1> QED
  BY <1>1, <1>2, <1>3, <1>4 DEF AtLeast, Commands

\* Stage 4 changes nothing when it is applied again.
LEMMA GridIsStable ==
  ASSUME device \in Devices, NEW c \in Commands, InRange(c) = c
  PROVE  /\ OnGrid(c) \in Commands
         /\ OnGrid(c).src = c.src /\ OnGrid(c).scan_end_arg = c.scan_end_arg
         /\ InRange(OnGrid(c)) = OnGrid(c)
         /\ OnGrid(OnGrid(c)) = OnGrid(c)
<1> DEFINE d == OnGrid(c)
<1> DEFINE low == Rounded(c.convert_arg) * c.scan_end_arg
<1>1. /\ c.convert_arg \in Nat /\ c.scan_begin_arg \in Nat /\ c.scan_end_arg \in Nat
      /\ device.min \in Nat
  BY DeviceKind DEF Commands
<1>2. /\ Rounded(c.convert_arg) \in Nat /\ c.convert_arg <= Rounded(c.convert_arg)
      /\ Rounded(c.scan_begin_arg) \in Nat /\ c.scan_begin_arg <= Rounded(c.scan_begin_arg)
      /\ Rounded(0) = 0 /\ low \in Nat /\ Rounded(low) = low
      /\ Rounded(Rounded(c.convert_arg)) = Rounded(c.convert_arg)
      /\ Rounded(Rounded(c.scan_begin_arg)) = Rounded(c.scan_begin_arg)
  BY <1>1, RoundedIsUp, OnTheGrid
<1> HIDE DEF low
<1>3. /\ d.src = c.src /\ d.scan_end_arg = c.scan_end_arg
      /\ d.convert_arg = Rounded(c.convert_arg)
      /\ d.scan_begin_arg = IF Timer(c, "scan_begin") THEN AtLeast(Rounded(c.scan_begin_arg), low) ELSE 0
  BY DEF OnGrid, Commands, low
<1>4. d \in Commands
  BY <1>1, <1>2 DEF OnGrid, Commands, AtLeast, low
<1>5. Timer(d, "convert") = Timer(c, "convert") /\ Timer(d, "scan_begin") = Timer(c, "scan_begin")
  BY <1>3 DEF Timer
<1> HIDE DEF d
<1>6. InRange(d) = d
  BY <1>1, <1>2, <1>3, <1>4, <1>5, InRangeMeans DEF AtLeast
<1>7. Rounded(d.convert_arg) = d.convert_arg /\ Rounded(d.scan_begin_arg) = d.scan_begin_arg
  BY <1>2, <1>3 DEF AtLeast
<1>8. d.convert_arg * d.scan_end_arg = low
  BY <1>3 DEF low
<1>9. Timer(d, "scan_begin") => AtLeast(d.scan_begin_arg, low) = d.scan_begin_arg
  BY <1>2, <1>3, <1>5 DEF AtLeast
<1>10. ~Timer(d, "scan_begin") => d.scan_begin_arg = 0
  BY <1>3, <1>5
<1>11. OnGrid(d) = d
  BY <1>4, <1>7, <1>8, <1>9, <1>10 DEF OnGrid, Commands
<1> QED
  BY <1>3, <1>4, <1>6, <1>11 DEF d

\* A command that got no complaint but the last has no reason for one more.
LEMMA PassesAgain ==
  ASSUME device \in Devices, NEW c \in Commands, Good(Cmdtest(c))
  PROVE  LET d == Cmdtest(c).cmd
         IN  /\ d \in Commands /\ d.scan_end_arg = c.scan_end_arg
             /\ Cmdtest(d) = Answer(0, d)
<1>1. /\ ~ \E f \in Fields : c.src[f] = {} \/ ~(c.src[f] \subseteq device.src[f])
      /\ ~ \E f \in Fields : Cardinality(c.src[f]) > 1
      /\ InRange(c) = c
      /\ Cmdtest(c) = IF OnGrid(c) # c THEN Answer(4, OnGrid(c)) ELSE Answer(0, c)
  BY DEF Good, Cmdtest, Answer
<1>2. /\ OnGrid(c) \in Commands
      /\ OnGrid(c).src = c.src /\ OnGrid(c).scan_end_arg = c.scan_end_arg
      /\ InRange(OnGrid(c)) = OnGrid(c)
      /\ OnGrid(OnGrid(c)) = OnGrid(c)
  BY <1>1, GridIsStable
<1>3. Cmdtest(OnGrid(c)) = Answer(0, OnGrid(c))
  BY <1>1, <1>2 DEF Cmdtest
<1>4. Cmdtest(c).cmd = OnGrid(c)
  BY <1>1 DEF Answer
<1> QED
  BY <1>2, <1>3, <1>4

\* The library's one or two tests leave a command that passes, for as many
\* channels.
LEMMA TestedPasses ==
  ASSUME device \in Devices, NEW c \in Commands, Good(Tested(c))
  PROVE  LET d == Tested(c).cmd
         IN  /\ d \in Commands /\ d.scan_end_arg = c.scan_end_arg
             /\ Cmdtest(d) = Answer(0, d)
<1>1. CASE Cmdtest(c).ret # 3
  BY <1>1, PassesAgain DEF Tested
<1>2. CASE Cmdtest(c).ret = 3
  <2>1. Cmdtest(c).cmd = InRange(c)
    BY <1>2 DEF Cmdtest, Answer
  <2>2. Good(Cmdtest(InRange(c))) /\ Tested(c) = Cmdtest(InRange(c))
    BY <1>2, <2>1 DEF Tested
  <2> QED
    BY <2>2, InRangeKind, PassesAgain
<1> QED
  BY <1>1, <1>2

-----------------------------------------------------------------------------
(***************************************************************************)
(* The command the library builds.                                         *)
(***************************************************************************)

\* The first of some choices is one of them.
LEMMA FirstIsOne ==
  ASSUME NEW S \in SUBSET (1 .. 3), S # {}
  PROVE  First(S) \in S
<1>1. \E k \in S : \A j \in S : k <= j
  <2>1. CASE 1 \in S
    BY <2>1
  <2>2. CASE 1 \notin S /\ 2 \in S
    BY <2>2
  <2>3. CASE 1 \notin S /\ 2 \notin S
    <3>1. \A k \in S : k = 3
      BY <2>3
    <3>2. PICK k \in S : TRUE
      OBVIOUS
    <3> QED
      BY <3>1, <3>2
  <2> QED
    BY <2>1, <2>2, <2>3
<1> QED
  BY <1>1 DEF First

\* A set of sources for every field is a mask.
LEMMA MaskOf ==
  ASSUME NEW a \in SUBSET Sources, NEW b \in SUBSET Sources, NEW c \in SUBSET Sources,
         NEW d \in SUBSET Sources, NEW e \in SUBSET Sources
  PROVE  [start |-> a, convert |-> b, scan_begin |-> c, scan_end |-> d, stop |-> e] \in Masks
<1> DEFINE r == [start |-> a, convert |-> b, scan_begin |-> c, scan_end |-> d, stop |-> e]
<1>1. DOMAIN r = Fields
  BY DEF Fields
<1>2. \A f \in Fields : r[f] \in SUBSET Sources
  BY DEF Fields
<1>3. r = [f \in DOMAIN r |-> r[f]]
  OBVIOUS
<1> HIDE DEF r
<1>4. r \in [Fields -> SUBSET Sources]
  BY <1>1, <1>2, <1>3
<1> QED
  BY <1>4 DEF Masks, r

\* What it builds, part by part: a command.
LEMMA BuiltParts ==
  ASSUME NEW m \in Masks, NEW len \in Nat \ {0}, NEW period \in Nat,
         StartsAt(m) # {}, TimingsAt(m) # {}, StopsAt(m) # {}
  PROVE  LET c == Built(m, len, period)
             timing == TimingChoices[First(TimingsAt(m))]
         IN  /\ c \in Commands /\ c.scan_end_arg = len
             /\ timing \in {TimingChoices[1], TimingChoices[2], TimingChoices[3]}
             /\ c.src["convert"] = {timing.convert} /\ c.src["scan_begin"] = {timing.scan_begin}
             /\ c.convert_arg = IF timing.convert = "TIMER" THEN ConvertPeriod(period, len) ELSE 0
             /\ c.scan_begin_arg = IF timing.scan_begin = "TIMER" THEN period ELSE 0
<1> DEFINE c == Built(m, len, period)
<1> DEFINE timing == TimingChoices[First(TimingsAt(m))]
<1> DEFINE start == StartChoices[First(StartsAt(m))]
<1> DEFINE stop == StopChoices[First(StopsAt(m))]
<1>1. First(TimingsAt(m)) \in 1 .. 3
  <2>1. TimingsAt(m) \in SUBSET (1 .. 3)
    BY DEF TimingsAt
  <2> QED
    BY <2>1, FirstIsOne
<1>2. First(StartsAt(m)) \in 1 .. 2
  <2>1. StartsAt(m) \in SUBSET (1 .. 3) /\ StartsAt(m) \in SUBSET (1 .. 2)
    BY DEF StartsAt
  <2> QED
    BY <2>1, FirstIsOne
<1>3. First(StopsAt(m)) \in 1 .. 2
  <2>1. StopsAt(m) \in SUBSET (1 .. 3) /\ StopsAt(m) \in SUBSET (1 .. 2)
    BY DEF StopsAt
  <2> QED
    BY <2>1, FirstIsOne
<1>4. timing \in {TimingChoices[1], TimingChoices[2], TimingChoices[3]}
  BY <1>1
<1>5. timing.convert \in Sources /\ timing.scan_begin \in Sources
  BY <1>4 DEF TimingChoices, Sources
<1>6. start \in Sources
  BY <1>2 DEF StartChoices, Sources
<1>7. stop \in Sources
  BY <1>3 DEF StopChoices, Sources
<1>8. ConvertPeriod(period, len) \in Nat
  <2>1. len \div 2 \in Nat
    OBVIOUS
  <2>2. (period + len \div 2) % UIntMod \in Nat
    BY <2>1, PeriodsAssumption
  <2> QED
    BY <2>2, Division DEF ConvertPeriod
<1> HIDE DEF timing, start, stop
<1>9. c = [src |-> [start |-> {start}, convert |-> {timing.convert}, scan_begin |-> {timing.scan_begin},
                    scan_end |-> {"COUNT"}, stop |-> {stop}],
           convert_arg |-> IF timing.convert = "TIMER" THEN ConvertPeriod(period, len) ELSE 0,
           scan_begin_arg |-> IF timing.scan_begin = "TIMER" THEN period ELSE 0,
           scan_end_arg |-> len]
  BY DEF Built, timing, start, stop
<1>10. c.src \in Masks
  <2>1. {"COUNT"} \in SUBSET Sources
    BY DEF Sources
  <2> QED
    BY <1>5, <1>6, <1>7, <1>9, <2>1, MaskOf
<1>11. c \in Commands
  BY <1>8, <1>9, <1>10 DEF Commands
<1> QED
  BY <1>4, <1>9, <1>11 DEF timing

-----------------------------------------------------------------------------
(***************************************************************************)
(* Types.                                                                  *)
(***************************************************************************)

\* Where a thread is tells what it has: a mask to copy, a mask of its own to
\* probe, an error to remember, channels to time, or no mask yet.
PlaceInv ==
  \A t \in Threads :
     /\ pc[t] = "copy" => mask # 0
     /\ pc[t] = "probe" => obj[t] # 0
     /\ pc[t] = "alloc" => obj[t] = 0
     /\ pc[t] = "fail" => errno[t] # "0"
     /\ obj[t] # 0 => mask # 0
     /\ pc[t] # "idle" /\ arg[t].op = "timed" => arg[t].len >= 1
     /\ pc[t] = "timed" => arg[t].op = "timed"

\* What the calls are.
LEMMA CallKind ==
  ASSUME NEW a \in Calls
  PROVE  /\ a.op \in {"mask", "timed"} /\ a.len \in Nat
         /\ a.op = "timed" => a.period \in Periods /\ a.period \in Nat /\ a.len \in Lens
<1>1. CASE a = [op |-> "mask", len |-> 0, period |-> 0]
  BY <1>1
<1>2. CASE a \in [op : {"timed"}, len : Lens, period : Periods]
  <2>1. a.op = "timed" /\ a.len \in Lens /\ a.period \in Periods
    BY <1>2
  <2>2. Lens \subseteq Nat /\ Periods \subseteq Nat
    BY LensAssumption, PeriodsAssumption
  <2> QED
    BY <2>1, <2>2
<1> QED
  BY <1>1, <1>2 DEF Calls

\* What a thread may see of a mask is a mask.
LEMMA SeenKind ==
  ASSUME TypeOK, mask # 0, NEW m \in Seen(mask)
  PROVE  m \in Masks
<1>1. content[mask] \in Masks /\ device.src \in Masks
  BY DeviceKind DEF TypeOK
<1>2. PICK k \in SUBSET Fields : m = [f \in Fields |-> IF f \in k THEN device.src[f] ELSE content[mask][f]]
  BY DEF Seen
<1> QED
  BY <1>1, <1>2 DEF Masks

\* A mask and no times make a command.
LEMMA CommandOf ==
  ASSUME NEW m \in Masks
  PROVE  /\ NoCmd \in Commands /\ NoCmd.src \in Masks
         /\ [NoCmd EXCEPT !.src = m] \in Commands
         /\ [NoCmd EXCEPT !.src = m].src = m
<1>1. NoCmd.src \in Masks
  BY DEF NoCmd, Masks
<1>2. NoCmd \in Commands
  BY <1>1 DEF NoCmd, Commands
<1> QED
  BY <1>1, <1>2 DEF NoCmd, Commands

\* TRIG_ANY is a mask, and so is no source at all.
LEMMA AnyKind == TrigAny \in Masks /\ NoCmd \in Commands
<1>1. TrigAny \in Masks
  BY DEF TrigAny, Masks
<1> QED
  BY <1>1, CommandOf

\* What a timed command is made from, and what comes of it.
LEMMA TimedReturns ==
  ASSUME TypeOK, PlaceInv, NEW t \in Threads, pc[t] = "timed",
         StartsAt(cmd[t].src) # {}, TimingsAt(cmd[t].src) # {}, StopsAt(cmd[t].src) # {},
         Good(Tested(Built(cmd[t].src, arg[t].len, arg[t].period)))
  PROVE  LET c == Built(cmd[t].src, arg[t].len, arg[t].period)
             d == Tested(c).cmd
         IN  /\ cmd[t].src \in Masks /\ arg[t].len \in Nat \ {0} /\ arg[t].period \in Nat
             /\ c \in Commands /\ d \in Commands
             /\ d.scan_end_arg = arg[t].len /\ Cmdtest(d) = Answer(0, d)
<1>1. cmd[t].src \in Masks
  BY DEF TypeOK, Commands
<1>2. arg[t].len \in Nat \ {0} /\ arg[t].period \in Nat
  <2>1. arg[t] \in Calls /\ arg[t].op = "timed" /\ arg[t].len >= 1
    BY DEF TypeOK, PlaceInv
  <2> QED
    BY <2>1, CallKind
<1>3. /\ Built(cmd[t].src, arg[t].len, arg[t].period) \in Commands
      /\ Built(cmd[t].src, arg[t].len, arg[t].period).scan_end_arg = arg[t].len
  BY <1>1, <1>2, BuiltParts
<1>4. device \in Devices
  BY DEF TypeOK
<1> QED
  BY <1>1, <1>2, <1>3, <1>4, TestedPasses

\* Init gives every variable its kind.
LEMMA InitTypes == Init => TypeOK /\ PlaceInv
<1> SUFFICES ASSUME Init PROVE TypeOK /\ PlaceInv
  OBVIOUS
<1> USE DEF Init
<1>1. [op |-> "mask", len |-> 0, period |-> 0] \in Calls
  BY DEF Calls
<1>2. arg \in [Threads -> Calls]
  BY <1>1
<1>3. cmd \in [Threads -> Commands]
  BY AnyKind
<1>4. content \in Seq(Masks) /\ mask \in 0 .. Len(content)
  OBVIOUS
<1>5. obj \in [Threads -> 0 .. Len(content)]
  OBVIOUS
<1>6. TypeOK
  BY <1>2, <1>3, <1>4, <1>5 DEF TypeOK, Errnos
<1>7. PlaceInv
  <2>1. \A t \in Threads : arg[t].op = "mask"
    OBVIOUS
  <2> QED
    BY <2>1 DEF PlaceInv
<1> QED
  BY <1>6, <1>7

\* Every step keeps them.
LEMMA StepTypes ==
  ASSUME TypeOK, PlaceInv, NEW t \in Threads, Step(t)
  PROVE  TypeOK' /\ PlaceInv'
<1> USE DEF TypeOK, PlaceInv, shared, Goto, Returns
<1>1. CASE Call(t)
  <2>1. PICK a \in Calls :
          /\ arg' = [arg EXCEPT ![t] = a]
          /\ IF a.op = "timed" /\ a.len < 1
               THEN Returns(t, "-EINVAL", NoCmd)
               ELSE Goto(t, "sticky") /\ UNCHANGED <<ret, cmd>>
    BY <1>1 DEF Call
  <2>2. UNCHANGED <<device, mask, sticky, content, obj, errno, cerrno>> /\ pc[t] = "idle"
    BY <1>1 DEF Call
  <2>3. NoCmd \in Commands /\ a.len \in Nat
    BY AnyKind, CallKind
  <2>4. TypeOK'
    BY <2>1, <2>2, <2>3, ZenonT(30)
  <2> QED
    BY <2>1, <2>2, <2>3, <2>4
<1>2. CASE CheckSticky(t)
  BY <1>2, AnyKind DEF CheckSticky
<1>3. CASE Look(t)
  BY <1>3 DEF Look
<1>4. CASE Alloc(t)
  <2>1. CASE /\ errno' = [errno EXCEPT ![t] = "ENOMEM"] /\ Tell(t, "ENOMEM")
              /\ Returns(t, "-1", NoCmd)
              /\ UNCHANGED <<shared, arg, obj>>
    BY <2>1, AnyKind DEF Tell, Errnos
  <2>2. CASE content' = Append(content, TrigAny) /\ mask' = Len(content')
              /\ obj' = [obj EXCEPT ![t] = mask'] /\ pc' = [pc EXCEPT ![t] = "probe"]
              /\ UNCHANGED <<device, sticky, arg, cmd, ret, errno, cerrno>>
    <3>1. content' \in Seq(Masks) /\ Len(content') = Len(content) + 1
      BY <2>2, AnyKind
    <3>2. mask' \in 1 .. Len(content') /\ obj' \in [Threads -> 0 .. Len(content')]
      BY <2>2, <3>1
    <3>3. mask' \in 0 .. Len(content') /\ \A u \in Threads : obj[u] \in 0 .. Len(content')
      BY <3>1, <3>2
    <3>4. TypeOK'
      BY <2>2, <3>1, <3>2, <3>3
    <3>5. PlaceInv'
      <4>1. mask' # 0 /\ obj'[t] # 0 /\ pc'[t] = "probe"
        BY <2>2, <3>2
      <4>2. \A u \in Threads \ {t} : pc'[u] = pc[u] /\ obj'[u] = obj[u]
        BY <2>2
      <4>3. UNCHANGED <<arg, errno>> /\ pc[t] = "alloc"
        BY <1>4, <2>2 DEF Alloc
      <4>4. arg[t].op = "timed" => arg[t].len >= 1
        BY <4>3
      <4> HIDE DEF TypeOK
      <4> QED
        BY <4>1, <4>2, <4>3, <4>4
    <3> QED
      BY <3>4, <3>5
  <2> QED
    BY <1>4, <2>1, <2>2 DEF Alloc
<1>5. CASE Probe(t)
  <2>1. content' \in Seq(Masks) /\ Len(content') = Len(content)
    <3>1. device.src \in Masks
      BY DeviceKind
    <3>2. content' = content \/ content' = [content EXCEPT ![obj[t]] = device.src]
      BY <1>5 DEF Probe
    <3>3. pc[t] = "probe"
      BY <1>5 DEF Probe
    <3>4. content \in Seq(Masks) /\ obj[t] \in 1 .. Len(content)
      BY <3>3
    <3>5. /\ [content EXCEPT ![obj[t]] = device.src] \in Seq(Masks)
          /\ Len([content EXCEPT ![obj[t]] = device.src]) = Len(content)
      BY <3>1, <3>4, ExceptSeq
    <3> QED
      BY <3>2, <3>4, <3>5
  <2>2. CASE pc' = [pc EXCEPT ![t] = "copy"] /\ UNCHANGED <<errno, cerrno>>
    BY <1>5, <2>1, <2>2 DEF Probe
  <2>3. CASE pc' = [pc EXCEPT ![t] = "fail"] /\ \E e \in Faults \union {"EIO"} : TestFails(t, e)
    <3>1. PICK e \in Faults \union {"EIO"} : TestFails(t, e)
      BY <2>3
    <3>2. e # "0" /\ e \in Errnos
      BY FaultsAssumption DEF Errnos
    <3>3. errno' = [errno EXCEPT ![t] = e] /\ cerrno' = [cerrno EXCEPT ![t] = IF e = "EIO" THEN "ECMDNOTSUPP" ELSE e]
      BY <3>1 DEF TestFails, Tell
    <3>4. UNCHANGED <<device, mask, sticky, arg, obj, cmd, ret>>
      BY <1>5 DEF Probe
    <3>5. TypeOK'
      BY <2>1, <2>3, <3>2, <3>3, <3>4 DEF Errnos
    <3>6. PlaceInv'
      BY <1>5, <2>1, <2>3, <3>2, <3>3, <3>4 DEF Probe
    <3> QED
      BY <3>5, <3>6
  <2> QED
    BY <1>5, <2>2, <2>3 DEF Probe
<1>6. CASE Fail(t)
  BY <1>6, AnyKind DEF Fail
<1>7. CASE Copy(t)
  <2>1. PICK m \in Seen(mask) :
          IF arg[t].op = "mask"
            THEN Returns(t, "0", [NoCmd EXCEPT !.src = m])
            ELSE /\ cmd' = [cmd EXCEPT ![t] = [NoCmd EXCEPT !.src = m]]
                 /\ Goto(t, "timed") /\ UNCHANGED ret
    BY <1>7 DEF Copy
  <2>2. UNCHANGED <<device, mask, sticky, content, arg, obj, errno, cerrno>> /\ pc[t] = "copy"
    BY <1>7 DEF Copy
  <2>3. [NoCmd EXCEPT !.src = m] \in Commands
    BY <2>2, SeenKind, CommandOf
  <2>4. arg[t].op \in {"mask", "timed"}
    BY CallKind
  <2>5. TypeOK'
    BY <2>1, <2>2, <2>3
  <2>6. PlaceInv'
    BY <2>1, <2>2, <2>4
  <2> QED
    BY <2>5, <2>6
<1>8. CASE Timed(t)
  <2>1. UNCHANGED <<device, mask, sticky, content, arg, obj>>
    BY <1>8 DEF Timed
  <2>2. /\ pc' = [pc EXCEPT ![t] = "idle"]
        /\ cmd' \in [Threads -> Commands] /\ ret' \in [Threads -> {"0", "-1", "-EINVAL"}]
    <3> DEFINE result == Tested(Built(cmd[t].src, arg[t].len, arg[t].period))
    <3>1. pc[t] = "timed"
      BY <1>8 DEF Timed
    <3>2. CASE Returns(t, "-1", NoCmd)
      BY <3>2, AnyKind
    <3>3. CASE /\ StartsAt(cmd[t].src) # {} /\ TimingsAt(cmd[t].src) # {} /\ StopsAt(cmd[t].src) # {}
               /\ Good(result) /\ Returns(t, "0", result.cmd)
      <4>1. result.cmd \in Commands
        BY <3>1, <3>3, TimedReturns
      <4> HIDE DEF result
      <4> QED
        BY <3>3, <4>1
    <3> QED
      BY <1>8, <3>2, <3>3 DEF Timed
  <2>3. errno' \in [Threads -> Errnos] /\ cerrno' \in [Threads -> Errnos \union {"ECMDNOTSUPP", "ENOTSUPPORTED"}]
    <3>1. \/ UNCHANGED errno /\ \E e \in {"0", "ENOTSUPPORTED"} : Tell(t, e)
          \/ \E e \in Faults : TestFails(t, e)
      BY <1>8 DEF Timed
    <3>2. CASE UNCHANGED errno /\ \E e \in {"0", "ENOTSUPPORTED"} : Tell(t, e)
      BY <3>2 DEF Tell, Errnos
    <3>3. CASE \E e \in Faults : TestFails(t, e)
      BY <3>3 DEF TestFails, Tell, Errnos
    <3> QED
      BY <3>1, <3>2, <3>3
  <2>4. \A u \in Threads : u # t => errno'[u] = errno[u]
    BY <1>8 DEF Timed, TestFails
  <2>5. TypeOK'
    BY <2>1, <2>2, <2>3
  <2>6. PlaceInv'
    BY <2>1, <2>2, <2>4
  <2> QED
    BY <2>5, <2>6
<1> QED
  BY <1>1, <1>2, <1>3, <1>4, <1>5, <1>6, <1>7, <1>8 DEF Step

-----------------------------------------------------------------------------
(***************************************************************************)
(* The shared mask.                                                        *)
(***************************************************************************)

\* No mask leaves out a source the driver has.
Covering == \A o \in 1 .. Len(content) : \A f \in Fields : device.src[f] \subseteq content[o][f]

\* The current mask is the driver's, unless its prober is still at work or
\* about to remember why it failed.
Settling ==
  mask # 0 /\ sticky = "0" =>
    \/ content[mask] = device.src
    \/ \E u \in Threads : pc[u] \in {"probe", "fail"} /\ obj[u] = mask

\* Every mask was made by a thread, which made no other.
Owners == {t \in Threads : obj[t] # 0}
Owned == Len(content) = Cardinality(Owners)

\* A step of a thread leaves the others, and the driver, where they were.
LEMMA OthersStay ==
  ASSUME TypeOK, NEW t \in Threads, Step(t), NEW u \in Threads, u # t
  PROVE  /\ device' = device
         /\ pc'[u] = pc[u] /\ obj'[u] = obj[u] /\ arg'[u] = arg[u]
         /\ cmd'[u] = cmd[u] /\ ret'[u] = ret[u] /\ errno'[u] = errno[u]
<1> USE DEF TypeOK, shared, Goto, Returns, Tell, TestFails
<1>1. CASE Call(t)
  BY <1>1 DEF Call
<1>2. CASE CheckSticky(t)
  BY <1>2 DEF CheckSticky
<1>3. CASE Look(t)
  BY <1>3 DEF Look
<1>4. CASE Alloc(t)
  BY <1>4 DEF Alloc
<1>5. CASE Probe(t)
  BY <1>5 DEF Probe
<1>6. CASE Fail(t)
  BY <1>6 DEF Fail
<1>7. CASE Copy(t)
  BY <1>7 DEF Copy
<1>8. CASE Timed(t)
  BY <1>8 DEF Timed
<1> QED
  BY <1>1, <1>2, <1>3, <1>4, <1>5, <1>6, <1>7, <1>8 DEF Step

\* What a step does to the masks: it makes one, it stores the driver's answer
\* in the thread's own, or it does nothing to them.
LEMMA MaskSteps ==
  ASSUME TypeOK, NEW t \in Threads, Step(t)
  PROVE  /\ device' = device
         /\ \/ /\ pc[t] = "alloc" /\ pc'[t] = "probe"
               /\ content' = Append(content, TrigAny) /\ mask' = Len(content) + 1
               /\ obj' = [obj EXCEPT ![t] = Len(content) + 1] /\ sticky' = sticky
            \/ /\ pc[t] = "probe" /\ pc'[t] = "copy"
               /\ content' = [content EXCEPT ![obj[t]] = device.src]
               /\ UNCHANGED <<mask, obj, sticky>>
            \/ /\ UNCHANGED <<content, mask, obj, sticky>>
               /\ pc[t] # "fail"
               /\ pc[t] = "probe" => pc'[t] = "fail"
            \/ /\ UNCHANGED <<content, mask, obj>>
               /\ pc[t] = "fail" /\ sticky' = errno[t]
<1> USE DEF shared, Goto, Returns
<1>0. pc \in [Threads -> {"idle", "sticky", "look", "alloc", "probe", "fail", "copy", "timed"}]
  BY DEF TypeOK
<1>1. CASE Call(t)
  BY <1>0, <1>1 DEF Call
<1>2. CASE CheckSticky(t)
  BY <1>0, <1>2 DEF CheckSticky
<1>3. CASE Look(t)
  BY <1>0, <1>3 DEF Look
<1>4. CASE Alloc(t)
  <2>1. CASE content' = Append(content, TrigAny)
    <3>1. content \in Seq(Masks)
      BY DEF TypeOK
    <3>2. Len(Append(content, TrigAny)) = Len(content) + 1
      BY <3>1, AnyKind
    <3> QED
      BY <1>0, <1>4, <2>1, <3>1, <3>2 DEF Alloc
  <2>2. CASE UNCHANGED shared
    BY <1>0, <1>4, <2>2 DEF Alloc
  <2> QED
    BY <1>4, <2>1, <2>2 DEF Alloc
<1>5. CASE Probe(t)
  BY <1>0, <1>5 DEF Probe
<1>6. CASE Fail(t)
  BY <1>0, <1>6 DEF Fail
<1>7. CASE Copy(t)
  BY <1>0, <1>7 DEF Copy
<1>8. CASE Timed(t)
  BY <1>0, <1>8 DEF Timed
<1> QED
  BY <1>1, <1>2, <1>3, <1>4, <1>5, <1>6, <1>7, <1>8 DEF Step

\* TRIG_ANY covers every driver, and a driver's answer covers itself.
LEMMA CoveringKept ==
  ASSUME TypeOK, Covering, NEW t \in Threads, Step(t)
  PROVE  Covering'
<1>1. content \in Seq(Masks) /\ device.src \in Masks /\ device' = device
  BY DeviceKind, MaskSteps DEF TypeOK
<1>2. CASE content' = Append(content, TrigAny)
  <2>1. \A f \in Fields : device.src[f] \subseteq TrigAny[f]
    BY <1>1 DEF TrigAny, Masks
  <2>2. /\ Len(content') = Len(content) + 1 /\ content'[Len(content) + 1] = TrigAny
        /\ \A o \in 1 .. Len(content) : content'[o] = content[o]
    BY <1>1, <1>2, AnyKind
  <2>3. Len(content) \in Nat
    BY <1>1
  <2>4. \A o \in 1 .. Len(content') : o \in 1 .. Len(content) \/ o = Len(content) + 1
    BY <2>2, <2>3
  <2> QED
    BY <1>1, <2>1, <2>2, <2>4 DEF Covering
<1>3. CASE content' = [content EXCEPT ![obj[t]] = device.src]
  <2>1. Len(content') = Len(content)
    BY <1>1, <1>3
  <2>2. \A o \in 1 .. Len(content) : content'[o] \in {content[o], device.src}
    BY <1>1, <1>3
  <2> QED
    BY <1>1, <2>1, <2>2 DEF Covering
<1>4. CASE content' = content
  BY <1>1, <1>4 DEF Covering
<1> QED
  BY <1>2, <1>3, <1>4, MaskSteps

\* Nor does a thread that looks in the middle of a probe miss one.
LEMMA SeenCovers ==
  ASSUME TypeOK, Covering, mask # 0, NEW m \in Seen(mask)
  PROVE  \A f \in Fields : device.src[f] \subseteq m[f]
<1>1. PICK k \in SUBSET Fields : m = [f \in Fields |-> IF f \in k THEN device.src[f] ELSE content[mask][f]]
  BY DEF Seen
<1>2. mask \in 1 .. Len(content)
  BY DEF TypeOK
<1> QED
  BY <1>1, <1>2 DEF Covering

\* So no caller is told less than the driver can do.
LEMMA CoversKept ==
  ASSUME TypeOK, PlaceInv, Covering, MaskCovers, NEW t \in Threads, Step(t)
  PROVE  MaskCovers'
<1> SUFFICES ASSUME NEW u \in Threads, Done(u, "mask")', NEW f \in Fields
             PROVE  device'.src[f] \subseteq cmd'[u].src[f]
  BY DEF MaskCovers
<1>1. device' = device
  BY MaskSteps
<1>2. CASE u # t
  <2>1. Done(u, "mask") /\ cmd'[u] = cmd[u]
    BY <1>2, OthersStay DEF Done
  <2> QED
    BY <1>1, <2>1 DEF MaskCovers
<1>3. CASE u = t
  <2> USE <1>3 DEF Goto, Returns, Done, TypeOK
  <2>1. CASE Call(t)
    <3>1. pc'[t] # "sticky"
      OBVIOUS
    <3>2. ret'[t] = "-EINVAL"
      BY <2>1, <3>1 DEF Call
    <3> QED
      BY <3>2
  <2>2. CASE CheckSticky(t)
    BY <2>2 DEF CheckSticky
  <2>3. CASE Look(t)
    BY <2>3 DEF Look
  <2>4. CASE Alloc(t)
    BY <2>4 DEF Alloc
  <2>5. CASE Probe(t)
    BY <2>5 DEF Probe
  <2>6. CASE Fail(t)
    BY <2>6 DEF Fail
  <2>7. CASE Copy(t)
    <3>1. mask # 0
      BY <2>7 DEF Copy, PlaceInv
    <3>2. PICK m \in Seen(mask) : cmd' = [cmd EXCEPT ![t] = [NoCmd EXCEPT !.src = m]]
      BY <2>7 DEF Copy
    <3>3. cmd'[t].src = m
      BY <3>1, <3>2, SeenKind, CommandOf
    <3> QED
      BY <1>1, <3>1, <3>2, <3>3, SeenCovers
  <2>8. CASE Timed(t)
    <3>1. arg'[t].op = "timed"
      BY <2>8 DEF Timed, PlaceInv
    <3> QED
      BY <3>1
  <2> QED
    BY <2>1, <2>2, <2>3, <2>4, <2>5, <2>6, <2>7, <2>8 DEF Step
<1> QED
  BY <1>2, <1>3

\* The current mask stays the driver's or in somebody's hands.
LEMMA SettlingKept ==
  ASSUME TypeOK, PlaceInv, Settling, NEW t \in Threads, Step(t)
  PROVE  Settling'
<1> USE DEF Settling
<1>1. /\ content \in Seq(Masks) /\ device.src \in Masks
      /\ obj \in [Threads -> 0 .. Len(content)]
  BY DeviceKind DEF TypeOK
<1>2. \A u \in Threads \ {t} : pc'[u] = pc[u] /\ obj'[u] = obj[u]
  BY OthersStay
<1>3. CASE /\ pc[t] = "alloc" /\ pc'[t] = "probe" /\ mask' = Len(content) + 1
           /\ obj' = [obj EXCEPT ![t] = Len(content) + 1]
  <2>1. pc'[t] \in {"probe", "fail"} /\ obj'[t] = mask'
    BY <1>1, <1>3
  <2> QED
    BY <2>1
<1>4. CASE /\ pc[t] = "probe" /\ pc'[t] = "copy"
           /\ content' = [content EXCEPT ![obj[t]] = device.src]
           /\ UNCHANGED <<mask, obj, sticky, device>>
  <2>1. obj[t] \in 1 .. Len(content)
    BY <1>1, <1>4 DEF PlaceInv
  <2>2. CASE obj[t] = mask
    <3>1. content'[mask] = device.src
      BY <1>1, <1>4, <2>1, <2>2
    <3> QED
      BY <1>4, <3>1
  <2>3. CASE obj[t] # mask
    <3>1. content'[mask] = content[mask]
      BY <1>1, <1>4, <2>1, <2>3
    <3> QED
      BY <1>2, <1>4, <2>3, <3>1
  <2> QED
    BY <2>2, <2>3
<1>5. CASE /\ UNCHANGED <<content, mask, obj, sticky, device>>
           /\ pc[t] # "fail" /\ (pc[t] = "probe" => pc'[t] = "fail")
  BY <1>2, <1>5
<1>6. CASE pc[t] = "fail" /\ sticky' = errno[t]
  BY <1>6 DEF PlaceInv
<1> QED
  BY <1>3, <1>4, <1>5, <1>6, MaskSteps

\* A mask that is made has a new owner.
LEMMA OwnedKept ==
  ASSUME TypeOK, PlaceInv, Owned, NEW t \in Threads, Step(t)
  PROVE  Owned'
<1>1. /\ content \in Seq(Masks) /\ obj \in [Threads -> 0 .. Len(content)]
  BY DEF TypeOK
<1>2. IsFiniteSet(Owners)
  BY ThreadsAssumption, FS_Subset DEF Owners
<1>3. CASE /\ pc[t] = "alloc" /\ content' = Append(content, TrigAny)
           /\ obj' = [obj EXCEPT ![t] = Len(content) + 1]
  <2>1. t \notin Owners
    BY <1>3 DEF Owners, PlaceInv
  <2>2. Owners' = Owners \union {t}
    BY <1>1, <1>3 DEF Owners
  <2>3. Cardinality(Owners \union {t}) = Cardinality(Owners) + 1
    BY <1>2, <2>1, FS_AddElement
  <2>4. Len(content') = Len(content) + 1
    BY <1>1, <1>3, AnyKind
  <2> QED
    BY <2>2, <2>3, <2>4 DEF Owned
<1>4. CASE UNCHANGED obj /\ content' = [content EXCEPT ![obj[t]] = device.src]
  <2>1. Len(content') = Len(content)
    BY <1>1, <1>4
  <2> QED
    BY <1>4, <2>1 DEF Owned, Owners
<1>5. CASE UNCHANGED <<content, obj>>
  BY <1>5 DEF Owned, Owners
<1> QED
  BY <1>3, <1>4, <1>5, MaskSteps

-----------------------------------------------------------------------------
(***************************************************************************)
(* Timed commands.                                                         *)
(***************************************************************************)

\* A call that ends well with a command, ends here.
LEMMA TimedEnds ==
  ASSUME TypeOK, PlaceInv, NEW t \in Threads, Step(t), NEW u \in Threads, Done(u, "timed")'
  PROVE  LET c == Built(cmd[t].src, arg[t].len, arg[t].period)
         IN  /\ device' = device /\ arg'[u] = arg[u]
             /\ \/ Done(u, "timed") /\ cmd'[u] = cmd[u]
                \/ /\ u = t /\ pc[t] = "timed" /\ cmd'[t] = Tested(c).cmd
                   /\ StartsAt(cmd[t].src) # {} /\ TimingsAt(cmd[t].src) # {} /\ StopsAt(cmd[t].src) # {}
                   /\ Good(Tested(c))
<1> DEFINE c == Built(cmd[t].src, arg[t].len, arg[t].period)
<1>1. device' = device
  BY MaskSteps
<1>2. CASE u # t
  BY <1>1, <1>2, OthersStay DEF Done
<1>3. CASE u = t
  <2> USE <1>3 DEF Goto, Returns, Done, TypeOK
  <2>1. CASE Call(t)
    <3>1. pc'[t] # "sticky"
      OBVIOUS
    <3>2. ret'[t] = "-EINVAL"
      BY <2>1, <3>1 DEF Call
    <3> QED
      BY <3>2
  <2>2. CASE CheckSticky(t)
    BY <2>2 DEF CheckSticky
  <2>3. CASE Look(t)
    BY <2>3 DEF Look
  <2>4. CASE Alloc(t)
    BY <2>4 DEF Alloc
  <2>5. CASE Probe(t)
    BY <2>5 DEF Probe
  <2>6. CASE Fail(t)
    BY <2>6 DEF Fail
  <2>7. CASE Copy(t)
    BY <2>7 DEF Copy
  <2>8. CASE Timed(t)
    <3> HIDE DEF c
    <3>1. pc[t] = "timed" /\ arg' = arg
      BY <2>8 DEF Timed
    <3>2. /\ StartsAt(cmd[t].src) # {} /\ TimingsAt(cmd[t].src) # {} /\ StopsAt(cmd[t].src) # {}
          /\ Good(Tested(c)) /\ cmd'[t] = Tested(c).cmd
      BY <2>8 DEF Timed, c
    <3> QED
      BY <1>1, <3>1, <3>2 DEF c
  <2> QED
    BY <2>1, <2>2, <2>3, <2>4, <2>5, <2>6, <2>7, <2>8 DEF Step
<1> QED
  BY <1>2, <1>3

\* The test depends on the driver only.
LEMMA UsableKept ==
  ASSUME TypeOK, PlaceInv, TimedUsable, NEW t \in Threads, Step(t)
  PROVE  TimedUsable'
<1> SUFFICES ASSUME NEW u \in Threads, Done(u, "timed")'
             PROVE  /\ Cmdtest(cmd[u])' = Answer(0, cmd[u])'
                    /\ cmd'[u].scan_end_arg = arg'[u].len
  BY DEF TimedUsable
<1> DEFINE d == cmd'[u]
<1>1. device' = device /\ arg'[u] = arg[u]
  BY TimedEnds
<1>2. Cmdtest(d) = Answer(0, d) /\ d.scan_end_arg = arg[u].len
  <2>1. CASE Done(u, "timed") /\ cmd'[u] = cmd[u]
    BY <2>1 DEF TimedUsable
  <2>2. CASE ~(Done(u, "timed") /\ cmd'[u] = cmd[u])
    BY <2>2, TimedEnds, TimedReturns
  <2> QED
    BY <2>1, <2>2
<1>3. Cmdtest(cmd[u])' = Cmdtest(d) /\ Answer(0, cmd[u])' = Answer(0, d)
  BY <1>1 DEF Cmdtest, Answer, InRange, OnGrid, AtLeast, Rounded, Timer
<1> QED
  BY <1>1, <1>2, <1>3

\* scan_period_ns + chanlist_len / 2 does not wrap.
NoWrap == \A period \in Periods, len \in Lens : period + len \div 2 < UIntMod

\* Multiplying keeps the order.
LEMMA TimesKeepsOrder ==
  ASSUME NEW a \in Nat, NEW b \in Nat, a <= b, NEW l \in Nat
  PROVE  /\ a * l <= b * l /\ a * l \in Nat /\ b * l \in Nat
         /\ (a + 1) * l = a * l + l
<1>1. PICK k \in Nat : b = a + k
  <2>1. b - a \in Nat /\ b = a + (b - a)
    OBVIOUS
  <2> QED
    BY <2>1
<1>2. b * l = a * l + k * l /\ k * l \in Nat /\ a * l \in Nat
  BY <1>1
<1>3. (a + 1) * l = a * l + l
  OBVIOUS
<1> QED
  BY <1>2, <1>3

\* Half the divisor added, the quotient is the nearest, and no lower than a
\* bound of the exact one.
LEMMA NearestQuotient ==
  ASSUME NEW p \in Nat, NEW l \in Nat \ {0}, NEW low \in Nat, low * l <= p
  PROVE  LET q == (p + l \div 2) \div l
         IN  /\ q \in Nat /\ q * l \in Nat /\ low <= q
             /\ 2 * Abs(q * l - p) <= l
<1> DEFINE h == l \div 2
<1> DEFINE u == p + h
<1> DEFINE q == u \div l
<1> DEFINE r == u % l
<1>1. h \in Nat /\ 2 * h <= l /\ l <= 2 * h + 1
  OBVIOUS
<1>2. u \in Nat
  BY <1>1
<1> HIDE DEF u
<1>3. q \in Nat /\ r \in 0 .. l - 1 /\ u = q * l + r
  BY <1>2, Division
<1> HIDE DEF q, r, h
<1>4. q * l \in Nat
  BY <1>3
<1>5. u = p + h
  BY DEF u
<1>6. 2 * Abs(q * l - p) <= l
  BY <1>1, <1>2, <1>3, <1>4, <1>5 DEF Abs
<1>7. low <= q
  <2>1. SUFFICES ASSUME q + 1 <= low PROVE FALSE
    BY <1>3
  <2>2. (q + 1) * l <= low * l /\ low * l \in Nat /\ (q + 1) * l \in Nat
    BY <1>3, <2>1, TimesKeepsOrder
  <2>3. (q + 1) * l = q * l + l
    BY <1>3, TimesKeepsOrder
  <2> QED
    BY <1>1, <1>3, <1>4, <1>5, <2>2, <2>3
<1> QED
  BY <1>3, <1>4, <1>6, <1>7 DEF q, u, h

\* A driver that takes any period is asked for the nearest there is, and
\* takes it.
LEMMA RateOf ==
  ASSUME device \in Devices, NEW m \in Masks, NEW len \in Nat \ {0}, NEW period \in Nat,
         StartsAt(m) # {}, TimingsAt(m) # {}, StopsAt(m) # {},
         Good(Tested(Built(m, len, period))),
         period + len \div 2 < UIntMod,
         device.tick = 1, device.min * len <= period
  PROVE  2 * Abs(ScanPeriod(Tested(Built(m, len, period)).cmd) - period) <= len
<1> DEFINE c == Built(m, len, period)
<1> DEFINE timing == TimingChoices[First(TimingsAt(m))]
<1> DEFINE q == ConvertPeriod(period, len)
<1>1. device.min \in Nat \ {0}
  BY DeviceKind
<1>2. q = (period + len \div 2) \div len
  <2>1. len \div 2 \in Nat
    OBVIOUS
  <2>2. (period + len \div 2) % UIntMod = period + len \div 2
    BY <2>1, PeriodsAssumption
  <2> QED
    BY <2>2 DEF ConvertPeriod
<1>3. q \in Nat /\ q * len \in Nat /\ device.min <= q /\ 2 * Abs(q * len - period) <= len
  BY <1>1, <1>2, NearestQuotient
<1>4. /\ c \in Commands /\ c.scan_end_arg = len
      /\ timing \in {TimingChoices[1], TimingChoices[2], TimingChoices[3]}
      /\ c.src["convert"] = {timing.convert} /\ c.src["scan_begin"] = {timing.scan_begin}
      /\ c.convert_arg = IF timing.convert = "TIMER" THEN q ELSE 0
      /\ c.scan_begin_arg = IF timing.scan_begin = "TIMER" THEN period ELSE 0
  BY BuiltParts
<1> HIDE DEF q, timing, c
<1>5. /\ Timer(c, "convert") <=> timing.convert = "TIMER"
      /\ Timer(c, "scan_begin") <=> timing.scan_begin = "TIMER"
  BY <1>4 DEF Timer
<1>6. device.min <= period
  <2>1. 1 * device.min <= len * device.min
    BY <1>1, TimesKeepsOrder
  <2> QED
    BY <1>1, <2>1
<1>7. InRange(c) = c
  BY <1>3, <1>4, <1>5, <1>6, InRangeMeans
<1>8. Tested(c).cmd = OnGrid(c)
  <2>1. Cmdtest(c).ret # 3
    BY <1>7 DEF Cmdtest, Answer
  <2>2. Good(Cmdtest(c)) /\ Tested(c) = Cmdtest(c)
    BY <2>1 DEF Tested, c
  <2> QED
    BY <1>7, <2>2 DEF Cmdtest, Answer, Good
<1>9. \A n \in Nat : Rounded(n) = n
  <2> SUFFICES ASSUME NEW n \in Nat PROVE Rounded(n) = n
    OBVIOUS
  <2>1. n * device.tick = n
    OBVIOUS
  <2> QED
    BY <2>1, RoundedMultiple
<1>10. /\ OnGrid(c).src = c.src /\ OnGrid(c).scan_end_arg = len
       /\ OnGrid(c).convert_arg = c.convert_arg
       /\ OnGrid(c).scan_begin_arg = IF Timer(c, "scan_begin")
                                       THEN AtLeast(c.scan_begin_arg, c.convert_arg * len) ELSE 0
  BY <1>4, <1>9 DEF OnGrid, Commands
<1>11. Timer(OnGrid(c), "scan_begin") <=> timing.scan_begin = "TIMER"
  BY <1>5, <1>10 DEF Timer
<1>12. CASE timing = TimingChoices[1]
  <2>1. timing.convert = "TIMER" /\ timing.scan_begin = "FOLLOW"
    BY <1>12 DEF TimingChoices
  <2>2. ScanPeriod(OnGrid(c)) = q * len
    BY <1>4, <1>10, <1>11, <2>1 DEF ScanPeriod
  <2> QED
    BY <1>3, <1>8, <2>2 DEF c
<1>13. CASE timing = TimingChoices[2]
  <2>1. timing.convert = "NOW" /\ timing.scan_begin = "TIMER"
    BY <1>13 DEF TimingChoices
  <2>2. 0 * len = 0
    OBVIOUS
  <2>3. ScanPeriod(OnGrid(c)) = period
    BY <1>4, <1>5, <1>10, <1>11, <2>1, <2>2 DEF ScanPeriod, AtLeast
  <2>4. 2 * Abs(period - period) <= len
    BY DEF Abs
  <2> QED
    BY <1>8, <2>3, <2>4 DEF c
<1>14. CASE timing = TimingChoices[3]
  <2>1. timing.convert = "TIMER" /\ timing.scan_begin = "TIMER"
    BY <1>14 DEF TimingChoices
  <2>2. ScanPeriod(OnGrid(c)) = AtLeast(period, q * len)
    BY <1>4, <1>5, <1>10, <1>11, <2>1 DEF ScanPeriod
  <2>3. 2 * Abs(AtLeast(period, q * len) - period) <= len
    BY <1>3 DEF AtLeast, Abs
  <2> QED
    BY <1>8, <2>2, <2>3 DEF c
<1> QED
  BY <1>4, <1>12, <1>13, <1>14

\* So a timed command keeps to the period asked for.
LEMMA RateStays ==
  ASSUME NoWrap, TypeOK, PlaceInv, RateKept, NEW t \in Threads, Step(t)
  PROVE  RateKept'
<1> SUFFICES ASSUME NEW u \in Threads, Done(u, "timed")', device'.tick = 1,
                    device'.min * arg'[u].len <= arg'[u].period
             PROVE  2 * Abs(ScanPeriod(cmd'[u]) - arg'[u].period) <= arg'[u].len
  BY DEF RateKept, ScanPeriod, Abs, Timer
<1> DEFINE c == Built(cmd[t].src, arg[t].len, arg[t].period)
<1>1. device' = device /\ arg'[u] = arg[u]
  BY TimedEnds
<1>2. CASE Done(u, "timed") /\ cmd'[u] = cmd[u]
  BY <1>1, <1>2 DEF RateKept
<1>3. CASE ~(Done(u, "timed") /\ cmd'[u] = cmd[u])
  <2>1. /\ u = t /\ pc[t] = "timed" /\ cmd'[t] = Tested(c).cmd
        /\ StartsAt(cmd[t].src) # {} /\ TimingsAt(cmd[t].src) # {} /\ StopsAt(cmd[t].src) # {}
        /\ Good(Tested(c))
    BY <1>3, TimedEnds
  <2>2. cmd[t].src \in Masks /\ arg[t].len \in Nat \ {0} /\ arg[t].period \in Nat
    BY <2>1, TimedReturns
  <2>3. arg[t].period + arg[t].len \div 2 < UIntMod
    <3>1. arg[t] \in Calls /\ arg[t].op = "timed"
      BY <2>1 DEF TypeOK, PlaceInv
    <3>2. arg[t].period \in Periods /\ arg[t].len \in Lens
      BY <3>1, CallKind
    <3> QED
      BY <3>2 DEF NoWrap
  <2>4. device \in Devices
    BY DEF TypeOK
  <2> HIDE DEF c
  <2>5. 2 * Abs(ScanPeriod(Tested(c).cmd) - arg[t].period) <= arg[t].len
    BY <1>1, <2>1, <2>2, <2>3, <2>4, RateOf DEF c
  <2> QED
    BY <1>1, <2>1, <2>5
<1> QED
  BY <1>2, <1>3

-----------------------------------------------------------------------------
(***************************************************************************)
(* A program of one thread.                                                *)
(***************************************************************************)

\* The others never call, and whoever gets as far as the mask has found no
\* remembered failure.
AloneInv ==
  alone =>
    /\ \A u \in Threads \ {Alone} : pc[u] = "idle" /\ cmd[u] = NoCmd
    /\ pc[Alone] \in {"look", "alloc", "probe", "copy"} => sticky = "0"
    /\ MaskSupported

\* Where the only thread goes.
LEMMA AlonePlace ==
  ASSUME TypeOK, Step(Alone), pc'[Alone] \in {"look", "alloc", "probe", "copy"},
         pc[Alone] \in {"look", "alloc", "probe", "copy"} => sticky = "0"
  PROVE  sticky' = "0"
<1> USE AloneAssumption DEF TypeOK, shared, Goto, Returns
<1>1. CASE Call(Alone)
  BY <1>1 DEF Call
<1>2. CASE CheckSticky(Alone)
  BY <1>2 DEF CheckSticky
<1>3. CASE Look(Alone)
  BY <1>3 DEF Look
<1>4. CASE Alloc(Alone)
  BY <1>4 DEF Alloc
<1>5. CASE Probe(Alone)
  BY <1>5 DEF Probe
<1>6. CASE Fail(Alone)
  BY <1>6 DEF Fail
<1>7. CASE Copy(Alone)
  BY <1>7 DEF Copy
<1>8. CASE Timed(Alone)
  BY <1>8 DEF Timed
<1> QED
  BY <1>1, <1>2, <1>3, <1>4, <1>5, <1>6, <1>7, <1>8 DEF Step

\* What it copies is what the driver answered.
LEMMA AloneSees ==
  ASSUME TypeOK, PlaceInv, Settling, AloneInv, alone, pc[Alone] = "copy", NEW m \in Seen(mask)
  PROVE  m = device.src
<1>1. mask # 0 /\ sticky = "0"
  BY AloneAssumption DEF PlaceInv, AloneInv
<1>2. \A u \in Threads : pc[u] \notin {"probe", "fail"}
  BY DEF AloneInv
<1>3. content[mask] = device.src
  BY <1>1, <1>2 DEF Settling
<1>4. m = [f \in Fields |-> IF f \in {} THEN device.src[f] ELSE content[mask][f]]
  BY <1>2 DEF Seen
<1>5. device.src \in Masks
  BY DeviceKind DEF TypeOK
<1> QED
  BY <1>3, <1>4, <1>5 DEF Masks

\* So it is told exactly what the driver supports.
LEMMA AloneKept ==
  ASSUME TypeOK, PlaceInv, Settling, AloneInv, CmdNext
  PROVE  AloneInv'
<1> SUFFICES ASSUME alone' PROVE AloneInv'
  BY DEF AloneInv
<1>1. alone /\ Step(Alone) /\ Alone \in Threads
  BY AloneAssumption DEF CmdNext
<1>2. \A u \in Threads \ {Alone} : pc'[u] = pc[u] /\ cmd'[u] = cmd[u]
  BY <1>1, OthersStay
<1>3. \A u \in Threads \ {Alone} : pc'[u] = "idle" /\ cmd'[u] = NoCmd
  BY <1>1, <1>2 DEF AloneInv
<1>4. pc'[Alone] \in {"look", "alloc", "probe", "copy"} => sticky' = "0"
  BY <1>1, AlonePlace DEF AloneInv
<1>5. device' = device
  BY <1>1, MaskSteps
<1>6. SUFFICES ASSUME Done(Alone, "mask")' PROVE cmd'[Alone].src = device.src
  BY <1>3, <1>4, <1>5 DEF AloneInv, MaskSupported, Done
<1> USE <1>1, <1>6 DEF Goto, Returns, Done
<1>7. /\ pc \in [Threads -> {"idle", "sticky", "look", "alloc", "probe", "fail", "copy", "timed"}]
      /\ cmd \in [Threads -> Commands] /\ ret \in [Threads -> {"0", "-1", "-EINVAL"}]
  BY DEF TypeOK
<1>8. CASE Call(Alone)
  <2>1. pc'[Alone] # "sticky"
    OBVIOUS
  <2>2. ret'[Alone] = "-EINVAL"
    BY <1>7, <1>8, <2>1 DEF Call
  <2> QED
    BY <2>2
<1>9. CASE CheckSticky(Alone)
  BY <1>7, <1>9 DEF CheckSticky
<1>10. CASE Look(Alone)
  BY <1>7, <1>10 DEF Look
<1>11. CASE Alloc(Alone)
  BY <1>7, <1>11 DEF Alloc
<1>12. CASE Probe(Alone)
  BY <1>7, <1>12 DEF Probe
<1>13. CASE Fail(Alone)
  BY <1>7, <1>13 DEF Fail
<1>14. CASE Copy(Alone)
  <2>1. PICK m \in Seen(mask) : cmd' = [cmd EXCEPT ![Alone] = [NoCmd EXCEPT !.src = m]]
    BY <1>14 DEF Copy
  <2>2. m = device.src
    BY <1>14, AloneSees DEF Copy
  <2>3. device.src \in Masks
    BY DeviceKind DEF TypeOK
  <2>4. cmd'[Alone].src = m
    BY <1>7, <2>1, <2>2, <2>3, CommandOf
  <2> QED
    BY <2>2, <2>4
<1>15. CASE Timed(Alone)
  <2>1. arg'[Alone].op = "timed"
    BY <1>15 DEF Timed, PlaceInv
  <2> QED
    BY <2>1
<1> QED
  BY <1>8, <1>9, <1>10, <1>11, <1>12, <1>13, <1>14, <1>15 DEF Step

-----------------------------------------------------------------------------
(***************************************************************************)
(* The theorems.                                                           *)
(***************************************************************************)

\* What holds whatever threads call: with it, everything below.
CmdInv ==
  /\ TypeOK /\ PlaceInv
  /\ Covering /\ MaskCovers /\ Settling /\ Owned
  /\ TimedUsable

\* It holds of a fresh handle.
LEMMA InitInv == Init => CmdInv /\ RateKept
<1> SUFFICES ASSUME Init PROVE CmdInv /\ RateKept
  OBVIOUS
<1>1. TypeOK /\ PlaceInv
  BY InitTypes
<1>2. \A t \in Threads : cmd[t] = NoCmd /\ obj[t] = 0
  BY DEF Init
<1>3. MaskCovers /\ TimedUsable /\ RateKept
  BY <1>2 DEF MaskCovers, TimedUsable, RateKept, Done
<1>4. Covering /\ Settling
  BY DEF Init, Covering, Settling
<1>5. Owned
  <2>1. Owners = {}
    BY <1>2 DEF Owners
  <2> QED
    BY <2>1, FS_EmptySet DEF Init, Owned
<1> QED
  BY <1>1, <1>3, <1>4, <1>5 DEF CmdInv

\* A step that changes no variable changes none of it.
LEMMA StutterInv ==
  ASSUME CmdInv, UNCHANGED vars
  PROVE  CmdInv'
<1> USE DEF CmdInv, vars, shared, local
<1>1. TypeOK' /\ PlaceInv'
  BY DEF TypeOK, PlaceInv
<1>2. Covering' /\ Settling' /\ Owned'
  BY DEF Covering, Settling, Owned, Owners
<1>3. MaskCovers'
  BY DEF MaskCovers, Done
<1>4. TimedUsable'
  <2> SUFFICES ASSUME NEW u \in Threads, Done(u, "timed")'
               PROVE  Cmdtest(cmd[u])' = Answer(0, cmd[u])' /\ cmd'[u].scan_end_arg = arg'[u].len
    BY DEF TimedUsable
  <2> DEFINE d == cmd'[u]
  <2>1. Cmdtest(d) = Answer(0, d) /\ d.scan_end_arg = arg'[u].len
    BY DEF TimedUsable, Done
  <2>2. Cmdtest(cmd[u])' = Cmdtest(d) /\ Answer(0, cmd[u])' = Answer(0, d)
    BY DEF Cmdtest, Answer, InRange, OnGrid, AtLeast, Rounded, Timer
  <2> QED
    BY <2>1, <2>2
<1> QED
  BY <1>1, <1>2, <1>3, <1>4

\* Every step keeps it.
LEMMA NextInv == CmdInv /\ [Next]_vars => CmdInv'
<1> SUFFICES ASSUME CmdInv, Next PROVE CmdInv'
  BY StutterInv
<1>1. PICK t \in Threads : Step(t)
  BY DEF Next
<1> QED
  BY <1>1, StepTypes, CoveringKept, CoversKept, SettlingKept, OwnedKept, UsableKept DEF CmdInv

\* lib/cmd.c keeps every variable in its kind, whoever calls and whatever the
\* driver answers.
THEOREM CmdTypes == Spec => []TypeOK
<1>1. Spec => []CmdInv
  BY InitInv, NextInv, PTL DEF Spec
<1>2. CmdInv => TypeOK
  BY DEF CmdInv
<1> QED
  BY <1>1, <1>2, PTL

\* Whoever else is probing, comedi_get_cmd_src_mask leaves out no source the
\* driver has; once nobody is inside the library the handle holds the driver's
\* mask or a remembered failure; and no more masks are made than there are
\* threads.
THEOREM MasksAreTrue == Spec => []MasksTrue
<1>1. Spec => []CmdInv
  BY InitInv, NextInv, PTL DEF Spec
<1>2. CmdInv => MasksTrue
  <2> SUFFICES ASSUME CmdInv PROVE MasksTrue
    OBVIOUS
  <2>1. MaskCovers
    BY DEF CmdInv
  <2>2. SettledMask
    BY DEF CmdInv, Settling, SettledMask, Quiet
  <2>3. Cardinality(Owners) <= Cardinality(Threads)
    BY ThreadsAssumption, FS_Subset DEF Owners
  <2>4. FewMasksLost
    BY <2>3 DEF CmdInv, Owned, FewMasksLost
  <2> QED
    BY <2>1, <2>2, <2>4 DEF MasksTrue
<1> QED
  BY <1>1, <1>2, PTL

\* A command comedi_get_cmd_generic_timed hands out passes the driver's test
\* unchanged, for as many channels as were asked for.
THEOREM TimedIsUsable == Spec => []TimedUsable
<1>1. Spec => []CmdInv
  BY InitInv, NextInv, PTL DEF Spec
<1>2. CmdInv => TimedUsable
  BY DEF CmdInv
<1> QED
  BY <1>1, <1>2, PTL

\* On a driver without limits it runs at the period asked for, give or take
\* half a tick per channel, provided scan_period_ns + chanlist_len / 2 fits an
\* unsigned int.
THEOREM RateIsKept == NoWrap => (Spec => []RateKept)
<1> SUFFICES ASSUME NoWrap PROVE Spec => []RateKept
  OBVIOUS
<1> DEFINE Inv == CmdInv /\ RateKept
<1>1. Init => Inv
  BY InitInv
<1>2. Inv /\ [Next]_vars => Inv'
  <2> SUFFICES ASSUME Inv, [Next]_vars PROVE Inv'
    OBVIOUS
  <2>1. CmdInv'
    BY NextInv
  <2>2. CASE Next
    <3>1. PICK t \in Threads : Step(t)
      BY <2>2 DEF Next
    <3> QED
      BY <2>1, <3>1, RateStays DEF CmdInv
  <2>3. CASE UNCHANGED vars
    BY <2>1, <2>3 DEF RateKept, Done, ScanPeriod, Timer, Abs, vars, shared, local
  <2> QED
    BY <2>2, <2>3
<1>3. Inv => RateKept
  OBVIOUS
<1> QED
  BY <1>1, <1>2, <1>3, PTL DEF Spec

\* A program that calls from one thread is told exactly the sources the driver
\* supports, whatever failed before.
THEOREM SupportedWhenAlone == CmdSpec => []SupportedAlone
<1> DEFINE Inv == CmdInv /\ AloneInv
<1>1. CmdInit => Inv
  <2> SUFFICES ASSUME CmdInit PROVE Inv
    OBVIOUS
  <2>1. Init /\ CmdInv
    BY InitInv DEF CmdInit
  <2>2. \A t \in Threads : cmd[t] = NoCmd /\ pc[t] = "idle"
    BY <2>1 DEF Init
  <2>3. AloneInv
    BY <2>2, AloneAssumption DEF AloneInv, MaskSupported, Done
  <2> QED
    BY <2>1, <2>3
<1>2. Inv /\ [CmdNext]_<<vars, alone>> => Inv'
  <2> SUFFICES ASSUME Inv, [CmdNext]_<<vars, alone>> PROVE Inv'
    OBVIOUS
  <2>1. CASE CmdNext
    <3>1. \E t \in Threads : Step(t)
      BY <2>1, AloneAssumption DEF CmdNext
    <3>2. CmdInv'
      BY <3>1, NextInv DEF Next
    <3> QED
      BY <2>1, <3>2, AloneKept DEF CmdInv
  <2>2. CASE UNCHANGED <<vars, alone>>
    <3>1. CmdInv'
      BY <2>2, StutterInv
    <3>2. AloneInv'
      BY <2>2 DEF AloneInv, MaskSupported, Done, vars, shared, local
    <3> QED
      BY <3>1, <3>2
  <2> QED
    BY <2>1, <2>2
<1>3. Inv => SupportedAlone
  BY DEF AloneInv, SupportedAlone
<1> QED
  BY <1>1, <1>2, <1>3, PTL DEF CmdSpec

==============================================================================
