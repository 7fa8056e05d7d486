------------------------------ MODULE ComediCmd ------------------------------
(***************************************************************************)
(* lib/cmd.c: comedi_get_cmd_src_mask, which probes a subdevice's trigger  *)
(* sources once and keeps the answer in the handle, and                    *)
(* comedi_get_cmd_generic_timed, which turns that mask into a command.     *)
(* The threads of a program share the handle (comedi_errno is thread-local *)
(* for their sake); a step is one access to the shared subdevice record or *)
(* one ioctl.  The driver's COMEDI_CMDTEST is external, modelled from the  *)
(* stages comedi_command_test documents.                                   *)
(***************************************************************************)
EXTENDS Integers, Sequences, FiniteSets

CONSTANTS Threads,
          Devices,    \* what the driver may be
          Lens,       \* chanlist_len a program may pass
          Periods,    \* scan_period_ns a program may pass
          Faults,     \* errnos CMDTEST may fail with on a subdevice with commands
          UIntMod     \* UINT_MAX + 1

Sources == {"NOW", "INT", "EXT", "TIMER", "FOLLOW", "COUNT", "NONE"}
Fields == {"start", "scan_begin", "convert", "scan_end", "stop"}

ASSUME ThreadsAssumption == IsFiniteSet(Threads)
ASSUME LensAssumption == Lens \subseteq Nat
ASSUME PeriodsAssumption == UIntMod \in Nat \ {0} /\ Periods \subseteq 0 .. UIntMod - 1
ASSUME DevicesAssumption ==
  \A d \in Devices :
     /\ d.cmd \in BOOLEAN              \* it has commands at all
     /\ d.src \in [Fields -> SUBSET Sources]
     /\ d.min \in Nat \ {0}            \* shortest period of a timer
     /\ d.tick \in Nat \ {0}           \* periods are multiples of this

ASSUME FaultsAssumption == "0" \notin Faults

VARIABLES device,   \* the driver
          mask,     \* s->cmd_mask: 0 for NULL, else an index into content
          sticky,   \* s->cmd_mask_errno
          content,  \* the masks ever allocated
          pc, arg,  \* per thread: where it is, and the call it makes
          obj,      \* its local variable mask
          cmd, ret, \* what its last call gave it
          errno, cerrno   \* errno and comedi_errno, both thread-local

shared == <<device, mask, sticky, content>>
local == <<pc, arg, obj, cmd, ret, errno, cerrno>>
vars == <<shared, local>>

TrigAny == [f \in Fields |-> Sources]
NoCmd == [src |-> [f \in Fields |-> {}], convert_arg |-> 0, scan_begin_arg |-> 0, scan_end_arg |-> 0]

Calls == {[op |-> "mask", len |-> 0, period |-> 0]}
           \union [op : {"timed"}, len : Lens, period : Periods]

-----------------------------------------------------------------------------
(***************************************************************************)
(* COMEDI_CMDTEST: what it answers, and what it makes of the command.      *)
(***************************************************************************)
AtLeast(n, low) == IF n < low THEN low ELSE n
Rounded(n) == ((n + device.tick - 1) \div device.tick) * device.tick
Timer(c, f) == c.src[f] = {"TIMER"}

\* Arguments in range (stage 3), then on the driver's grid with a scan at
\* least as long as its conversions (stage 4).
InRange(c) ==
  [c EXCEPT !.convert_arg = IF Timer(c, "convert") THEN AtLeast(@, device.min) ELSE 0,
            !.scan_begin_arg = IF Timer(c, "scan_begin") THEN AtLeast(@, device.min) ELSE 0]

OnGrid(c) ==
  LET conv == Rounded(c.convert_arg)
  IN  [c EXCEPT !.convert_arg = conv,
                !.scan_begin_arg =
                    IF Timer(c, "scan_begin") THEN AtLeast(Rounded(@), conv * c.scan_end_arg)
                    ELSE 0]

Answer(n, c) == [ret |-> n, cmd |-> c]

Cmdtest(c) ==
  IF \E f \in Fields : c.src[f] = {} \/ ~(c.src[f] \subseteq device.src[f])
    THEN Answer(1, [c EXCEPT !.src = [f \in Fields |-> @[f] \intersect device.src[f]]])
  ELSE IF \E f \in Fields : Cardinality(c.src[f]) > 1 THEN Answer(2, c)
  ELSE IF InRange(c) # c THEN Answer(3, InRange(c))
  ELSE IF OnGrid(c) # c THEN Answer(4, OnGrid(c))
  ELSE Answer(0, c)

-----------------------------------------------------------------------------
Init ==
  /\ device \in Devices
  /\ mask = 0 /\ sticky = "0" /\ content = << >>
  /\ pc = [t \in Threads |-> "idle"]
  /\ arg \in [Threads -> {[op |-> "mask", len |-> 0, period |-> 0]}]
  /\ obj = [t \in Threads |-> 0]
  /\ cmd = [t \in Threads |-> NoCmd]
  /\ ret = [t \in Threads |-> "0"]
  /\ errno = [t \in Threads |-> "0"] /\ cerrno = [t \in Threads |-> "0"]

Goto(t, l) == pc' = [pc EXCEPT ![t] = l]

\* The call returns r; the command it leaves behind is c.
Returns(t, r, c) ==
  /\ Goto(t, "idle")
  /\ ret' = [ret EXCEPT ![t] = r] /\ cmd' = [cmd EXCEPT ![t] = c]

Tell(t, e) == cerrno' = [cerrno EXCEPT ![t] = e]

\* A program calls; a timed command for no channels is refused at once, with
\* a return value and nothing else.
Call(t) ==
  /\ pc[t] = "idle"
  /\ \E a \in Calls :
       /\ arg' = [arg EXCEPT ![t] = a]
       /\ IF a.op = "timed" /\ a.len < 1
            THEN Returns(t, "-EINVAL", NoCmd)
            ELSE Goto(t, "sticky") /\ UNCHANGED <<ret, cmd>>
  /\ UNCHANGED <<shared, obj, errno, cerrno>>

\* if(s->cmd_mask_errno): the old failure again, in errno only.
CheckSticky(t) ==
  /\ pc[t] = "sticky"
  /\ IF sticky # "0"
       THEN Returns(t, "-1", NoCmd) /\ errno' = [errno EXCEPT ![t] = sticky]
       ELSE Goto(t, "look") /\ UNCHANGED <<ret, cmd, errno>>
  /\ UNCHANGED <<shared, arg, obj, cerrno>>

\* if(!s->cmd_mask)
Look(t) ==
  /\ pc[t] = "look" /\ Goto(t, IF mask = 0 THEN "alloc" ELSE "copy")
  /\ UNCHANGED <<shared, arg, obj, cmd, ret, errno, cerrno>>

\* A slip: the mask is published before it is filled.
AllocUnfilled(t) ==
  /\ pc[t] = "alloc"
  /\ content' = Append(content, [f \in Fields |-> {}])
  /\ mask' = Len(content')
  /\ obj' = [obj EXCEPT ![t] = mask']
  /\ Goto(t, "probe")
  /\ UNCHANGED <<device, sticky, arg, cmd, ret, errno, cerrno>>

\* malloc, the fill with TRIG_ANY, and the store that publishes the mask.
Alloc(t) ==
  /\ pc[t] = "alloc"
  /\ \/ /\ content' = Append(content, TrigAny)
        /\ mask' = Len(content')
        /\ obj' = [obj EXCEPT ![t] = mask']
        /\ Goto(t, "probe")
        /\ UNCHANGED <<device, sticky, arg, cmd, ret, errno, cerrno>>
     \/ /\ errno' = [errno EXCEPT ![t] = "ENOMEM"] /\ Tell(t, "ENOMEM")
        /\ Returns(t, "-1", NoCmd)
        /\ UNCHANGED <<shared, arg, obj>>

\* comedi_command_test fails with e.
TestFails(t, e) ==
  /\ e \in IF device.cmd THEN Faults ELSE {"EIO"}
  /\ errno' = [errno EXCEPT ![t] = e]
  /\ Tell(t, IF e = "EIO" THEN "ECMDNOTSUPP" ELSE e)

\* A slip: a failing probe goes on as if it had answered.
ProbeUnchecked(t) ==
  /\ pc[t] = "probe"
  /\ \/ /\ device.cmd
        /\ content' = [content EXCEPT ![obj[t]] = device.src]
        /\ UNCHANGED <<errno, cerrno>>
     \/ (\E e \in Faults \union {"EIO"} : TestFails(t, e)) /\ UNCHANGED content
  /\ Goto(t, "copy")
  /\ UNCHANGED <<device, mask, sticky, arg, obj, cmd, ret>>

\* The probe itself; the driver clears the bits it does not support.
Probe(t) ==
  /\ pc[t] = "probe"
  /\ \/ /\ device.cmd
        /\ content' = [content EXCEPT ![obj[t]] = device.src]
        /\ Goto(t, "copy") /\ UNCHANGED <<errno, cerrno>>
     \/ /\ \E e \in Faults \union {"EIO"} : TestFails(t, e)
        /\ Goto(t, "fail") /\ UNCHANGED content
  /\ UNCHANGED <<device, mask, sticky, arg, obj, cmd, ret>>

\* A slip: comedi_errno is remembered in place of errno.
FailRemembersComediErrno(t) ==
  /\ pc[t] = "fail"
  /\ sticky' = cerrno[t]
  /\ Returns(t, "-1", NoCmd)
  /\ UNCHANGED <<device, mask, content, arg, obj, errno, cerrno>>

\* A failed probe is remembered for the life of the handle.
Fail(t) ==
  /\ pc[t] = "fail"
  /\ sticky' = errno[t]
  /\ Returns(t, "-1", NoCmd)
  /\ UNCHANGED <<device, mask, content, arg, obj, errno, cerrno>>

\* What reading a mask may give: the driver may be storing its answer to
\* another thread's probe into it at that moment.
Seen(o) ==
  LET beingProbed == device.cmd /\ \E u \in Threads : pc[u] = "probe" /\ obj[u] = o
  IN  {[f \in Fields |-> IF f \in k THEN device.src[f] ELSE content[o][f]] :
         k \in IF beingProbed THEN SUBSET Fields ELSE {{}}}

\* *cmd=*s->cmd_mask
Copy(t) ==
  /\ pc[t] = "copy"
  /\ \E m \in Seen(mask) :
       IF arg[t].op = "mask"
         THEN Returns(t, "0", [NoCmd EXCEPT !.src = m])
         ELSE /\ cmd' = [cmd EXCEPT ![t] = [NoCmd EXCEPT !.src = m]]
              /\ Goto(t, "timed") /\ UNCHANGED ret
  /\ UNCHANGED <<shared, arg, obj, errno, cerrno>>

-----------------------------------------------------------------------------
(***************************************************************************)
(* __generic_timed once it has a mask: it shares nothing any more.         *)
(***************************************************************************)

\* The choices it considers, in its order of preference.
StartChoices == <<"NOW", "INT">>
TimingChoices ==
  << [convert |-> "TIMER", scan_begin |-> "FOLLOW"],
     [convert |-> "NOW",   scan_begin |-> "TIMER"],
     [convert |-> "TIMER", scan_begin |-> "TIMER"] >>
StopChoices == <<"COUNT", "NONE">>

StartsAt(m) == {k \in 1 .. 2 : StartChoices[k] \in m.start}
TimingsAt(m) ==
  {k \in 1 .. 3 : /\ TimingChoices[k].convert \in m.convert
                  /\ TimingChoices[k].scan_begin \in m.scan_begin}
StopsAt(m) == {k \in 1 .. 2 : StopChoices[k] \in m.stop}

First(S) == CHOOSE k \in S : \A j \in S : k <= j

\* A slip: division without rounding.
ConvertPeriodTruncated(period, len) == period \div len

\* (scan_period_ns + chanlist_len / 2) / chanlist_len in unsigned arithmetic.
ConvertPeriod(period, len) == ((period + len \div 2) % UIntMod) \div len

\* The command it builds from mask m.
Built(m, len, period) ==
  LET timing == TimingChoices[First(TimingsAt(m))]
  IN  [ src |-> [ start |-> {StartChoices[First(StartsAt(m))]},
                  convert |-> {timing.convert},
                  scan_begin |-> {timing.scan_begin},
                  scan_end |-> {"COUNT"},
                  stop |-> {StopChoices[First(StopsAt(m))]} ],
        convert_arg |-> IF timing.convert = "TIMER" THEN ConvertPeriod(period, len) ELSE 0,
        scan_begin_arg |-> IF timing.scan_begin = "TIMER" THEN period ELSE 0,
        scan_end_arg |-> len ]

\* A slip: only one test, its adjustment taken as good.
TestedOnce(c) ==
  LET a == Cmdtest(c) IN IF a.ret = 3 THEN [a EXCEPT !.ret = 4] ELSE a

\* One test, and a second when the first one says 3.
Tested(c) == IF Cmdtest(c).ret = 3 THEN Cmdtest(Cmdtest(c).cmd) ELSE Cmdtest(c)

Good(a) == a.ret \in {0, 4}

Timed(t) ==
  LET m == cmd[t].src
      possible == StartsAt(m) # {} /\ TimingsAt(m) # {} /\ StopsAt(m) # {}
      result == Tested(Built(m, arg[t].len, arg[t].period))
  IN
  /\ pc[t] = "timed"
  /\ \/ /\ possible /\ Good(result)
        /\ Tell(t, "0") /\ Returns(t, "0", result.cmd) /\ UNCHANGED errno
     \/ /\ possible => ~Good(result)
        /\ Tell(t, "ENOTSUPPORTED") /\ Returns(t, "-1", NoCmd) /\ UNCHANGED errno
     \/ /\ possible /\ Returns(t, "-1", NoCmd)
        /\ \E e \in Faults : TestFails(t, e)
  /\ UNCHANGED <<shared, arg, obj>>

Step(t) ==
  Call(t) \/ CheckSticky(t) \/ Look(t) \/ Alloc(t) \/ Probe(t) \/ Fail(t) \/ Copy(t) \/ Timed(t)

Next == \E t \in Threads : Step(t)

Spec == Init /\ [][Next]_vars

-----------------------------------------------------------------------------
(***************************************************************************)
(* Properties.                                                             *)
(***************************************************************************)

Errnos == {"0", "EIO", "ENOMEM"} \union Faults
Masks == [Fields -> SUBSET Sources]
Commands == [src : Masks, convert_arg : Nat, scan_begin_arg : Nat, scan_end_arg : Nat]

\* Every variable holds a value of its kind.
TypeOK ==
  /\ device \in Devices
  /\ content \in Seq(Masks) /\ mask \in 0 .. Len(content)
  /\ sticky \in Errnos
  /\ pc \in [Threads -> {"idle", "sticky", "look", "alloc", "probe", "fail", "copy", "timed"}]
  /\ arg \in [Threads -> Calls]
  /\ obj \in [Threads -> 0 .. Len(content)]
  /\ cmd \in [Threads -> Commands]
  /\ ret \in [Threads -> {"0", "-1", "-EINVAL"}]
  /\ errno \in [Threads -> Errnos]
  /\ cerrno \in [Threads -> Errnos \union {"ECMDNOTSUPP", "ENOTSUPPORTED"}]

Quiet == \A t \in Threads : pc[t] = "idle"
Done(t, op) == pc[t] = "idle" /\ arg[t].op = op /\ ret[t] = "0" /\ cmd[t] # NoCmd

\* command_funcref.txt:241-244: the mask returned is the driver's supported
\* sources, nothing more and nothing less.  It is so for a program that calls
\* the library from one thread, whatever failed before.
MaskSupported == \A t \in Threads : Done(t, "mask") => cmd[t].src = device.src

\* Whoever else is probing, the mask never misses a source the driver has; a
\* thread may be shown the TRIG_ANY of a mask published and not yet probed.
MaskCovers ==
  \A t \in Threads : Done(t, "mask") => \A f \in Fields : device.src[f] \subseteq cmd[t].src[f]

\* Once nobody is inside the library the handle holds no half-made mask:
\* either a remembered failure or the driver's answer, whichever thread came
\* last.
SettledMask == Quiet => mask = 0 \/ sticky # "0" \/ content[mask] = device.src

\* A thread that finds a mask never makes another: what a race loses is at
\* most one mask per further thread, and one thread alone loses none.
FewMasksLost == Len(content) <= Cardinality(Threads)

\* A command handed out is one the driver passes unchanged, for the number
\* of channels asked for.
TimedUsable ==
  \A t \in Threads :
     Done(t, "timed") => Cmdtest(cmd[t]) = Answer(0, cmd[t]) /\ cmd[t].scan_end_arg = arg[t].len

ScanPeriod(c) == IF Timer(c, "scan_begin") THEN c.scan_begin_arg ELSE c.convert_arg * c.scan_end_arg
Abs(n) == IF n < 0 THEN -n ELSE n

\* A driver without limits of its own runs at the period asked for, give or
\* take half a conversion tick per channel.
RateKept ==
  \A t \in Threads :
     Done(t, "timed") /\ device.tick = 1 /\ device.min * arg[t].len <= arg[t].period
       => 2 * Abs(ScanPeriod(cmd[t]) - arg[t].period) <= arg[t].len
=============================================================================
