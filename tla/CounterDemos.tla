----------------------------- MODULE CounterDemos -----------------------------
(***************************************************************************)
(* The demo programs that set up a counter or a PWM output with the calls  *)
(* of InsnConfig: demo/gpct_encoder.c, gpct_pulse_generator.c,             *)
(* gpct_simple_counting.c, gpct_buffered_counting.c, pwm.c, and            *)
(* choose_clock.c, choose_filter.c and choose_routing.c.  Each is a list   *)
(* of calls; some must succeed, of others the answer is not looked at.     *)
(***************************************************************************)
EXTENDS InsnConfig

CONSTANTS Periods, UpTimes,  \* nanoseconds a user of the pulse generator asks for
          ClockPeriod,       \* clock_period_ns
          UIntMod            \* 2 ^ the bits of an unsigned int

DemoParameters ==
  /\ {0, 1, 2} \subseteq Channels /\ Periods \subseteq Nat /\ UpTimes \subseteq Nat
  /\ ClockPeriod \in Nat \ {0} /\ UIntMod \in Nat \ {0}

VARIABLES prog,        \* the program
          period, up,  \* its options
          step,        \* how many of its calls have been made
          status       \* "running", "ok" or "failed"

demo == <<prog, period, up>>
demoVars == <<configVars, demo, step, status>>

Must(op, ch, args) == [o |-> Op(op, ch, args), must |-> TRUE]
May(op, ch, args) == [o |-> Op(op, ch, args), must |-> FALSE]

\* What the counter is told to count, and from where.
Disabled == 0
PfiGate == 1
PinGate == 2
Timebase == 3
PulseMode == 1
QuadratureMode == 2
CountMode == 3
BufferedMode == 4

\* (t + clock_period_ns / 2) / clock_period_ns, in unsigned arithmetic.
Ticks(t) == ((t + (ClockPeriod \div 2)) % UIntMod) \div ClockPeriod

UpTicks == Ticks(up)

\* The difference as well.
DownTicks == (Ticks(period) - UpTicks) % UIntMod

PulseGenerator ==
  <<Must("reset", 0, << >>),
    Must("set_gate_source", 0, <<0, Disabled>>), May("set_gate_source", 0, <<1, Disabled>>),
    Must("set_counter_mode", 0, <<PulseMode>>), Must("set_clock_source", 0, <<Timebase, ClockPeriod>>),
    Must("data_write", 0, <<DownTicks>>), Must("data_write", 1, <<DownTicks>>), Must("data_write", 2, <<UpTicks>>),
    Must("arm", 0, <<0>>)>>

\* The answers are assigned and overwritten up to the mode.
Encoder ==
  <<May("reset", 0, << >>),
    May("data_write", 0, <<7>>), May("data_write", 1, <<7>>), May("data_write", 2, <<7>>),
    May("set_gate_source", 0, <<0, Disabled>>), May("set_gate_source", 0, <<1, Disabled>>),
    May("set_other_source", 0, <<"A", 4>>), May("set_other_source", 0, <<"B", 5>>), May("set_other_source", 0, <<"Z", 6>>),
    Must("set_counter_mode", 0, <<QuadratureMode>>), Must("arm", 0, <<0>>)>>

\* A slip: the counter is armed before its initial value is written.
SimpleCountingArmsFirst ==
  <<Must("reset", 0, << >>),
    Must("set_gate_source", 0, <<0, PinGate>>), May("set_gate_source", 0, <<1, Disabled>>),
    Must("arm", 0, <<0>>), Must("set_counter_mode", 0, <<CountMode>>), May("data_write", 0, <<0>>)>>

SimpleCounting ==
  <<Must("reset", 0, << >>),
    Must("set_gate_source", 0, <<0, PinGate>>), May("set_gate_source", 0, <<1, Disabled>>),
    Must("set_counter_mode", 0, <<CountMode>>), May("data_write", 0, <<0>>), Must("arm", 0, <<0>>)>>

\* The counter is armed by the command that follows.
BufferedCounting ==
  <<Must("reset", 0, << >>),
    Must("set_gate_source", 0, <<0, PfiGate>>), May("set_gate_source", 0, <<1, Disabled>>),
    Must("set_counter_mode", 0, <<BufferedMode>>), May("data_write", 0, <<0>>), May("data_write", 1, <<0>>)>>

\* Switched on first, then the period and the duty cycle.
Pwm ==
  <<Must("arm", 0, <<0>>), Must("set_pwm_period", 0, <<period>>),
    Must("get_pwm_status", 0, << >>), Must("get_pwm_period", 0, << >>), Must("data_write", 0, <<up>>)>>

ChooseClock == <<Must("set_clock_source", 1, <<Timebase, period>>)>>
ChooseFilter == <<Must("set_filter", 1, <<1>>)>>
ChooseRouting == <<Must("set_routing", 1, <<1>>)>>

Demos ==
  [gpct_pulse_generator |-> PulseGenerator, gpct_encoder |-> Encoder,
   gpct_simple_counting |-> SimpleCounting, gpct_buffered_counting |-> BufferedCounting,
   pwm |-> Pwm,
   choose_clock |-> ChooseClock, choose_filter |-> ChooseFilter, choose_routing |-> ChooseRouting]

Steps == Demos[prog]
Counters == {"gpct_pulse_generator", "gpct_encoder", "gpct_simple_counting"}

-----------------------------------------------------------------------------
\* Somebody has used the counter before: it may be armed, take an input of
\* the encoder from elsewhere, and be gated.
Leftovers ==
  {<< >>,
   [k \in {<<"armed", 0, << >>>>, <<"other", 0, <<"Z">>>>, <<"gate", 0, <<1>>>>} |->
      IF k[1] = "armed" THEN <<"ARM", 0>>
      ELSE IF k[1] = "other" THEN <<"SET_OTHER_SRC", 9>> ELSE <<"SET_GATE_SRC", 9>>]}

DemoInit ==
  /\ \E s \in Leftovers : ConfigInit(s)
  /\ period \in Periods /\ up \in UpTimes /\ prog \in DOMAIN Demos
  /\ step = 0 /\ status = "running"

NextCall ==
  /\ status = "running" /\ step < Len(Steps)
  /\ Call(Steps[step + 1].o) /\ step' = step + 1
  /\ UNCHANGED <<demo, status>>

InCall == at \in {"in", "again"} /\ (Answered \/ OtherSource \/ Failed) /\ UNCHANGED <<demo, step, status>>

\* The answer is looked at where it must be.
LookAt ==
  /\ Return
  /\ status' = (IF ret < 0 /\ Steps[step].must THEN "failed"
                ELSE IF step = Len(Steps) THEN "ok" ELSE "running")
  /\ UNCHANGED <<demo, step>>

DemoNext == NextCall \/ InCall \/ LookAt
DemoSpec == DemoInit /\ [][DemoNext]_demoVars

-----------------------------------------------------------------------------
(***************************************************************************)
(* Properties.  Meant is what a call is for: the setting it is to make,    *)
(* and how many of its arguments say which one.                            *)
(***************************************************************************)
Meant ==
  [set_gate_source |-> <<"gate", 1>>, set_counter_mode |-> <<"mode", 0>>, set_clock_source |-> <<"clock", 0>>,
   data_write |-> <<"register", 0>>, arm |-> <<"armed", 0>>, set_filter |-> <<"filter", 0>>,
   set_routing |-> <<"routing", 0>>, set_other_source |-> <<"other", 1>>, set_pwm_period |-> <<"period", 0>>]
KeyMeant(c) == <<Meant[c.op][1], c.ch, SubSeq(c.args, 1, Meant[c.op][2])>>
Took(c) == Tail(Setting(set, KeyMeant(c))) = SubSeq(c.args, Meant[c.op][2] + 1, Len(c.args))

MadeBy(steps) == {k \in DOMAIN steps : steps[k].o.op \in DOMAIN Meant}
Required == {k \in MadeBy(Steps) : Steps[k].must}
Armed == Setting(set, <<"armed", 0, << >>>>)[1] = "ARM"
Resets == {"gpct_pulse_generator", "gpct_simple_counting", "gpct_buffered_counting"}

\* Every variable holds a value of its kind.
DemoTypeOK == step \in 0 .. Len(Steps) /\ status \in {"running", "ok", "failed"} /\ (status = "ok" => step = Len(Steps))

\* A program that reports success has made every setting it insists on,
\* whatever the counter was used for before and whichever other calls failed.
ConfiguredAsMeant == status = "ok" => \A k \in Required : Took(Steps[k].o)

\* A counter that was reset is armed only when all that the program insists
\* on is in place: a failure in the middle leaves it disarmed.
ArmedConfigured == prog \in Resets /\ step > 1 /\ Armed => \A k \in Required : Took(Steps[k].o)

\* Where the reset is insisted on, nothing of an earlier use remains that the
\* program has not asked for; demo/gpct_encoder.c does not insist.
NothingLeftOver ==
  status = "ok" /\ prog \in Resets => DOMAIN set \subseteq {KeyMeant(Steps[k].o) : k \in MadeBy(Steps)}

\* The pulses have the period and the high time asked for, each to half a
\* clock tick, as long as the high time is not longer than the period.
Near(ticks, t) == 2 * (ticks * ClockPeriod - t) \in -ClockPeriod .. ClockPeriod
Register(c) == Setting(set, <<"register", c, << >>>>)[2]
PulseAsAsked ==
  prog = "gpct_pulse_generator" /\ status = "ok" /\ up <= period =>
    Near(Register(2), up) /\ Near(Register(1) + Register(2), period) /\ Register(0) = Register(1)
=============================================================================
