----------------------------- MODULE MCComediCmd -----------------------------
(***************************************************************************)
(* ComediCmd against seven drivers: no commands; a typical analog input    *)
(* with and without limits; two that time both the scan and the            *)
(* conversion; a typical analog output; one that only starts externally.   *)
(* In a behavior either one thread calls, with any arguments, or all of    *)
(* them do, with the few that make them meet.                              *)
(***************************************************************************)
EXTENDS ComediCmd

CONSTANTS Alone,       \* the thread that may be the only one
          FewLens, FewPeriods   \* what all of them pass

ASSUME AloneAssumption == Alone \in Threads

VARIABLE alone

Src(start, scan_begin, convert, stop) ==
  [start |-> start, scan_begin |-> scan_begin, convert |-> convert,
   scan_end |-> {"COUNT"}, stop |-> stop]

Device(src, min, tick) == [cmd |-> TRUE, src |-> src, min |-> min, tick |-> tick]

Follower == Src({"NOW", "INT"}, {"FOLLOW", "TIMER"}, {"TIMER"}, {"COUNT", "NONE"})
Double == Src({"NOW", "EXT"}, {"TIMER"}, {"TIMER"}, {"COUNT"})
Output == Src({"INT"}, {"TIMER"}, {"NOW"}, {"NONE"})
External == Src({"EXT"}, {"FOLLOW"}, {"TIMER"}, {"COUNT"})

MCDevices ==
  { [cmd |-> FALSE, src |-> [f \in Fields |-> {}], min |-> 1, tick |-> 1],
    Device(Follower, 1, 1), Device(Follower, 3, 2),
    Device(Double, 1, 1), Device(Double, 2, 4),
    Device(Output, 3, 2), Device(External, 1, 1) }

\* What two threads need to meet in: drivers that accept, refuse, and reject.
MCFewDevices ==
  { [cmd |-> FALSE, src |-> [f \in Fields |-> {}], min |-> 1, tick |-> 1],
    Device(Output, 3, 2) }

CmdInit == Init /\ alone \in BOOLEAN /\ (alone \/ device \in MCFewDevices)
CmdNext ==
  /\ UNCHANGED alone
  /\ IF alone THEN Step(Alone)
     ELSE \E t \in Threads :
            Step(t) /\ (arg'[t].op = "timed" => arg'[t].len \in FewLens /\ arg'[t].period \in FewPeriods)

CmdSpec == CmdInit /\ [][CmdNext]_<<vars, alone>>

\* What ComediCmd promises of a program with one thread.
SupportedAlone == alone => MaskSupported

\* What holds of a mask that others may be probing: it leaves out nothing the
\* driver can do, it is the driver's once the probe is over, and no more are
\* lost than threads that may meet.
MasksTrue == MaskCovers /\ SettledMask /\ FewMasksLost
==============================================================================
