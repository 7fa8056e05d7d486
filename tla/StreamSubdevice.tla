--------------------------- MODULE StreamSubdevice ---------------------------
(***************************************************************************)
(* Which subdevice read(), write() and mmap() on the handle's file reach.  *)
(* The kernel keeps it per open file; the handle keeps a copy in           *)
(* it->devinfo, which comedi_set_read_subdevice and its write twin         *)
(* (lib/comedi.c) consult and update, and which comedi_get_read_subdevice  *)
(* and its twin (lib/get.c) return.  Threads share the handle; a step is   *)
(* one access to the copy or one ioctl.                                    *)
(***************************************************************************)
EXTENDS Integers

CONSTANTS Threads,
          NSubd,     \* it->n_subdevices
          Streams    \* Streams[side]: the subdevices that can stream that way

Sides == {"read", "write"}
None == -1

Parameters == Streams \in [Sides -> SUBSET (0 .. NSubd - 1)]

VARIABLES current,   \* per side, what the kernel has for the file
          devinfo,   \* per side, the handle's copy
          pc, side, want, ret   \* per thread

vars == <<current, devinfo, pc, side, want, ret>>

Init ==
  /\ current \in [Sides -> {None} \union (0 .. NSubd - 1)]
  /\ \A d \in Sides : current[d] \in Streams[d] \/ (Streams[d] = {} /\ current[d] = None)
  /\ devinfo = current           \* COMEDI_DEVINFO in comedi_open
  /\ pc = [t \in Threads |-> "idle"]
  /\ side = [t \in Threads |-> "read"]
  /\ want = [t \in Threads |-> 0]
  /\ ret = [t \in Threads |-> 0]

\* COMEDI_SETRSUBD, COMEDI_SETWSUBD: the kernel refuses a subdevice that does
\* not stream that way.
KernelSets(d, s) ==
  /\ s \in Streams[d]
  /\ current' = [current EXCEPT ![d] = s]

Returns(t, r) == pc' = [pc EXCEPT ![t] = "idle"] /\ ret' = [ret EXCEPT ![t] = r]

\* The call, and the test that spares the ioctl.
SetSubdevice(t, d, s) ==
  /\ pc[t] = "idle"
  /\ side' = [side EXCEPT ![t] = d] /\ want' = [want EXCEPT ![t] = s]
  /\ IF devinfo[d] >= 0 /\ devinfo[d] = s
       THEN Returns(t, 0)
       ELSE pc' = [pc EXCEPT ![t] = "ioctl"] /\ UNCHANGED ret
  /\ UNCHANGED <<current, devinfo>>

\* The ioctl; it may also fail for reasons of its own: a command is running, or
\* the driver is too old to know it.
Ioctl(t) ==
  /\ pc[t] = "ioctl"
  /\ \/ KernelSets(side[t], want[t]) /\ pc' = [pc EXCEPT ![t] = "store"] /\ UNCHANGED ret
     \/ Returns(t, -1) /\ UNCHANGED current
  /\ UNCHANGED <<devinfo, side, want>>

\* A slip: the write twin pasted without changing the member it stores to.
StorePasted(t) ==
  /\ pc[t] = "store"
  /\ devinfo' = [devinfo EXCEPT !["read"] = want[t]]
  /\ Returns(t, 0)
  /\ UNCHANGED <<current, side, want>>

Store(t) ==
  /\ pc[t] = "store"
  /\ devinfo' = [devinfo EXCEPT ![side[t]] = want[t]]
  /\ Returns(t, 0)
  /\ UNCHANGED <<current, side, want>>

Next ==
  \E t \in Threads :
     \/ \E d \in Sides, s \in 0 .. NSubd - 1 : SetSubdevice(t, d, s)
     \/ Ioctl(t)
     \/ Store(t)

Spec == Init /\ [][Next]_vars

-----------------------------------------------------------------------------
(***************************************************************************)
(* Properties.                                                             *)
(***************************************************************************)

\* Every variable holds a value of its kind.
TypeOK ==
  /\ current \in [Sides -> {None} \union (0 .. NSubd - 1)]
  /\ devinfo \in [Sides -> {None} \union (0 .. NSubd - 1)]
  /\ pc \in [Threads -> {"idle", "ioctl", "store"}]
  /\ side \in [Threads -> Sides] /\ want \in [Threads -> Nat]
  /\ ret \in [Threads -> {0, -1}]

\* command_funcref.txt:273-276 and 287-290: comedi_get_read_subdevice and its
\* twin name the subdevice whose buffer the file reaches.  It is what makes
\* the check in demo/mmap.c:112-118 and demo/ao_mmap.c:130-136 mean that the
\* right buffer gets mapped.  No thread is inside the library.
CopyIsCurrent == (\A t \in Threads : pc[t] = "idle") => devinfo = current
=============================================================================
