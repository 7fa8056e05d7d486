------------------------------ MODULE CppBinding ------------------------------
(***************************************************************************)
(* c++/include/comedilib.hpp: objects for devices, subdevices and          *)
(* calibrations.  A C structure, a comedi_t or a parsed calibration, is    *)
(* owned by all the objects that share it and given back with the last of  *)
(* them; a method calls the C function of its name and throws when that    *)
(* fails.  Threads have objects of their own, which may share structures.  *)
(***************************************************************************)
EXTENDS Integers, Sequences

CONSTANTS DevObjects, SubdObjects, CalObjects,  \* the program's variables of each class
          NSubds,                               \* numbers of subdevices devices may have
          MaxStructs                            \* structures made in a behavior

Objects == DevObjects \union SubdObjects \union CalObjects

\* An object has one class, and none has the name that stands for no object.
CppParameters ==
  /\ NSubds \subseteq Nat /\ MaxStructs \in Nat
  /\ DevObjects \intersect SubdObjects = {} /\ CalObjects \intersect (DevObjects \union SubdObjects) = {}
  /\ "none" \notin Objects

VARIABLES structs,  \* each structure there was: what it is, n_subdevices, and whether it lives
          holds,    \* the structure an object shares, 0 for none
          index,    \* the index of a subdevice object, -1 when default constructed
          thrown,   \* what the last operation threw
          running,  \* the method being called: its object, its argument, its name, and
                    \* the structure it holds for itself
          tried     \* whether the C function was called, and failed

cppVars == <<structs, holds, index, thrown, running, tried>>

NoMethod == [obj |-> "none", arg |-> "none", m |-> "none", temp |-> 0]
NotTried == [called |-> FALSE, failed |-> FALSE]

CppInit ==
  /\ structs = << >> /\ holds = [x \in Objects |-> 0] /\ index = [s \in SubdObjects |-> -1]
  /\ thrown = "nothing" /\ running = NoMethod /\ tried = NotTried

-----------------------------------------------------------------------------
(***************************************************************************)
(* Ownership, by boost::shared_ptr.                                        *)
(***************************************************************************)
HeldByOthers(h, x) == (\E y \in Objects \ {x} : holds[y] = h) \/ running.temp = h

\* The structures once object x no longer shares the one it had: comedi_close
\* or comedi_cleanup_calibration is called for it if x was the last.
Released(s, x) ==
  IF holds[x] = 0 \/ HeldByOthers(holds[x], x) THEN s ELSE [s EXCEPT ![holds[x]].live = FALSE]

New(kind, n) == [kind |-> kind, n |-> n, live |-> TRUE]
Quiet == thrown' = "nothing" /\ tried' = NotTried
Throws(e) == thrown' = e /\ tried' = NotTried

\* A thread has objects of its own: none is changed while a method uses it.
Free(x) == x \notin {running.obj, running.arg}

\* A slip: what the device had is given back before the new file is opened.
OpenReleasesFirst(d) ==
  /\ Free(d) /\ Len(structs) < MaxStructs
  /\ \/ \E n \in NSubds : structs' = Append(Released(structs, d), New("device", n))
                          /\ holds' = [holds EXCEPT ![d] = Len(structs) + 1] /\ Quiet
     \/ structs' = Released(structs, d) /\ holds' = [holds EXCEPT ![d] = 0] /\ Throws("runtime_error")
  /\ UNCHANGED <<index, running>>

\* device::open, also by the constructor from a file name: an object that
\* was open keeps what it has when comedi_open fails.
Open(d) ==
  /\ Free(d) /\ Len(structs) < MaxStructs
  /\ \/ \E n \in NSubds : structs' = Append(Released(structs, d), New("device", n))
                          /\ holds' = [holds EXCEPT ![d] = Len(structs) + 1] /\ Quiet
     \/ Throws("runtime_error") /\ UNCHANGED <<structs, holds>>
  /\ UNCHANGED <<index, running>>

\* calibration(file_path), and calibration(dev), which asks an open device
\* for the path; assigned to k.
Parse(k) ==
  /\ Free(k) /\ Len(structs) < MaxStructs
  /\ \/ structs' = Append(Released(structs, k), New("calibration", 0))
        /\ holds' = [holds EXCEPT ![k] = Len(structs) + 1] /\ Quiet
     \/ \E e \in {"runtime_error", "invalid_argument"} : Throws(e) /\ UNCHANGED <<structs, holds>>
  /\ UNCHANGED <<index, running>>

SameClass(x, y) == \E c \in {DevObjects, SubdObjects, CalObjects} : {x, y} \subseteq c

\* An object is assigned another of its class.
Assign(x, y) ==
  /\ Free(x) /\ x # y /\ SameClass(x, y)
  /\ structs' = (IF holds[x] = holds[y] THEN structs ELSE Released(structs, x))
  /\ holds' = [holds EXCEPT ![x] = holds[y]]
  /\ index' = (IF x \in SubdObjects THEN [index EXCEPT ![x] = index[y]] ELSE index)
  /\ Quiet /\ UNCHANGED running

\* An object is destroyed; the variable stands for a default constructed one.
Destroy(x) ==
  /\ Free(x) /\ holds[x] # 0
  /\ structs' = Released(structs, x) /\ holds' = [holds EXCEPT ![x] = 0]
  /\ index' = (IF x \in SubdObjects THEN [index EXCEPT ![x] = -1] ELSE index)
  /\ Quiet /\ UNCHANGED running

\* subdevice(dev, i), assigned to s; it throws on a device that is not open
\* and on an index the device has not got.
SubdeviceOf(s, d, i) ==
  IF holds[d] = 0 \/ i >= structs[holds[d]].n
  THEN Throws("invalid_argument") /\ UNCHANGED <<structs, holds, index, running>>
  ELSE /\ structs' = (IF holds[s] = holds[d] THEN structs ELSE Released(structs, s))
       /\ holds' = [holds EXCEPT ![s] = holds[d]] /\ index' = [index EXCEPT ![s] = i]
       /\ Quiet /\ UNCHANGED running

MakeSubdevice(s, d) ==
  /\ Free(s) /\ \E n \in NSubds : \E i \in 0 .. n : SubdeviceOf(s, d, i)

\* find_subdevice_by_type, from after another subdevice on or from 0 on,
\* get_read_subdevice and get_write_subdevice: of a device that is open the C
\* function names a subdevice or fails.
FindSubdevice(s, d) ==
  /\ Free(s)
  /\ \/ holds[d] = 0 /\ Throws("invalid_argument") /\ UNCHANGED <<structs, holds, index, running>>
     \/ holds[d] # 0 /\ \E start \in {0} \union {index[t] + 1 : t \in SubdObjects} :
          \E i \in start .. structs[holds[d]].n - 1 : SubdeviceOf(s, d, i)
     \/ holds[d] # 0 /\ Throws("runtime_error") /\ UNCHANGED <<structs, holds, index, running>>

-----------------------------------------------------------------------------
(***************************************************************************)
(* Methods.                                                                *)
(***************************************************************************)
DeviceMethods ==
  {"board_name", "default_calibration_path", "driver_name", "command_test", "command", "do_insn",
   "do_insnlist", "fileno", "n_subdevices"}

WithCalibration == {"apply_hard_calibration", "softcal_converter"}

SubdeviceMethods1 ==
  {"apply_hard_calibration", "arm", "arm_channel", "buffer_size", "cancel", "data_read", "data_read_n",
   "data_read_delayed", "data_read_hint", "data_write"}

SubdeviceMethods2 ==
  {"digital_trigger_disable", "digital_trigger_enable_edges", "digital_trigger_enable_levels",
   "dio_bitfield", "dio_bitfield2", "dio_config", "dio_get_config", "dio_read", "dio_write",
   "disarm", "disarm_channel", "find_range"}

SubdeviceMethods3 ==
  {"flags", "get_buffer_contents", "get_buffer_read_count", "get_buffer_read_offset", "get_buffer_write_count",
   "get_buffer_write_offset", "get_clock_source", "get_cmd_generic_timed", "get_cmd_src_mask",
   "get_gate_source", "get_routing"}

SubdeviceMethods4 ==
  {"hardcal_converter", "hardware_buffer_size", "internal_trigger", "lock", "mark_buffer_read",
   "mark_buffer_written", "max_buffer_size", "max_data", "max_data_is_chan_specific", "n_channels", "n_ranges"}

SubdeviceMethods5 ==
  {"poll", "range", "range_is_chan_specific", "reset", "reset_channel", "set_as_read_subdevice",
   "set_as_write_subdevice", "set_buffer_size", "set_clock_source", "set_counter_mode", "set_filter",
   "set_gate_source"}

SubdeviceMethods6 ==
  {"set_max_buffer_size", "set_other_source", "set_routing", "softcal_converter", "subdevice_type", "unlock"}

Methods(x) ==
  IF x \in DevObjects THEN DeviceMethods
  ELSE IF x \in SubdObjects
  THEN UNION {SubdeviceMethods1, SubdeviceMethods2, SubdeviceMethods3,
              SubdeviceMethods4, SubdeviceMethods5, SubdeviceMethods6}
  ELSE {}

\* What the C function answers when it fails and when it does not; 0 stands
\* for NULL too.
Pointers == {"board_name", "default_calibration_path", "driver_name", "range"}
Failure(m) == IF m \in Pointers \union {"max_data"} THEN 0 ELSE -1
Successes(m) == IF m \in Pointers \union {"max_data"} THEN {1} ELSE {0, 1}

\* Whether a method throws on an answer of its C function: most test for a
\* negative number, some for NULL or 0, and one throws without a test.
TestForNull == {"board_name", "default_calibration_path", "driver_name", "range"}
TestForZero == {"max_data"}
TestNothing == {"do_insnlist"}

ThrowsOn(m, answer) ==
  \/ m \in TestNothing
  \/ m \in TestForNull \union TestForZero /\ answer = 0
  \/ m \notin TestNothing \union TestForNull \union TestForZero /\ answer < 0

\* softcal_converter is the one that does not ask for the device.
Needed(x, m, k) ==
  (IF m = "softcal_converter" THEN {} ELSE {x}) \union (IF k = "none" THEN {} ELSE {k})

\* A method begins.  It throws invalid_argument when the device is not open
\* or the calibration is empty; apply_hard_calibration without one makes a
\* temporary object for the device's own, which may fail.  data_read_n of
\* nothing throws out_of_range.
BeginOn(x, m, k) ==
  /\ running = NoMethod
  /\ IF \E y \in Needed(x, m, k) : holds[y] = 0
     THEN Throws("invalid_argument") /\ UNCHANGED running
     ELSE \/ running' = [obj |-> x, arg |-> k, m |-> m, temp |-> 0] /\ Quiet
          \/ m = "data_read_n" /\ Throws("out_of_range") /\ UNCHANGED running
  /\ UNCHANGED <<structs, holds, index>>

Begin(x) ==
  \E m \in Methods(x), k \in CalObjects \union {"none"} :
    (k = "none" <=> m \notin WithCalibration) /\ BeginOn(x, m, k)

BeginWithDefault(s) ==
  /\ running = NoMethod /\ s \in SubdObjects
  /\ \/ /\ holds[s] # 0 /\ Len(structs) < MaxStructs
        /\ structs' = Append(structs, New("calibration", 0))
        /\ running' = [obj |-> s, arg |-> "none", m |-> "apply_hard_calibration", temp |-> Len(structs) + 1]
        /\ Quiet
     \/ Throws(IF holds[s] = 0 THEN "invalid_argument" ELSE "runtime_error") /\ UNCHANGED <<structs, running>>
  /\ UNCHANGED <<holds, index>>

\* A slip: the temporary is not given back when the method throws.
EndLeaksTemp ==
  /\ running # NoMethod
  /\ \E answer \in {Failure(running.m)} \union Successes(running.m) :
       /\ tried' = [called |-> TRUE, failed |-> answer = Failure(running.m)]
       /\ thrown' = (IF ThrowsOn(running.m, answer) THEN "runtime_error" ELSE "nothing")
       /\ structs' = (IF running.temp = 0 \/ answer < 0 THEN structs
                      ELSE [structs EXCEPT ![running.temp].live = FALSE])
  /\ running' = NoMethod /\ UNCHANGED <<holds, index>>

\* The C function answers, the method throws or returns, and a temporary
\* calibration is given back either way.
End ==
  /\ running # NoMethod
  /\ \E answer \in {Failure(running.m)} \union Successes(running.m) :
       /\ tried' = [called |-> TRUE, failed |-> answer = Failure(running.m)]
       /\ thrown' = (IF ThrowsOn(running.m, answer) THEN "runtime_error" ELSE "nothing")
       /\ structs' = (IF running.temp = 0 THEN structs ELSE [structs EXCEPT ![running.temp].live = FALSE])
  /\ running' = NoMethod /\ UNCHANGED <<holds, index>>

CppNext ==
  \/ \E d \in DevObjects : Open(d)
  \/ \E k \in CalObjects : Parse(k)
  \/ \E x, y \in Objects : Assign(x, y)
  \/ \E s \in SubdObjects, d \in DevObjects : MakeSubdevice(s, d) \/ FindSubdevice(s, d)
  \/ \E x \in Objects : Destroy(x) \/ Begin(x)
  \/ \E s \in SubdObjects : BeginWithDefault(s)
  \/ End

CppSpec == CppInit /\ [][CppNext]_cppVars

-----------------------------------------------------------------------------
(***************************************************************************)
(* Properties.                                                             *)
(***************************************************************************)

\* Every variable holds a value of its kind.
CppTypeOK ==
  /\ \A x \in Objects : holds[x] \in 0 .. Len(structs)
  /\ \A x \in Objects : holds[x] # 0 =>
       (structs[holds[x]].kind = "calibration" <=> x \in CalObjects)
  /\ thrown \in {"nothing", "runtime_error", "invalid_argument", "out_of_range"}

\* A structure lives exactly as long as something shares it: none is lost,
\* and none is given back while an object or a running method has it.
LivesWhileShared ==
  \A h \in 1 .. Len(structs) :
    structs[h].live <=> ((\E x \in Objects : holds[x] = h) \/ running.temp = h)

\* A subdevice object that is not default constructed has an index its own
\* device has, also after the device object it came from was opened anew.
IndexInDevice ==
  \A s \in SubdObjects : IF holds[s] = 0 THEN index[s] = -1 ELSE index[s] \in 0 .. structs[holds[s]].n - 1

\* A method that called its C function throws just when that failed.  The
\* one that does not is device::do_insnlist, which throws always.
ThrowsWhenFailedStep ==
  running # NoMethod /\ tried'.called /\ running.m # "do_insnlist" => (thrown' = "runtime_error" <=> tried'.failed)

\* An operation that throws leaves every object, and the structure it
\* shares, as they were: open keeps the old device, a constructor assigns
\* nothing, a temporary is the only thing given back.
ThrowChangesNothingStep ==
  thrown' # "nothing" =>
    /\ UNCHANGED <<holds, index>>
    /\ \A x \in Objects : holds[x] # 0 => structs'[holds[x]] = structs[holds[x]]
=============================================================================
