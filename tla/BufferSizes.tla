------------------------------ MODULE BufferSizes ------------------------------
(***************************************************************************)
(* Sizes of the streaming buffers: the four functions of lib/buffer.c that *)
(* ask for and set them, each one COMEDI_BUFCONFIG, and the test of them   *)
(* in testing/bufconfig.c, which must put back the size it found.  Sizes   *)
(* are in kilobytes.                                                       *)
(***************************************************************************)
EXTENDS Integers

CONSTANTS Subds, Async,  \* the subdevices, and those with a buffer
          Page,          \* of memory; testing/bufconfig.c takes it for 4096 bytes
          Limits         \* [max, size] of a buffer to begin with

SizeParameters ==
  /\ Async \subseteq Subds /\ Page \in Nat \ {0}
  /\ \A l \in Limits : l.max % Page = 0 /\ l.size % Page = 0 /\ l.size <= l.max

VARIABLES root,     \* the program may set maximum sizes
          sizes,    \* [max, size] of each buffer; those without one have 0
          refused,  \* a call failed that a quiet machine had granted
          test, subd, found, maxlen, oldlen, complaints  \* testing/bufconfig.c

kernel == <<root, sizes, refused>>

NoBuffer == [max |-> 0, size |-> 0]

\* To whole pages.
Round(n) == ((n + Page - 1) \div Page) * Page

\* The driver's answers to COMEDI_BUFCONFIG; a 0 only asks.  A new maximum is
\* kept also when the new size is refused, and a buffer is freed before a new
\* one is allocated.
Outcome(err, max, size) == [err |-> err, max |-> max, size |-> size]
BufConfig(s, m, z) ==
  LET old == sizes[s]
      max == IF m = 0 THEN old.max ELSE Round(m)
  IN  {Outcome("ENODEV", old.max, old.size)} \union
      (IF s \notin Async THEN {Outcome("none", 0, 0)}
       ELSE IF m # 0 /\ ~root THEN {Outcome("EPERM", old.max, old.size)}
       ELSE IF z = 0 THEN {Outcome("none", max, old.size)}
       ELSE IF Round(z) > max THEN {Outcome("EPERM", max, old.size)}
       ELSE {Outcome("none", max, Round(z)), Outcome("EBUSY", max, old.size), Outcome("ENOMEM", max, 0)})

Set(s, o) ==
  /\ sizes' = [sizes EXCEPT ![s] = [max |-> o.max, size |-> o.size]]
  /\ refused' = (refused \/ o.err \in {"ENODEV", "EBUSY", "ENOMEM"})

\* What a call answers: the kernel's new size, or -1.
Size(o) == IF o.err = "none" THEN o.size ELSE -1
MaxSize(o) == IF o.err = "none" THEN o.max ELSE -1

\* _comedi_set_buffer_size and _comedi_set_max_buffer_size with outcome o; the
\* functions that ask, _comedi_get_buffer_size and so on, set a size of 0.
set_buffer_size(s, size, o) == o \in BufConfig(s, 0, size) /\ Set(s, o)
set_max_buffer_size(s, max, o) == o \in BufConfig(s, max, 0) /\ Set(s, o)
get_buffer_size(s, o) == set_buffer_size(s, 0, o)
get_max_buffer_size(s, o) == set_max_buffer_size(s, 0, o)

-----------------------------------------------------------------------------
(***************************************************************************)
(* testing/bufconfig.c.                                                    *)
(***************************************************************************)
TestInit ==
  /\ root \in BOOLEAN /\ refused = FALSE
  /\ sizes \in [Subds -> Limits \union {NoBuffer}]
  /\ \A s \in Subds : s \notin Async => sizes[s] = NoBuffer
  /\ subd \in Subds /\ found = sizes[subd]
  /\ test = (IF subd \in Async THEN "oldlen" ELSE "none")
  /\ maxlen = -1 /\ oldlen = -1 /\ complaints = {}

\* A step of the test that calls and may complain; one that calls nothing.
Complain(P) == complaints' = complaints \union (IF P THEN {test} ELSE {})
Step(from, to) == test = from /\ test' = to /\ UNCHANGED <<root, subd, found>>
NoCall == UNCHANGED <<sizes, refused, complaints>>

\* test_bufconfig_without_cmd: no buffer to ask about, so the size is 0.
TestWithout ==
  /\ Step("none", "done")
  /\ \E o \in BufConfig(subd, 0, 0) : get_buffer_size(subd, o) /\ Complain(Size(o) > 0)
  /\ UNCHANGED <<maxlen, oldlen>>

TestOldlen ==
  /\ Step("oldlen", "maxlen")
  /\ \E o \in BufConfig(subd, 0, 0) :
       get_buffer_size(subd, o) /\ oldlen' = Size(o) /\ Complain(Size(o) < 0)
  /\ UNCHANGED maxlen

TestMaxlen ==
  /\ Step("maxlen", "page")
  /\ \E o \in BufConfig(subd, 0, 0) :
       get_max_buffer_size(subd, o) /\ maxlen' = MaxSize(o) /\ Complain(MaxSize(o) < 0)
  /\ UNCHANGED oldlen

\* One page, and the question whether it was set.
TestPage ==
  /\ Step("page", "check")
  /\ \E o \in BufConfig(subd, 0, Page) : set_buffer_size(subd, Page, o) /\ Complain(Size(o) < 0)
  /\ UNCHANGED <<maxlen, oldlen>>

TestCheck ==
  /\ Step("check", "past")
  /\ \E o \in BufConfig(subd, 0, 0) : get_buffer_size(subd, o) /\ Complain(Size(o) # Page)
  /\ UNCHANGED <<maxlen, oldlen>>

\* More than the limit must be refused, and for that reason.
TestPast ==
  /\ Step("past", "max")
  /\ IF maxlen < 0 THEN NoCall
     ELSE \E o \in BufConfig(subd, 0, maxlen + Page) :
            set_buffer_size(subd, maxlen + Page, o) /\ Complain(o.err # "EPERM")
  /\ UNCHANGED <<maxlen, oldlen>>

TestMax ==
  /\ Step("max", "restore")
  /\ IF maxlen <= 0 THEN NoCall
     ELSE \E o \in BufConfig(subd, 0, maxlen) : set_buffer_size(subd, maxlen, o) /\ Complain(Size(o) # maxlen)
  /\ UNCHANGED <<maxlen, oldlen>>

\* A tenth of the maximum, in whole pages.
Tenth == ((Page - 1 + maxlen \div 10) \div Page) * Page

\* The size the test leaves behind; 0 for the one it has set last.
Restored ==
  IF oldlen > 0 THEN (IF oldlen < maxlen THEN oldlen ELSE 0)
  ELSE IF maxlen > Page THEN Tenth ELSE 0

TestRestore ==
  /\ Step("restore", "done")
  /\ IF Restored = 0 THEN NoCall
     ELSE \E o \in BufConfig(subd, 0, Restored) :
            set_buffer_size(subd, Restored, o) /\ Complain(Size(o) < 0)
  /\ UNCHANGED <<maxlen, oldlen>>

TestNext ==
  \/ TestWithout \/ TestOldlen \/ TestMaxlen \/ TestPage
  \/ TestCheck \/ TestPast \/ TestMax \/ TestRestore

-----------------------------------------------------------------------------
\* Every variable holds a value of its kind, and no buffer exceeds what memory
\* pages and its maximum allow.
SizesTypeOK ==
  /\ root \in BOOLEAN /\ refused \in BOOLEAN /\ subd \in Subds
  /\ \A s \in Subds : sizes[s].max % Page = 0 /\ sizes[s].size % Page = 0
  /\ \A s \in Subds \ Async : sizes[s] = NoBuffer
  /\ test \in {"none", "oldlen", "maxlen", "page", "check", "past", "max", "restore", "done"}

\* testing/bufconfig.c:125-126, "Don't want to leave buffer set to maximum size
\* unless it was originally": on a machine that refuses nothing the test puts
\* back the size it found, complains of nothing, and otherwise leaves a buffer
\* of more than a page below its maximum.
TestRestores ==
  test = "done" /\ ~refused /\ found.max >= Page =>
    /\ complaints = {}
    /\ found.size > 0 => sizes[subd] = found
    /\ found.size = 0 /\ found.max > Page => sizes[subd].size \in 1 .. found.max - 1
=============================================================================
