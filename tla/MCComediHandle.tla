---------------------------- MODULE MCComediHandle ----------------------------
(***************************************************************************)
(* A device and those who open it: ComediHandle on two subdevices, each of *)
(* any of five shapes (unused, no per-channel lists, some, only the        *)
(* per-channel ranges, all of them); the objects of CppBinding that own    *)
(* such handles; what a handle tells of its device; comedi_config, which   *)
(* attaches its board and resizes its buffers; and the test of the         *)
(* buffers' sizes.  A behavior runs one of the five.                       *)
(***************************************************************************)
EXTENDS ComediHandle, Sequences

CONSTANTS DevObjects, SubdObjects, CalObjects, NSubds, MaxStructs,
          Described, Kernels, NDescribed,
          Subds, Async, Page, Limits, CommandLines, NPlain, Wrap
VARIABLES by, structs, holds, index, thrown, running, tried,
          kernel, driver, subdevices, where, subdev, channel, rangeno, lines,
          root, sizes, refused, test, subd, found, maxlen, oldlen, complaints,
          args, step, options, memory, board, next, was, fresh

O == INSTANCE CppBinding
Q == INSTANCE DeviceSurvey
K == INSTANCE ComediConfig WITH pc <- step
ASSUME CppAssumption == O!CppParameters
ASSUME SurveyAssumption == Q!SurveyParameters
ASSUME ConfigAssumption == K!ConfigParameters

cppOnly == <<structs, holds, index, thrown, running, tried>>
surveyOnly == <<kernel, driver, subdevices, where, subdev, channel, rangeno, lines>>
testOnly == <<test, subd, found, maxlen, oldlen, complaints>>
configOnly == <<args, step, options, memory, board, next, was, fresh>>
sizeVars == <<root, sizes, refused, testOnly, configOnly>>
allVars == <<vars, by, cppOnly, surveyOnly, sizeVars>>

\* One component begins in any way it can, and the others rest.
HandleRests == Init /\ info = [i \in Subd |-> CHOOSE s \in Shapes : TRUE]
SurveyRests ==
  /\ kernel = <<>> /\ driver = <<>> /\ subdevices = <<>> /\ where = "done"
  /\ subdev = 0 /\ channel = 0 /\ rangeno = 0 /\ lines = <<>>
TestRests == test = "done" /\ subd = 0 /\ found = <<>> /\ maxlen = 0 /\ oldlen = 0 /\ complaints = {}
ConfigRests ==
  /\ args = <<>> /\ step = "done" /\ options = <<>> /\ memory = <<>>
  /\ board = <<>> /\ next = 0 /\ was = <<>> /\ fresh = <<>>
SizesRest == root = FALSE /\ sizes = <<>> /\ refused = FALSE /\ TestRests /\ ConfigRests

HandleInit ==
  \/ by = "C" /\ Init /\ O!CppInit /\ SurveyRests /\ SizesRest
  \/ by = "C++" /\ HandleRests /\ O!CppInit /\ SurveyRests /\ SizesRest
  \/ by = "survey" /\ HandleRests /\ O!CppInit /\ Q!SurveyInit /\ SizesRest
  \/ by = "config" /\ HandleRests /\ O!CppInit /\ SurveyRests /\ K!ConfigInit /\ TestRests
  \/ by = "sizes" /\ HandleRests /\ O!CppInit /\ SurveyRests /\ K!TestInit /\ ConfigRests

UsesC == by = "C" /\ UNCHANGED <<by, cppOnly, surveyOnly, sizeVars>>
UsesCpp == by = "C++" /\ UNCHANGED <<by, vars, surveyOnly, sizeVars>>
Surveys == by = "survey" /\ UNCHANGED <<by, vars, cppOnly, sizeVars>>
Configures == by = "config" /\ UNCHANGED <<by, vars, cppOnly, surveyOnly, testOnly>>
TestsSizes == by = "sizes" /\ UNCHANGED <<by, vars, cppOnly, surveyOnly, configOnly>>

HandleNext ==
  \/ UsesC /\ Next
  \/ UsesCpp /\ O!CppNext
  \/ Surveys /\ Q!SurveyNext
  \/ Configures /\ K!ConfigNext
  \/ TestsSizes /\ K!TestNext
HandleSpec == HandleInit /\ [][HandleNext]_allVars /\ WF_allVars(UsesC /\ OpenStep)

Shape(unused, flags, n) == [unused |-> unused, flags |-> flags, n_chan |-> n]

MCShapes ==
  { Shape(TRUE, {}, 0),
    Shape(FALSE, {}, 2),
    Shape(FALSE, {"SDF_FLAGS", "SDF_MAXDATA"}, 1),
    Shape(FALSE, {"SDF_RANGETYPE"}, 2),
    Shape(FALSE, ListKinds, 1) }

\* Subdevices with and without lists, without channels, and of each answer to
\* the question for INSN_BITS.
Desc(type, flags, n, md, rt, cmd, says, bits) ==
  [type |-> type, subd_flags |-> flags, n_chan |-> n, maxdata |-> md, range_type |-> rt,
   maxdata_list |-> [c \in 1 .. n |-> 10 + c], range_type_list |-> [c \in 1 .. n |-> 16 * c + (c % 3)],
   cmd |-> cmd, insn_bits_support |-> says, bits |-> bits]
MCDescribed ==
  {Desc("unused", {}, 2, 7, 18, FALSE, "unknown", FALSE),
   Desc("ai", {}, 2, 7, 18, TRUE, "unsupported", FALSE),
   Desc("ai", {"SDF_MAXDATA", "SDF_RANGETYPE"}, 3, 0, 0, TRUE, "unknown", FALSE),
   Desc("ai", {"SDF_MAXDATA"}, 0, 0, 17, TRUE, "unknown", FALSE),
   Desc("ao", {"SDF_RANGETYPE"}, 2, 7, 33, FALSE, "unknown", FALSE),
   Desc("dio", {}, 1, 1, 17, FALSE, "unknown", TRUE),
   Desc("dio", {}, 0, 1, 17, FALSE, "supported", TRUE)}
MCKernels == [flagged : BOOLEAN, insnlist : BOOLEAN]

MCLimits == {[max |-> 2, size |-> 2], [max |-> 2, size |-> 0], [max |-> 40, size |-> 8],
             [max |-> 40, size |-> 40], [max |-> 40, size |-> 0], [max |-> 0, size |-> 0]}

\* Command lines: a removal, attachments with options and files of all kinds,
\* and sizes for streams, for single subdevices and for ones that are not there.
Number(v) == [k |-> "number", v |-> v]
Comma == [k |-> "comma", v |-> 0]
Junk == [k |-> "junk", v |-> 0]
Commas(n) == [i \in 1 .. n |-> Comma]
Nothing == [driver |-> "none", options |-> <<>>, files |-> <<>>, remove |-> FALSE,
            read |-> 0, write |-> 0, subs |-> <<>>, bad |-> FALSE]
Attach == [Nothing EXCEPT !.driver = "ours"]
OneFile(i) == [j \in {i} |-> <<"a", "b">>]
MCCommandLines ==
  {Nothing, [Nothing EXCEPT !.bad = TRUE], [Nothing EXCEPT !.remove = TRUE, !.read = 4],
   [Attach EXCEPT !.remove = TRUE, !.files = OneFile(0)],
   [Attach EXCEPT !.options = <<Number(5), Comma, Comma, Number(6)>>],
   [Attach EXCEPT !.options = <<Comma, Number(5), Number(7), Comma>>, !.files = OneFile(2)],
   [Attach EXCEPT !.options = Commas(6) \o <<Number(3)>>, !.write = 3],
   [Attach EXCEPT !.options = Commas(7) \o <<Number(3)>>, !.files = OneFile(0)],
   [Attach EXCEPT !.options = Commas(8)],
   [Attach EXCEPT !.options = <<Number(1), Junk>>],
   [Attach EXCEPT !.files = [j \in {0, 1, 3} |-> IF j = 3 THEN <<"c">> ELSE <<"a", "b">>]],
   [Attach EXCEPT !.files = [j \in {1, 2} |-> IF j = 1 THEN <<>> ELSE <<"c">>], !.read = 5, !.write = 2],
   [Nothing EXCEPT !.read = 3, !.write = 7, !.subs = <<<<0, 2>>, <<1, 9>>>>],
   [Nothing EXCEPT !.subs = <<<<1, 4>>, <<2, 4>>, <<1, 0>>, <<0, 3>>>>],
   [Nothing EXCEPT !.read = 5, !.subs = <<<<3, 4>>, <<0, 4>>>>],
   [Nothing EXCEPT !.write = 34, !.subs = <<<<1, 32>>, <<1, 6>>>>]}

\* Every variable of the component that runs holds a value of its kind.
HandleTypeOK ==
  /\ TypeOK
  /\ by = "C++" => O!CppTypeOK
  /\ by = "survey" => Q!SurveyTypeOK
  /\ by = "config" => K!ConfigTypeOK
  /\ by = "sizes" => K!SizesTypeOK

\* CppBinding: a structure lives just as long as an object shares it, and a
\* subdevice is one of its device; a method throws when its call failed, and
\* changes nothing when it throws.
ObjectsValid == O!LivesWhileShared /\ O!IndexInDevice
ThrowsAlone == [][O!ThrowsWhenFailedStep /\ O!ThrowChangesNothingStep]_allVars

\* DeviceSurvey: the getters tell all that the driver described, and nothing is
\* relied on that it does not have.
SurveyTells == by = "survey" => Q!SurveyTells /\ Q!ProbesSafe

\* ComediConfig: a driver is given its options and each of its files whole,
\* the sizes are those asked for or, after a failure, those of a first part of
\* the requests.  BufferSizes: the test puts back the size it found.
ConfiguredAsAsked ==
  /\ by = "config" => K!FirmwareWhole /\ K!ConfiguredAsAsked /\ K!FailsInPlace
  /\ by = "sizes" => K!TestRestores
=============================================================================
