------------------------------ MODULE ComediConfig ------------------------------
(***************************************************************************)
(* comedi_config/comedi_config.c: attaches a board to a driver, with the   *)
(* options and the initialization files of the command line, or removes    *)
(* it, and resizes streaming buffers.  A command line is a record; any     *)
(* call may fail, and the program then exits with what was done so far.    *)
(* The words of a file stand for its bytes.                                *)
(***************************************************************************)
EXTENDS BufferSizes, Sequences, SequencesExt, FiniteSets

CONSTANTS CommandLines,
          NPlain,        \* options before those that describe the files
          Wrap           \* kilobytes of 2^32 bytes

ConfigParameters ==
  /\ SizeParameters /\ NPlain \in Nat /\ Wrap \in Nat \ {0} /\ Wrap % Page = 0

VARIABLES args,    \* the command line
          pc,
          options, \* it.options
          memory,  \* the initialization data
          board,   \* what the kernel has attached
          next,    \* the entry of sub_buf_list to be taken next
          was, fresh  \* the board at first; the sizes before any was changed

configVars == <<args, pc, options, memory, board, next, was, fresh>>

NoBoard == [name |-> "none"]

\* Positions in it.options; the address is one word here.
Files == 0 .. 3
LengthOf(i) == NPlain + 3 - i
ADDRESS == NPlain + 4
LENGTH == NPlain + 5
NOptions == NPlain + 6
Address == 99
NoOptions == [o \in 0 .. NOptions - 1 |-> 0]

\* What a driver may make of its board, and the sizes it begins with.
Boards(name, opts, data) ==
  [name : {name}, options : {opts}, data : {data},
   read : Async \union {-1}, write : Async \union {-1}, old : BOOLEAN]
FreshSizes == {[s \in Subds |-> IF s \in Async THEN l ELSE NoBuffer] : l \in Limits}
NoSizes == [s \in Subds |-> NoBuffer]

ConfigInit ==
  /\ args \in CommandLines /\ pc = "start"
  /\ options = NoOptions /\ memory = << >> /\ next = 1
  /\ root \in BOOLEAN /\ refused = FALSE
  /\ \/ board = NoBoard /\ sizes = NoSizes
     \/ board \in Boards("other", NoOptions, << >>) /\ sizes \in FreshSizes
  /\ was = board /\ fresh = sizes

Goto(l) == pc' = l
Exit == Goto("failed")

-----------------------------------------------------------------------------
(***************************************************************************)
(* Attaching and removing.                                                 *)
(***************************************************************************)

\* An option that cannot be parsed, or nothing to do.
Usage ==
  \/ args.bad
  \/ args.driver = "none" /\ args.read = 0 /\ args.write = 0 /\ ~args.remove /\ args.subs = << >>

Configures == args.driver # "none" \/ args.remove

\* The command line, and open().
Start ==
  /\ pc = "start"
  /\ Exit \/ (~Usage /\ Goto(IF Configures THEN "options" ELSE "devinfo"))
  /\ UNCHANGED <<args, options, memory, board, next, was, fresh, kernel>>

\* The list of options: numbers, commas, and what is neither.
Taken ==
  LET Take(acc, t) ==
        CASE ~acc.good      -> acc
          [] t.k = "comma"  -> [acc EXCEPT !.i = @ + 1, !.good = acc.i + 1 < NOptions]
          [] t.k = "number" -> [acc EXCEPT !.o[acc.i] = t.v]
          [] OTHER          -> [acc EXCEPT !.good = FALSE]
  IN  FoldLeft(Take, [i |-> 0, o |-> NoOptions, good |-> TRUE], args.options)

ParseOptions ==
  /\ pc = "options"
  /\ \/ Exit /\ UNCHANGED options
     \/ Taken.good /\ options' = Taken.o /\ Goto("files")
  /\ UNCHANGED <<args, memory, board, next, was, fresh, kernel>>

Content(i) == IF i \in DOMAIN args.files THEN args.files[i] ELSE << >>
Length(i) == Len(Content(i))
Total == Length(0) + Length(1) + Length(2) + Length(3)

\* A slip: the files are read from the last to the first.
ReadLastFirst == Content(3) \o Content(2) \o Content(1) \o Content(0)

\* The files, one after the other in one block.
ReadFiles == Content(0) \o Content(1) \o Content(2) \o Content(3)

\* read_init_files; without data the address is left as it was given.
ReadInitFiles ==
  /\ pc = "files"
  /\ \/ DOMAIN args.files # {} /\ Exit /\ UNCHANGED <<options, memory>>
     \/ /\ Goto("devconfig")
        /\ options' = [o \in DOMAIN options |->
                         IF \E i \in Files : o = LengthOf(i) THEN Length(NPlain + 3 - o)
                         ELSE IF o = LENGTH THEN Total
                         ELSE IF o = ADDRESS /\ Total # 0 THEN Address ELSE options[o]]
        /\ memory' = ReadFiles
  /\ UNCHANGED <<args, board, next, was, fresh, kernel>>

\* Nothing more is done to a device that was removed.
AfterDevconfig == IF args.remove THEN "done" ELSE "devinfo"

\* COMEDI_DEVCONFIG: a driver attaches a board where there is none.
Devconfig ==
  /\ pc = "devconfig"
  /\ \/ Exit /\ UNCHANGED <<board, sizes, fresh>>
     \/ /\ Goto(AfterDevconfig)
        /\ IF args.remove THEN board' = NoBoard /\ sizes' = NoSizes
           ELSE /\ board = NoBoard
                /\ board' \in Boards(args.driver, options, memory) /\ sizes' \in FreshSizes
        /\ fresh' = sizes'
  /\ UNCHANGED <<args, options, memory, next, was, root, refused>>

-----------------------------------------------------------------------------
(***************************************************************************)
(* Resizing buffers.                                                       *)
(***************************************************************************)
Resizes == args.read # 0 \/ args.write # 0 \/ args.subs # << >>

\* COMEDI_DEVINFO, which an old kernel answers with a version that is too low.
Devinfo ==
  /\ pc = "devinfo"
  /\ \/ ~Resizes /\ Goto("done")
     \/ Resizes /\ board # NoBoard /\ ~board.old /\ Goto("read")
     \/ Resizes /\ Exit
  /\ UNCHANGED <<args, options, memory, board, next, was, fresh, kernel>>

\* COMEDI_BUFCONFIG for the maximum and the size, in bytes of 32 bits.
Resize(s, kb, then) ==
  \/ /\ s \in Subds
     /\ \E o \in BufConfig(s, kb % Wrap, kb % Wrap) :
          Set(s, o) /\ IF o.err = "none" THEN Goto(then) ELSE Exit
  \/ s \notin Subds /\ Exit /\ UNCHANGED <<sizes, refused>>

\* A subdevice that streams, if the size was given and there is one.
ResizeStream(kb, s, then) ==
  /\ IF kb = 0 \/ s < 0 THEN Goto(then) /\ UNCHANGED <<sizes, refused>> ELSE Resize(s, kb, then)
  /\ UNCHANGED <<args, options, memory, board, next, was, fresh, root>>

ResizeRead == pc = "read" /\ ResizeStream(args.read, board.read, "write")
ResizeWrite == pc = "write" /\ ResizeStream(args.write, board.write, "list")

\* The list of --subdevice-buffer.
ResizeListed ==
  /\ pc = "list" /\ next <= Len(args.subs)
  /\ Resize(args.subs[next][1], args.subs[next][2], "list")
  /\ next' = next + 1
  /\ UNCHANGED <<args, options, memory, board, was, fresh, root>>

ListDone ==
  /\ pc = "list" /\ next > Len(args.subs) /\ Goto("done")
  /\ UNCHANGED <<args, options, memory, board, next, was, fresh, kernel>>

ConfigNext ==
  \/ Start \/ ParseOptions \/ ReadInitFiles \/ Devconfig \/ Devinfo
  \/ ResizeRead \/ ResizeWrite \/ ResizeListed \/ ListDone

-----------------------------------------------------------------------------
(***************************************************************************)
(* Properties.                                                             *)
(***************************************************************************)

\* Every variable holds a value of its kind.
ConfigTypeOK ==
  /\ args \in CommandLines
  /\ pc \in {"start", "options", "files", "devconfig", "devinfo", "read", "write", "list", "done", "failed"}
  /\ DOMAIN options = 0 .. NOptions - 1 /\ next \in 1 .. Len(args.subs) + 1
  /\ \A s \in Subds : sizes[s].max % Page = 0 /\ sizes[s].size % Page = 0

\* The option at position o: the last number between two commas, or 0.
Given(o) ==
  LET here == {j \in DOMAIN args.options :
                 /\ args.options[j].k = "number"
                 /\ Cardinality({l \in 1 .. j : args.options[l].k = "comma"}) = o}
  IN  IF here = {} THEN 0 ELSE args.options[CHOOSE j \in here : \A l \in here : l <= j].v

\* A driver that finds its n-th file by the lengths of those before it gets
\* the whole of it, and the options that are its own are those of the command
\* line, whichever of the files were named.
FirmwareWhole ==
  args.driver # "none" /\ board.name = args.driver =>
    /\ \A o \in 0 .. NPlain - 1 : board.options[o] = Given(o)
    /\ board.options[LENGTH] = Len(board.data)
    /\ \A i \in Files :
         LET start == FoldLeft(+, 0, [j \in 1 .. i |-> board.options[LengthOf(j - 1)]])
         IN  SubSeq(board.data, start + 1, start + board.options[LengthOf(i)]) = Content(i)

\* What the command line asks of the buffers, in order; a 0 asks for nothing.
Streams(kb, s) == IF kb # 0 /\ s >= 0 THEN <<<<s, kb>>>> ELSE << >>
Requests ==
  IF args.remove \/ board = NoBoard THEN << >>
  ELSE Streams(args.read, board.read) \o Streams(args.write, board.write) \o args.subs
Fitting == \A r \in DOMAIN Requests : Requests[r][2] < Wrap

\* The sizes after the first n requests.
After(n) ==
  [s \in Subds |->
     LET mine == {r \in 1 .. n : Requests[r][1] = s /\ Requests[r][2] # 0}
     IN  IF mine = {} \/ s \notin Async THEN fresh[s]
         ELSE LET kb == Requests[CHOOSE r \in mine : \A l \in mine : l <= r][2]
              IN  [max |-> Round(kb), size |-> Round(kb)]]

\* Success: the board is there or gone as asked, and each buffer has the size
\* asked for last, whatever it was asked as.
ConfiguredAsAsked ==
  pc = "done" =>
    /\ args.remove => board = NoBoard /\ sizes = NoSizes
    /\ ~args.remove /\ args.driver # "none" => board.name = args.driver
    /\ ~args.remove /\ Fitting => sizes = After(Len(Requests))

\* Failure: the board is there or as it was, and the buffers are as after some
\* first part of the requests, but for the one whose request failed.
FailsInPlace ==
  pc = "failed" /\ Fitting =>
    /\ board = was \/ (args.driver # "none" /\ ~args.remove /\ board.name = args.driver)
    /\ \E n \in 0 .. Len(Requests) :
         \/ sizes = After(n)
         \/ /\ n < Len(Requests) /\ Requests[n + 1][1] \in Subds
            /\ \A s \in Subds : s # Requests[n + 1][1] => sizes[s] = After(n)[s]
=============================================================================
