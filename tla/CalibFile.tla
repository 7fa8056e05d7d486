------------------------------ MODULE CalibFile ------------------------------
(***************************************************************************)
(* Calibration files: lib/calib_yacc.y reads one into a structure of       *)
(* settings, lib/calib.c applies what it says of the calibration DACs to a *)
(* board and looks up its polynomials.  A file is the sequence of the      *)
(* elements the parser reduces, in which "end" closes a setting.  Numbers  *)
(* with a fraction are pairs <<n, d>>, d # 0; rounding of doubles is left  *)
(* out.  The parser runs in one thread and any allocation may fail.        *)
(***************************************************************************)
EXTENDS Integers, Sequences, FiniteSets, Functions

CONSTANTS Themes,       \* the elements a file is made of, one set per file
          MaxElements,  \* elements of a file after the names
          MaxArefs,     \* CS_MAX_AREFS_LENGTH
          MaxCoefs,     \* COMEDI_MAX_NUM_POLYNOMIAL_COEFFICIENTS
          Dacs,         \* the board's calibration DACs, [subdevice, channel]
          Queries,      \* where programs ask for a calibration
          HardRanges    \* [min, max, maxdata] of channels

Parameters ==
  /\ MaxElements \in Nat \ {0} /\ MaxArefs \in Nat \ {0} /\ MaxCoefs \in Nat \ {0}
  /\ \A e \in UNION Themes :
       /\ e.k \in {"coefficient", "origin"} => e.q \in Int \X (Int \ {0})
       /\ e.k = "caldac" => DOMAIN e.given \subseteq {"subdevice", "channel", "value"}
  /\ \A d \in Dacs : d = [subdevice |-> d.subdevice, channel |-> d.channel]
  /\ \A h \in HardRanges : h.min \in Int /\ h.max \in Int /\ h.min < h.max /\ h.maxdata \in Nat

VARIABLES pc,
          read,      \* the elements read so far
          calib,     \* the comedi_calibration_t: driver, board, settings
          caldac,    \* parse_arg->caldac, in which a DAC's fields are collected
          poly,      \* parse_arg->polynomial and num_coefficients
          index,     \* cal_index
          path,      \* comedi_apply_calibration holds the default path
          live,      \* heap objects
          unfilled,  \* settings for whose inverse there was no memory
          query,     \* what the program asked for
          pos,       \* the setting and the DAC in it that are next
          found, board, answer, got

parser == <<read, calib, caldac, poly, index>>
asking == <<query, pos, found, board, answer, got>>
vars == <<pc, parser, path, live, unfilled, asking>>

NULL == "NULL"
Names == {[k |-> "driver", name |-> "ours"], [k |-> "driver", name |-> "other"],
          [k |-> "board", name |-> "ours"], [k |-> "board", name |-> "other"]}

Count(P) == IF P THEN 1 ELSE 0

NoPoly == [origin |-> <<0, 1>>, coeffs |-> << >>]
NoCalib == [driver |-> NULL, board |-> NULL, settings |-> << >>]
EmptySetting ==
  [subdevice |-> 0, channels |-> << >>, ranges |-> << >>, arefs |-> << >>,
   caldacs |-> << >>, to_phys |-> NoPoly, from_phys |-> NoPoly]
NoQuery == [fn |-> "none"]

\* Heap objects of the settings, each by its setting and field, and of the
\* structure: free_calibration_setting and comedi_cleanup_calibration free
\* just these.
Directions == {"to_phys", "from_phys"}
Holds(s, f) == IF f \in Directions THEN s[f].coeffs # << >> ELSE s[f] # << >>
Objects ==
  {o \in (DOMAIN calib.settings) \X ({"channels", "ranges", "caldacs"} \union Directions) :
     Holds(calib.settings[o[1]], o[2])}
Reached ==
  1 + Count(calib.driver # NULL) + Count(calib.board # NULL) + Count(calib.settings # << >>)
    + Cardinality(Objects)

Init ==
  /\ pc = "start" /\ read = << >> /\ calib = NoCalib
  /\ caldac = [subdevice |-> 0, channel |-> 0, value |-> 0]
  /\ poly = NoPoly /\ index = 0 /\ path = FALSE /\ live = 0 /\ unfilled = {}
  /\ query = NoQuery /\ pos = <<1, 1>> /\ found = FALSE
  /\ board = [d \in Dacs |-> 0] /\ answer = 0 /\ got = << >>

Goto(l) == pc' = l
FreePath(n) == path' = FALSE /\ live' = n - Count(path)

-----------------------------------------------------------------------------
(***************************************************************************)
(* comedi_parse_calibration_file.                                          *)
(***************************************************************************)

\* A path of the caller's, or one that comedi_apply_calibration asks
\* comedi_get_default_calibration_path for; then the structure.
Start ==
  /\ pc = "start"
  /\ \/ path' \in BOOLEAN /\ live' = Count(path') + 1 /\ Goto("open")
     \/ UNCHANGED <<path, live>> /\ Goto("failed")
  /\ UNCHANGED <<parser, unfilled, asking>>

\* A file that cannot be opened: the structure is not given back.
OpenFails ==
  /\ pc = "open" /\ Goto("unopened") /\ FreePath(live)
  /\ UNCHANGED <<parser, unfilled, asking>>

Open == pc = "open" /\ Goto("parse") /\ UNCHANGED <<parser, path, live, unfilled, asking>>

\* A slip: on an error the settings are not freed.
AbortShallow ==
  /\ pc = "parse"
  /\ Goto("failed") /\ FreePath(live - Reached + Cardinality(Objects))
  /\ read' = << >> /\ calib' = NoCalib
  /\ UNCHANGED <<caldac, poly, index, unfilled, asking>>

\* YYABORT, YYERROR, or a syntax error, which may come anywhere: the
\* structure is cleaned up as far as it got.
Abort ==
  /\ pc = "parse"
  /\ Goto("failed") /\ FreePath(live - Reached)
  /\ read' = << >> /\ calib' = NoCalib
  /\ UNCHANGED <<caldac, poly, index, unfilled, asking>>

\* The next element: the names come first here, then those of one theme, but
\* only one of them where the names do not match, as nothing will be applied.
NamesMatch == calib.driver = "ours" /\ calib.board = "ours"
Take(e) ==
  /\ pc = "parse" /\ Len(read) < IF Len(read) < 2 \/ ~NamesMatch THEN 3 ELSE 2 + MaxElements
  /\ IF Len(read) < 2 THEN e \in Names
     ELSE \E t \in Themes : e \in t /\ Range(read) \subseteq t \union Names
  /\ read' = Append(read, e)
  /\ UNCHANGED <<pc, path, unfilled, asking>>

\* driver_name, board_name: a second one aborts.  strdup may answer NULL,
\* which is not noticed.
ReadName ==
  \E e \in Names :
    /\ Take(e) /\ calib[e.k] = NULL
    /\ \/ calib' = [calib EXCEPT ![e.k] = e.name] /\ live' = live + 1
       \/ UNCHANGED <<calib, live>>
    /\ UNCHANGED <<caldac, poly, index>>

\* current_setting: there are settings up to the current one.
Current == index + 1
Settings ==
  [i \in 1 .. IF Len(calib.settings) < Current THEN Current ELSE Len(calib.settings) |->
     IF i <= Len(calib.settings) THEN calib.settings[i] ELSE EmptySetting]

\* A change to the current setting that allocates n objects beside the array.
Change(field, value, n) ==
  /\ calib' = [calib EXCEPT !.settings = [Settings EXCEPT ![Current][field] = value]]
  /\ live' = live + n + Count(calib.settings = << >>)

\* add_channel, add_range and add_aref; the analog references are no object.
ListOf(kind) == IF kind = "channel" THEN "channels" ELSE IF kind = "range" THEN "ranges" ELSE "arefs"
ReadListed ==
  \E e \in UNION Themes :
    /\ e.k \in {"channel", "range", "aref"} /\ Take(e)
    /\ LET l == ListOf(e.k)
           old == Settings[Current][l]
       IN  /\ l = "arefs" => Len(old) < MaxArefs
           /\ Change(l, Append(old, e.v), Count(l # "arefs" /\ old = << >>))
    /\ UNCHANGED <<caldac, poly, index>>

ReadSubdevice ==
  \E e \in UNION Themes :
    /\ e.k = "subdevice" /\ Take(e) /\ Change("subdevice", e.v, 0)
    /\ UNCHANGED <<caldac, poly, index>>

\* A DAC: the fields given replace those of the one before, and all are kept.
ReadCaldac ==
  \E e \in UNION Themes :
    /\ e.k = "caldac" /\ Take(e)
    /\ caldac' = [g \in DOMAIN caldac |-> IF g \in DOMAIN e.given THEN e.given[g] ELSE caldac[g]]
    /\ LET old == Settings[Current].caldacs
       IN  Change("caldacs", Append(old, caldac'), Count(old = << >>))
    /\ UNCHANGED <<poly, index>>

ReadCoefficient ==
  \E e \in UNION Themes :
    /\ e.k = "coefficient" /\ Take(e) /\ Len(poly.coeffs) < MaxCoefs
    /\ poly' = [poly EXCEPT !.coeffs = Append(@, e.q)]
    /\ UNCHANGED <<calib, caldac, index, live>>

ReadOrigin ==
  \E e \in UNION Themes :
    /\ e.k = "origin" /\ Take(e)
    /\ poly' = [poly EXCEPT !.origin = e.q]
    /\ UNCHANGED <<calib, caldac, index, live>>

\* add_polynomial: one of a kind for a setting, with a coefficient at least.
\* Only the coefficients are forgotten after it.
ReadPolynomial ==
  \E e \in UNION Themes :
    /\ e.k \in Directions /\ Take(e)
    /\ poly.coeffs # << >> /\ Settings[Current][e.k].coeffs = << >>
    /\ Change(e.k, poly, 1)
    /\ poly' = [poly EXCEPT !.coeffs = << >>]
    /\ UNCHANGED <<caldac, index>>

\* The end of a setting, which need not have had an element.
ReadEnd ==
  \E e \in UNION Themes :
    /\ e.k = "end" /\ Take(e) /\ index' = index + 1
    /\ UNCHANGED <<calib, caldac, poly, live>>

\* The last setting is closed, and so is the file.
EndOfFile ==
  /\ pc = "parse"
  /\ Len(read) > 2 => read[Len(read)].k = "end"
  /\ Goto("inverse") /\ UNCHANGED <<parser, path, live, unfilled, asking>>

\* alloc_inverse_linear_polynomial, where the slope has a finite inverse.
Invertible(p) == Len(p.coeffs) = 2 /\ p.coeffs[2][1] # 0
InverseLinear(p) ==
  [origin |-> p.coeffs[1], coeffs |-> <<p.origin, <<p.coeffs[2][2], p.coeffs[2][1]>>>>]

Other(dir) == IF dir = "to_phys" THEN "from_phys" ELSE "to_phys"
Lacks(s, dir) == s[dir].coeffs = << >> /\ Invertible(s[Other(dir)])
Fill(s) ==
  [s EXCEPT !.to_phys = IF Lacks(s, "to_phys") THEN InverseLinear(s.from_phys) ELSE @,
            !.from_phys = IF Lacks(s, "from_phys") THEN InverseLinear(s.to_phys) ELSE @]

\* fill_inverse_linear_polynomials, while there is memory; the path is freed.
FillInverse ==
  /\ pc = "inverse"
  /\ LET lacking == {i \in DOMAIN calib.settings : \E d \in Directions : Lacks(calib.settings[i], d)}
     IN  /\ unfilled' \in SUBSET lacking
         /\ calib' = [calib EXCEPT !.settings =
                        [i \in DOMAIN @ |-> IF i \in lacking \ unfilled' THEN Fill(@[i]) ELSE @[i]]]
         /\ FreePath(live + Cardinality(lacking \ unfilled'))
  /\ Goto("loaded") /\ UNCHANGED <<read, caldac, poly, index, asking>>

ParseStep ==
  \/ Start \/ OpenFails \/ Open \/ Abort \/ ReadName \/ ReadListed \/ ReadSubdevice
  \/ ReadCaldac \/ ReadCoefficient \/ ReadOrigin \/ ReadPolynomial \/ ReadEnd
  \/ EndOfFile \/ FillInverse

-----------------------------------------------------------------------------
(***************************************************************************)
(* Using it.                                                               *)
(***************************************************************************)
unasked == <<parser, path, live, unfilled>>

Ask(q) == pc = "loaded" /\ query' = q /\ UNCHANGED <<unasked, pos, found, board>>

\* check_cal_file compares the names with the device's; strcmp(NULL) is
\* undefined, and ends the program.
NameMissing == calib.driver = NULL \/ (calib.driver = "ours" /\ calib.board = NULL)

Apply ==
  \E q \in Queries :
    /\ Ask([fn |-> "apply", subd |-> q.subd, chan |-> q.chan, range |-> q.range, aref |-> q.aref])
    /\ UNCHANGED got
    /\ IF NameMissing THEN Goto("crashed") /\ UNCHANGED answer
       ELSE IF NamesMatch THEN Goto("apply") /\ UNCHANGED answer
       ELSE Goto("answered") /\ answer' = -1

\* A list without elements holds for all.
Valid(list, v) == list = << >> \/ v \in Range(list)

\* A slip: the analog reference is not looked at.
MatchesNoAref(s) ==
  /\ s.subdevice = query.subd /\ Valid(s.ranges, query.range) /\ Valid(s.channels, query.chan)

Matches(s) ==
  /\ s.subdevice = query.subd /\ Valid(s.ranges, query.range)
  /\ Valid(s.channels, query.chan) /\ Valid(s.arefs, query.aref)

AtSetting == pc = "apply" /\ pos[1] <= Len(calib.settings)
This == calib.settings[pos[1]]

\* A setting that is not the one, or done.
NextSetting ==
  /\ AtSetting /\ (Matches(This) => pos[2] > Len(This.caldacs))
  /\ found' = (found \/ Matches(This)) /\ pos' = <<pos[1] + 1, 1>>
  /\ UNCHANGED <<pc, unasked, query, board, answer, got>>

\* comedi_data_write of one DAC, which the driver may refuse, and does where
\* there is none.
WriteCaldac ==
  /\ AtSetting /\ Matches(This) /\ pos[2] <= Len(This.caldacs)
  /\ LET c == This.caldacs[pos[2]]
         d == [subdevice |-> c.subdevice, channel |-> c.channel]
     IN  \/ /\ d \in Dacs /\ board' = [board EXCEPT ![d] = c.value]
            /\ pos' = <<pos[1], pos[2] + 1>> /\ UNCHANGED <<pc, answer>>
         \/ answer' = -1 /\ Goto("answered") /\ UNCHANGED <<board, pos>>
  /\ UNCHANGED <<unasked, query, found, got>>

Applied ==
  /\ pc = "apply" /\ pos[1] > Len(calib.settings)
  /\ answer' = (IF found THEN 0 ELSE -1) /\ Goto("answered")
  /\ UNCHANGED <<unasked, query, pos, found, board, got>>

\* Whether a setting has the polynomial; there is no analog reference here.
Converts(s, q) ==
  /\ s.subdevice = q.subd /\ Valid(s.channels, q.chan) /\ Valid(s.ranges, q.range)
  /\ s[q.dir].coeffs # << >>

\* comedi_get_softcal_converter: the first setting that has it.
Softcal ==
  \E q \in Queries, dir \in Directions :
    LET soft == [fn |-> "soft", dir |-> dir, subd |-> q.subd, chan |-> q.chan, range |-> q.range]
        has == {i \in DOMAIN calib.settings : Converts(calib.settings[i], soft)}
    IN  /\ Ask(soft) /\ Goto("answered")
        /\ IF has = {} THEN answer' = -1 /\ got' = << >>
           ELSE LET i == CHOOSE i \in has : \A j \in has : i <= j
                IN  answer' = 0 /\ got' = <<calib.settings[i][dir]>>

\* The polynomials of comedi_get_hardcal_converter, there and back.
Hardcal(h) ==
  <<[origin |-> <<0, 1>>, coeffs |-> <<<<h.min, 1>>, <<h.max - h.min, h.maxdata>>>>],
    [origin |-> <<h.min, 1>>, coeffs |-> <<<<0, 1>>, <<h.maxdata, h.max - h.min>>>>]>>

GetHardcal ==
  \E h \in HardRanges :
    /\ Ask([fn |-> "hard", min |-> h.min, max |-> h.max, maxdata |-> h.maxdata]) /\ Goto("answered")
    /\ IF h.maxdata = 0 THEN answer' = -1 /\ got' = << >> ELSE answer' = 0 /\ got' = Hardcal(h)

\* comedi_cleanup_calibration.
Cleanup ==
  /\ pc \in {"loaded", "answered"} /\ Goto("closed")
  /\ live' = live - Reached /\ calib' = NoCalib /\ read' = << >>
  /\ UNCHANGED <<caldac, poly, index, path, unfilled, asking>>

UseStep == Apply \/ NextSetting \/ WriteCaldac \/ Applied \/ Softcal \/ GetHardcal \/ Cleanup

Next == ParseStep \/ UseStep

Spec == Init /\ [][Next]_vars

-----------------------------------------------------------------------------
(***************************************************************************)
(* What a file f means, told from its elements and not from the parser.    *)
(***************************************************************************)
Before(f, p, K) == {j \in 1 .. p : f[j].k \in K}
SettingAt(f, p) == 1 + Cardinality(Before(f, p - 1, {"end"}))
Latest(S) == CHOOSE p \in S : \A j \in S : j <= p

\* The positions in S as a sequence.
Nth(S, n) == CHOOSE p \in S : Cardinality({j \in S : j < p}) = n - 1
InOrder(S) == [n \in 1 .. Cardinality(S) |-> Nth(S, n)]

\* The elements of kind K in setting i.
Written(f, i, K) == {p \in Before(f, Len(f), K) : SettingAt(f, p) = i}
Values(f, i, kind) ==
  LET w == InOrder(Written(f, i, {kind})) IN [n \in DOMAIN w |-> f[w[n]].v]

\* A DAC has in each field what was last given, in this DAC or an earlier one.
Given(f, p, g) == {j \in Before(f, p, {"caldac"}) : g \in DOMAIN f[j].given}
CaldacAt(f, p) ==
  [g \in {"subdevice", "channel", "value"} |->
     IF Given(f, p, g) = {} THEN 0 ELSE f[Latest(Given(f, p, g))].given[g]]

\* A polynomial has the coefficients since the one before, and the last origin.
PolyAt(f, p) ==
  LET since == InOrder({j \in Before(f, p, {"coefficient"}) : Before(f, p - 1, Directions) \subseteq 1 .. j})
      origins == Before(f, p, {"origin"})
  IN  [origin |-> IF origins = {} THEN <<0, 1>> ELSE f[Latest(origins)].q,
       coeffs |-> [n \in DOMAIN since |-> f[since[n]].q]]
PolyOf(f, i, dir) ==
  LET w == Written(f, i, {dir}) IN IF w = {} THEN NoPoly ELSE PolyAt(f, Nth(w, 1))

Meaning(f, i) ==
  [subdevice |-> LET s == Values(f, i, "subdevice") IN IF s = << >> THEN 0 ELSE s[Len(s)],
   channels |-> Values(f, i, "channel"), ranges |-> Values(f, i, "range"),
   arefs |-> Values(f, i, "aref"),
   caldacs |-> LET c == InOrder(Written(f, i, {"caldac"})) IN [n \in DOMAIN c |-> CaldacAt(f, c[n])],
   to_phys |-> PolyOf(f, i, "to_phys"), from_phys |-> PolyOf(f, i, "from_phys")]

\* There are settings up to the last that says something.
Says == Directions \union {"subdevice", "channel", "range", "aref", "caldac"}
SettingCount(f) ==
  LET S == Before(f, Len(f), Says) IN IF S = {} THEN 0 ELSE SettingAt(f, Latest(S))
File(f) == [i \in 1 .. SettingCount(f) |-> Meaning(f, i)]

\* Arithmetic of fractions, and apply_polynomial.
Plus(v, w) == <<v[1] * w[2] + w[1] * v[2], v[2] * w[2]>>
Times(v, w) == <<v[1] * w[1], v[2] * w[2]>>
Same(v, w) == v[1] * w[2] = w[1] * v[2]
apply_polynomial(p, input) ==
  LET base == Plus(input, <<-p.origin[1], p.origin[2]>>)
      term[n \in 0 .. Len(p.coeffs)] == IF n = 0 THEN <<1, 1>> ELSE Times(term[n - 1], base)
      value[n \in 0 .. Len(p.coeffs)] ==
        IF n = 0 THEN <<0, 1>> ELSE Plus(value[n - 1], Times(p.coeffs[n], term[n - 1]))
  IN  value[Len(p.coeffs)]

\* Two polynomials undo each other on some samples.
Undoes(p, q) == \A s \in 0 .. 3 : Same(apply_polynomial(p, apply_polynomial(q, <<s, 1>>)), <<s, 1>>)

-----------------------------------------------------------------------------
(***************************************************************************)
(* Properties.                                                             *)
(***************************************************************************)

\* Every variable holds a value of its kind.
TypeOK ==
  /\ pc \in {"start", "open", "unopened", "failed", "parse", "inverse", "loaded", "apply",
             "answered", "crashed", "closed"}
  /\ \A name \in {calib.driver, calib.board} : name \in {"ours", "other", NULL}
  /\ index \in 0 .. MaxElements /\ Len(poly.coeffs) <= MaxCoefs
  /\ Len(read) <= 2 + MaxElements /\ path \in BOOLEAN /\ live \in Nat /\ found \in BOOLEAN
  /\ answer \in {-1, 0} /\ DOMAIN board = Dacs
  /\ \A i \in DOMAIN calib.settings : Len(calib.settings[i].arefs) <= MaxArefs

\* A structure handed to the program says what the file says: each value in
\* the setting it was written in, whatever came before, with the fields of a
\* DAC and the origin of a polynomial that were not given taken over.
ParsedAsWritten == pc = "inverse" => calib.settings = File(read)

\* Whatever fails, each object is reached from the structure until it is
\* freed, and nothing is left at the end but the structure of a file that
\* could not be opened.
NothingLost ==
  live = Count(path) + IF pc \in {"start", "failed", "closed"} THEN 0
                       ELSE IF pc \in {"open", "unopened"} THEN 1 ELSE Reached

\* What a setting is for: a list it does not give is no condition.
For(i, kind, v) == LET l == Values(read, i, kind) IN l = << >> \/ \E n \in DOMAIN l : l[n] = v
ForChannel(i) ==
  /\ Meaning(read, i).subdevice = query.subd
  /\ For(i, "channel", query.chan) /\ For(i, "range", query.range)
ForAsked(i) == ForChannel(i) /\ For(i, "aref", query.aref)

\* The DACs the file gives for what was asked for, in the order of the file,
\* and the board after those up to position p.
Needed == {p \in Before(read, Len(read), {"caldac"}) : ForAsked(SettingAt(read, p))}
NeededOf(d, p) ==
  {j \in Needed : /\ j <= p
                  /\ CaldacAt(read, j).subdevice = d.subdevice /\ CaldacAt(read, j).channel = d.channel}
BoardAfter(p) ==
  [d \in Dacs |-> IF NeededOf(d, p) = {} THEN 0 ELSE CaldacAt(read, Latest(NeededOf(d, p))).value]

\* Success means that every DAC of every matching setting is on the board,
\* the later ones over the earlier, and that there was such a setting; after a
\* failure a first part of them is, and no other DAC was touched.
AppliedInOrder ==
  pc = "answered" /\ query.fn = "apply" =>
    /\ \E p \in 0 .. Len(read) : board = BoardAfter(p)
    /\ answer = 0 => /\ board = BoardAfter(Len(read))
                     /\ \E i \in 1 .. SettingCount(read) : ForAsked(i)

\* A converter is the polynomial of the first setting for the channel and range
\* that gives it or, if its own is linear, whose other one it undoes; a
\* hardware converter maps the samples onto the range and back.
ConverterFits ==
  pc = "answered" =>
    /\ query.fn = "soft" =>
         LET fits == {i \in 1 .. SettingCount(read) :
                        /\ ForChannel(i)
                        /\ \/ Meaning(read, i)[query.dir] # NoPoly
                           \/ i \notin unfilled /\ Invertible(Meaning(read, i)[Other(query.dir)])}
         IN  /\ answer = 0 <=> fits # {}
             /\ fits # {} =>
                  LET i == CHOOSE i \in fits : \A j \in fits : i <= j
                  IN  IF Written(read, i, {query.dir}) # {} THEN got[1] = Meaning(read, i)[query.dir]
                      ELSE Undoes(got[1], Meaning(read, i)[Other(query.dir)])
    /\ query.fn = "hard" /\ answer = 0 =>
         /\ Undoes(got[2], got[1])
         /\ Same(apply_polynomial(got[1], <<0, 1>>), <<query.min, 1>>)
         /\ Same(apply_polynomial(got[1], <<query.maxdata, 1>>), <<query.max, 1>>)
=============================================================================
