-------------------------- MODULE ComediHandle_proofs --------------------------
(***************************************************************************)
(* A device and those who open it.  Heap accounting of a device handle,    *)
(* for any number of subdevices and whatever shapes the driver describes;  *)
(* the C++ objects that share structures, for any sets of objects; and     *)
(* what comedi_board_info is told, for any driver.                         *)
(***************************************************************************)
EXTENDS MCComediHandle, SequenceTheorems, TLAPS

-----------------------------------------------------------------------------
(***************************************************************************)
(* ComediHandle: the heap.                                                 *)
(***************************************************************************)
\* Where the two loop counters of the filler can be at each label.
LoopInv ==
  /\ pc \in Before => cur = 0
  /\ pc \notin Ranging => chan = 0
  /\ pc \in Body => cur < NSubd /\ ~info[cur].unused
  /\ pc = "rangeinfo_list" => PerChannel(cur)
  /\ pc = "kr" => chan <= NRanges(cur)
  /\ pc \in {"range", "ioctl_range"} => chan < NRanges(cur)
  /\ pc = "ready" => cur = NSubd

Counters == TypeOK /\ LoopInv

\* The inductive invariant.
IInv == Counters /\ HeapIsDue

\* Vocabulary every step is unfolded with.
USE NSubdAssumption, ShapesAssumption
    DEF PCs, Subd, Kinds, ListKinds, Before, Body, Ranging,
        It, Fd, S, Subdevices, Kr, Own, Obj, List, RangeinfoList, Rangeinfo, CmdMask,
        NRanges, PerChannel, Gets, Goto, Ends, Fails

\* It holds before comedi_open is called.
LEMMA InitIInv == Init => IInv
<1> SUFFICES ASSUME Init PROVE IInv
  OBVIOUS
<1>1. Counters
  BY DEF Init, Counters, TypeOK, LoopInv
<1>2. NoneKept /\ ScratchThere
  BY DEF Init, NoneKept, ScratchThere, ScratchDue
<1>3. ListsThere
  <2> SUFFICES ASSUME NEW i \in Subd, NEW k \in ListKinds PROVE ~ListDue(k, i)
    BY DEF ListsThere
  <2> QED
    BY DEF Init, ListDue, Passed
<1>4. RangeinfoListsThere /\ RangesThere
  BY DEF Init, RangeinfoListsThere, RangesThere, RangeinfoListDue, RangeinfoDue
<1> QED
  BY <1>1, <1>2, <1>3, <1>4 DEF IInv, HeapIsDue, NoneMissing

\* The loop counters stay within the loops.
LEMMA CountersStep == Counters /\ [Next]_vars => Counters'
<1> SUFFICES ASSUME Counters, [Next]_vars PROVE Counters'
  OBVIOUS
<1> USE DEF Counters, TypeOK, LoopInv
<1>1. CASE Malloc
  BY <1>1 DEF Malloc
<1>2. CASE OpenFile
  BY <1>2 DEF OpenFile
<1>3. CASE Devinfo
  BY <1>3 DEF Devinfo
<1>4. CASE CallocS
  BY <1>4 DEF CallocS
<1>5. CASE Subdinfo
  BY <1>5 DEF Subdinfo
<1>6. CASE CallocR
  BY <1>6 DEF CallocR
<1>7. CASE Used
  BY <1>7 DEF Used
<1>8. CASE Skip
  BY <1>8 DEF Skip
<1>9. CASE Finish
  BY <1>9 DEF Finish
<1>10. CASE CallocList
  BY <1>10 DEF CallocList, AfterList
<1>11. CASE Chaninfo
  BY <1>11 DEF Chaninfo
<1>12. CASE CallocRangeinfoList
  BY <1>12 DEF CallocRangeinfoList
<1>13. CASE CallocKr
  BY <1>13 DEF CallocKr
<1>14. CASE CallocRange
  BY <1>14 DEF CallocRange
<1>15. CASE IoctlRange
  BY <1>15 DEF IoctlRange
<1>16. CASE RangesDone
  BY <1>16 DEF RangesDone
<1>17. ASSUME NEW i \in Subd, GetCmdSrcMask(i) PROVE Counters'
  BY <1>17 DEF GetCmdSrcMask
<1>18. CASE Close
  BY <1>18 DEF Close
<1>19. CASE UNCHANGED vars
  BY <1>19 DEF vars
<1> QED
  BY <1>1, <1>2, <1>3, <1>4, <1>5, <1>6, <1>7, <1>8, <1>9, <1>10, <1>11, <1>12,
     <1>13, <1>14, <1>15, <1>16, <1>17, <1>18, <1>19 DEF Next, OpenStep

\* No step leaves an object that is not due.
LEMMA NoneKeptStep == IInv /\ [Next]_vars => NoneKept'
<1> SUFFICES ASSUME IInv, [Next]_vars PROVE NoneKept'
  OBVIOUS
<1> USE DEF IInv, Counters, TypeOK, LoopInv, HeapIsDue, NoneKept,
            ScratchDue, ListDue, RangeinfoListDue, RangeinfoDue, Passed
<1>1. CASE Malloc
  BY <1>1 DEF Malloc
<1>2. CASE OpenFile
  BY <1>2 DEF OpenFile
<1>3. CASE Devinfo
  BY <1>3 DEF Devinfo
<1>4. CASE CallocS
  BY <1>4 DEF CallocS
<1>5. CASE Subdinfo
  BY <1>5 DEF Subdinfo
<1>6. CASE CallocR
  BY <1>6 DEF CallocR
<1>7. CASE Used
  BY <1>7 DEF Used
<1>8. CASE Skip
  BY <1>8 DEF Skip
<1>9. CASE Finish
  BY <1>9 DEF Finish
<1>10. CASE CallocList
  BY <1>10 DEF CallocList, AfterList
<1>11. CASE Chaninfo
  BY <1>11 DEF Chaninfo
<1>12. CASE CallocRangeinfoList
  BY <1>12 DEF CallocRangeinfoList
<1>13. CASE CallocKr
  BY <1>13 DEF CallocKr
<1>14. CASE CallocRange
  BY <1>14 DEF CallocRange
<1>15. CASE IoctlRange
  BY <1>15 DEF IoctlRange
<1>16. CASE RangesDone
  BY <1>16 DEF RangesDone
<1>17. ASSUME NEW i \in Subd, GetCmdSrcMask(i) PROVE NoneKept'
  BY <1>17 DEF GetCmdSrcMask
<1>18. CASE Close
  BY <1>18 DEF Close
<1>19. CASE UNCHANGED vars
  BY <1>19 DEF vars
<1> QED
  BY <1>1, <1>2, <1>3, <1>4, <1>5, <1>6, <1>7, <1>8, <1>9, <1>10, <1>11, <1>12,
     <1>13, <1>14, <1>15, <1>16, <1>17, <1>18, <1>19 DEF Next, OpenStep

\* The temporary arrays are there while their loops run.
LEMMA ScratchThereStep == IInv /\ [Next]_vars => ScratchThere'
<1> SUFFICES ASSUME IInv, [Next]_vars,
                    NEW o \in {It, Fd, S, Subdevices, Kr}, ScratchDue(o)'
             PROVE  o \in heap'
  BY DEF ScratchThere
<1> USE DEF IInv, Counters, TypeOK, LoopInv, HeapIsDue, NoneMissing, ScratchThere, ScratchDue
<1>1. CASE Malloc
  BY <1>1 DEF Malloc
<1>2. CASE OpenFile
  BY <1>2 DEF OpenFile
<1>3. CASE Devinfo
  BY <1>3 DEF Devinfo
<1>4. CASE CallocS
  BY <1>4 DEF CallocS
<1>5. CASE Subdinfo
  BY <1>5 DEF Subdinfo
<1>6. CASE CallocR
  BY <1>6 DEF CallocR
<1>7. CASE Used
  BY <1>7 DEF Used
<1>8. CASE Skip
  BY <1>8 DEF Skip
<1>9. CASE Finish
  BY <1>9 DEF Finish
<1>10. CASE CallocList
  <2>1. CASE pc' = "closed"
    BY <1>10, <2>1 DEF CallocList
  <2>2. CASE pc' = AfterList[pc]
    <3>1. heap \subseteq heap' /\ pc' \in ListKinds \union {"chaninfo"}
      BY <1>10, <2>2 DEF CallocList, AfterList
    <3>2. ScratchDue(o)
      BY <1>10, <3>1 DEF CallocList
    <3> QED
      BY <3>1, <3>2
  <2> QED
    BY <1>10, <2>1, <2>2 DEF CallocList
<1>11. CASE Chaninfo
  BY <1>11 DEF Chaninfo
<1>12. CASE CallocRangeinfoList
  BY <1>12 DEF CallocRangeinfoList
<1>13. CASE CallocKr
  BY <1>13 DEF CallocKr
<1>14. CASE CallocRange
  BY <1>14 DEF CallocRange
<1>15. CASE IoctlRange
  BY <1>15 DEF IoctlRange
<1>16. CASE RangesDone
  BY <1>16 DEF RangesDone
<1>17. ASSUME NEW m \in Subd, GetCmdSrcMask(m) PROVE o \in heap'
  BY <1>17 DEF GetCmdSrcMask
<1>18. CASE Close
  BY <1>18 DEF Close
<1>19. CASE UNCHANGED vars
  BY <1>19 DEF vars
<1> QED
  BY <1>1, <1>2, <1>3, <1>4, <1>5, <1>6, <1>7, <1>8, <1>9, <1>10, <1>11, <1>12,
     <1>13, <1>14, <1>15, <1>16, <1>17, <1>18, <1>19 DEF Next, OpenStep

\* The lists of each subdevice passed are there.
LEMMA ListsThereStep == IInv /\ [Next]_vars => ListsThere'
<1> SUFFICES ASSUME IInv, [Next]_vars,
                    NEW n \in Subd, NEW k \in ListKinds, ListDue(k, n)'
             PROVE  List(k, n) \in heap'
  BY DEF ListsThere
<1>0. Counters /\ (ListDue(k, n) => List(k, n) \in heap)
  BY DEF IInv, HeapIsDue, NoneMissing, ListsThere
<1> USE <1>0 DEF Counters, TypeOK, LoopInv, ListDue, Passed
<1>1. CASE Malloc
  BY <1>1 DEF Malloc
<1>2. CASE OpenFile
  BY <1>2 DEF OpenFile
<1>3. CASE Devinfo
  BY <1>3 DEF Devinfo
<1>4. CASE CallocS
  BY <1>4 DEF CallocS
<1>5. CASE Subdinfo
  BY <1>5 DEF Subdinfo
<1>6. CASE CallocR
  BY <1>6 DEF CallocR
<1>7. CASE Used
  BY <1>7 DEF Used
<1>8. CASE Skip
  BY <1>8 DEF Skip
<1>9. CASE Finish
  BY <1>9 DEF Finish
<1>10. CASE CallocList
  <2> USE <1>10 DEF CallocList, AfterList
  <2>1. CASE pc = "SDF_FLAGS"
    BY <2>1
  <2>2. CASE pc = "SDF_MAXDATA"
    BY <2>2
  <2>3. CASE pc = "SDF_RANGETYPE"
    BY <2>3
  <2> QED
    BY <2>1, <2>2, <2>3
<1>11. CASE Chaninfo
  BY <1>11 DEF Chaninfo
<1>12. CASE CallocRangeinfoList
  BY <1>12 DEF CallocRangeinfoList
<1>13. CASE CallocKr
  BY <1>13 DEF CallocKr
<1>14. CASE CallocRange
  BY <1>14 DEF CallocRange
<1>15. CASE IoctlRange
  BY <1>15 DEF IoctlRange
<1>16. CASE RangesDone
  BY <1>16 DEF RangesDone
<1>17. ASSUME NEW m \in Subd, GetCmdSrcMask(m) PROVE List(k, n) \in heap'
  BY <1>17 DEF GetCmdSrcMask
<1>18. CASE Close
  BY <1>18 DEF Close
<1>19. CASE UNCHANGED vars
  BY <1>19 DEF vars
<1> QED
  BY <1>1, <1>2, <1>3, <1>4, <1>5, <1>6, <1>7, <1>8, <1>9, <1>10, <1>11, <1>12,
     <1>13, <1>14, <1>15, <1>16, <1>17, <1>18, <1>19 DEF Next, OpenStep

\* So are the arrays of pointers to range tables.
LEMMA RangeinfoListsThereStep == IInv /\ [Next]_vars => RangeinfoListsThere'
<1> SUFFICES ASSUME IInv, [Next]_vars,
                    NEW n \in Subd, RangeinfoListDue(n)'
             PROVE  RangeinfoList(n) \in heap'
  BY DEF RangeinfoListsThere
<1> USE DEF IInv, Counters, TypeOK, LoopInv, HeapIsDue, NoneMissing, RangeinfoListsThere, RangeinfoListDue
<1>1. CASE Malloc
  BY <1>1 DEF Malloc
<1>2. CASE OpenFile
  BY <1>2 DEF OpenFile
<1>3. CASE Devinfo
  BY <1>3 DEF Devinfo
<1>4. CASE CallocS
  BY <1>4 DEF CallocS
<1>5. CASE Subdinfo
  BY <1>5 DEF Subdinfo
<1>6. CASE CallocR
  BY <1>6 DEF CallocR
<1>7. CASE Used
  BY <1>7 DEF Used
<1>8. CASE Skip
  BY <1>8 DEF Skip
<1>9. CASE Finish
  BY <1>9 DEF Finish
<1>10. CASE CallocList
  BY <1>10 DEF CallocList, AfterList
<1>11. CASE Chaninfo
  BY <1>11 DEF Chaninfo
<1>12. CASE CallocRangeinfoList
  BY <1>12 DEF CallocRangeinfoList
<1>13. CASE CallocKr
  BY <1>13 DEF CallocKr
<1>14. CASE CallocRange
  BY <1>14 DEF CallocRange
<1>15. CASE IoctlRange
  BY <1>15 DEF IoctlRange
<1>16. CASE RangesDone
  BY <1>16 DEF RangesDone
<1>17. ASSUME NEW m \in Subd, GetCmdSrcMask(m) PROVE RangeinfoList(n) \in heap'
  BY <1>17 DEF GetCmdSrcMask
<1>18. CASE Close
  BY <1>18 DEF Close
<1>19. CASE UNCHANGED vars
  BY <1>19 DEF vars
<1> QED
  BY <1>1, <1>2, <1>3, <1>4, <1>5, <1>6, <1>7, <1>8, <1>9, <1>10, <1>11, <1>12,
     <1>13, <1>14, <1>15, <1>16, <1>17, <1>18, <1>19 DEF Next, OpenStep

\* And the tables themselves, up to the channel reached.
LEMMA RangesThereStep == IInv /\ [Next]_vars => RangesThere'
<1> SUFFICES ASSUME IInv, [Next]_vars,
                    NEW n \in Subd, NEW j \in (0 .. NRanges(n) - 1)', RangeinfoDue(n, j)'
             PROVE  Rangeinfo(n, j) \in heap'
  BY DEF RangesThere
<1> USE DEF IInv, Counters, TypeOK, LoopInv, HeapIsDue, NoneMissing, RangesThere, RangeinfoListDue, RangeinfoDue
<1>1. CASE Malloc
  BY <1>1 DEF Malloc
<1>2. CASE OpenFile
  BY <1>2 DEF OpenFile
<1>3. CASE Devinfo
  BY <1>3 DEF Devinfo
<1>4. CASE CallocS
  BY <1>4 DEF CallocS
<1>5. CASE Subdinfo
  BY <1>5 DEF Subdinfo
<1>6. CASE CallocR
  BY <1>6 DEF CallocR
<1>7. CASE Used
  BY <1>7 DEF Used
<1>8. CASE Skip
  BY <1>8 DEF Skip
<1>9. CASE Finish
  BY <1>9 DEF Finish
<1>10. CASE CallocList
  BY <1>10 DEF CallocList, AfterList
<1>11. CASE Chaninfo
  BY <1>11 DEF Chaninfo
<1>12. CASE CallocRangeinfoList
  BY <1>12 DEF CallocRangeinfoList
<1>13. CASE CallocKr
  BY <1>13 DEF CallocKr
<1>14. CASE CallocRange
  BY <1>14 DEF CallocRange
<1>15. CASE IoctlRange
  BY <1>15 DEF IoctlRange
<1>16. CASE RangesDone
  BY <1>16 DEF RangesDone
<1>17. ASSUME NEW m \in Subd, GetCmdSrcMask(m) PROVE Rangeinfo(n, j) \in heap'
  BY <1>17 DEF GetCmdSrcMask
<1>18. CASE Close
  BY <1>18 DEF Close
<1>19. CASE UNCHANGED vars
  BY <1>19 DEF vars
<1> QED
  BY <1>1, <1>2, <1>3, <1>4, <1>5, <1>6, <1>7, <1>8, <1>9, <1>10, <1>11, <1>12,
     <1>13, <1>14, <1>15, <1>16, <1>17, <1>18, <1>19 DEF Next, OpenStep

\* In every state of every run of comedi_open, comedi_get_cmd_src_mask and
\* comedi_close the counters are in range, the handle's live objects are those
\* due, and the loops are where their conditions put them.
THEOREM Invariance == Spec => []IInv
<1>1. IInv /\ [Next]_vars => IInv'
  BY CountersStep, NoneKeptStep, ScratchThereStep, ListsThereStep,
     RangeinfoListsThereStep, RangesThereStep
     DEF IInv, HeapIsDue, NoneMissing
<1> QED
  BY InitIInv, <1>1, PTL DEF Spec

\* What comedi_open built is exactly what the other calls may dereference and
\* comedi_close must free, in every state of every run.
THEOREM HeapAccounting == Spec => [](TypeOK /\ HeapIsDue)
<1>1. IInv => TypeOK /\ HeapIsDue
  BY DEF IInv, Counters
<1> QED
  BY Invariance, <1>1, PTL

\* What a step may lose.
Lost ==
  \A o \in orphans' \ orphans :
     \/ o[1] = "rangeinfo_list" /\ pc # "ready"
     \/ o[1] = "cmd_mask" /\ pc = "ready" /\ info[o[2]].unused

\* A failing comedi_open loses at most rangeinfo_list arrays.
LEMMA FailLoses ==
  ASSUME IInv, NEW gone, Fails(gone), pc \notin {"closed", "ready"},
         pc \in {"range", "ioctl_range"} => Kr \in gone
  PROVE  Lost
<1> SUFFICES ASSUME NEW o \in heap, o \notin FreedByGetSubdevices, o \notin FreedByOpen,
                    o \notin gone
             PROVE  o[1] = "rangeinfo_list"
  BY DEF Lost
<1> USE DEF IInv, Counters, TypeOK, LoopInv, HeapIsDue, FreedByGetSubdevices
<1>1. ~ScratchDue(o)
  BY DEF ScratchDue, FreedByOpen
<1>2. CASE o[1] = "rangeinfo" /\ o[2] \in Subd /\ RangeinfoDue(o[2], o[3])
  <2>1. CASE PerChannel(o[2])
    BY <1>2, <2>1 DEF RangeinfoDue, RangeinfoListDue, NoneMissing, RangeinfoListsThere
  <2>2. CASE ~PerChannel(o[2])
    BY <1>2, <2>2 DEF RangeinfoDue, RangeinfoListDue, NoneKept, ScratchDue
  <2> QED
    BY <2>1, <2>2
<1> QED
  BY <1>1, <1>2 DEF NoneKept

\* comedi_close loses at most the masks of unused subdevices.
LEMMA CloseLoses == IInv /\ Close => Lost
<1> SUFFICES ASSUME IInv, Close,
                    NEW o \in heap, o \notin FreedByClose
             PROVE  o[1] = "cmd_mask" /\ info[o[2]].unused
  BY DEF Lost, Close
<1> QED
  BY DEF IInv, Counters, TypeOK, LoopInv, HeapIsDue, NoneKept, FreedByClose, Close,
         ScratchDue, ListDue, RangeinfoListDue, RangeinfoDue

\* The losses named by LossesAreKnown are the only ones.
THEOREM Losses == Spec => LossesAreKnown
<1>1. IInv /\ [Next]_vars => [Lost]_vars
  <2> SUFFICES ASSUME IInv, Next PROVE Lost
    OBVIOUS
  <2>1. CASE UNCHANGED orphans
    BY <2>1 DEF Lost
  <2>2. CASE OpenFile \/ Devinfo
    <3>1. heap \subseteq FreedByOpen
      BY <2>2 DEF OpenFile, Devinfo, FreedByOpen, IInv, HeapIsDue, NoneKept, Counters,
                  TypeOK, LoopInv, ScratchDue, ListDue, RangeinfoListDue, RangeinfoDue, Passed
    <3> QED
      BY <2>2, <3>1 DEF OpenFile, Devinfo, Lost
  <2>3. CASE OpenStep
    BY <2>1, <2>2, <2>3, FailLoses
       DEF OpenStep, CallocS, Subdinfo, CallocR, Used, Skip, Finish, CallocList, Chaninfo,
           CallocRangeinfoList, CallocKr, CallocRange, IoctlRange, RangesDone
  <2> QED
    BY <2>1, <2>3, CloseLoses DEF Next, Malloc, GetCmdSrcMask
<1> QED
  BY Invariance, <1>1, PTL DEF Spec, LossesAreKnown, Lost

HIDE DEF PCs, Subd, Kinds, ListKinds, Before, Body, Ranging,
        It, Fd, S, Subdevices, Kr, Own, Obj, List, RangeinfoList, Rangeinfo, CmdMask,
        NRanges, PerChannel, Gets, Goto, Ends, Fails

-----------------------------------------------------------------------------
(***************************************************************************)
(* CppBinding: objects that share structures.                              *)
(***************************************************************************)

\* What one C structure is.
Structure == [kind : {"device", "calibration"}, n : Nat, live : BOOLEAN]

CppTypes ==
  /\ structs \in Seq(Structure)
  /\ holds \in [O!Objects -> Nat] /\ \A x \in O!Objects : holds[x] <= Len(structs)
  /\ index \in [SubdObjects -> Int]
  /\ running.temp \in Nat /\ running.temp <= Len(structs)

\* An object shares a structure of its class.
ClassesHold ==
  \A x \in O!Objects : holds[x] # 0 => (structs[holds[x]].kind = "calibration" <=> x \in CalObjects)

\* A temporary calibration is the running method's alone.
TempAlone == running.temp # 0 => \A x \in O!Objects : holds[x] # running.temp

\* A running method has not been answered yet.
Unanswered == running # O!NoMethod => ~tried.called

CppInv ==
  /\ CppTypes /\ ClassesHold /\ TempAlone /\ Unanswered
  /\ O!LivesWhileShared /\ O!IndexInDevice

\* The structures when x has let go of its own.
LEMMA AfterRelease ==
  ASSUME CppInv, NEW x \in O!Objects
  PROVE  /\ O!Released(structs, x) \in Seq(Structure)
         /\ Len(O!Released(structs, x)) = Len(structs)
         /\ \A h \in 1 .. Len(structs) :
              /\ O!Released(structs, x)[h].kind = structs[h].kind
              /\ O!Released(structs, x)[h].n = structs[h].n
              /\ O!Released(structs, x)[h].live <=>
                   ((\E y \in O!Objects \ {x} : holds[y] = h) \/ running.temp = h)
<1> USE DEF CppInv, CppTypes, O!Released, O!HeldByOthers
<1>0. \A h \in 1 .. Len(structs) : structs[h] \in Structure
  OBVIOUS
<1>1. CASE holds[x] = 0 \/ O!HeldByOthers(holds[x], x)
  <2>1. O!Released(structs, x) = structs
    BY <1>1
  <2>2. ASSUME NEW h \in 1 .. Len(structs)
        PROVE  (\E y \in O!Objects : holds[y] = h) \/ running.temp = h <=>
               (\E y \in O!Objects \ {x} : holds[y] = h) \/ running.temp = h
    BY <1>1, <2>2
  <2> QED
    BY <2>1, <2>2 DEF O!LivesWhileShared
<1>2. CASE ~(holds[x] = 0 \/ O!HeldByOthers(holds[x], x))
  <2> DEFINE g == holds[x]  k == [structs[g] EXCEPT !.live = FALSE]  r == [structs EXCEPT ![g].live = FALSE]
  <2>1. O!Released(structs, x) = r /\ g \in 1 .. Len(structs)
    BY <1>2
  <2>2. k \in Structure /\ k.kind = structs[g].kind /\ k.n = structs[g].n /\ k.live = FALSE
    BY <1>0, <2>1 DEF Structure
  <2>3. r = [structs EXCEPT ![g] = k]
    OBVIOUS
  <2> HIDE DEF k, r
  <2>4. r \in Seq(Structure) /\ Len(r) = Len(structs)
    BY <2>1, <2>2, <2>3, ExceptSeq
  <2>5. ASSUME NEW h \in 1 .. Len(structs)
        PROVE  /\ r[h].kind = structs[h].kind /\ r[h].n = structs[h].n
               /\ r[h].live <=> ((\E y \in O!Objects \ {x} : holds[y] = h) \/ running.temp = h)
    <3>0. structs[h] \in Structure
      BY <1>0, <2>5
    <3>1. CASE h = g
      <4>1. r[h] = k
        BY <3>1, <2>1, <2>3, ExceptSeq
      <4> QED
        BY <3>1, <4>1, <2>2, <1>2 DEF O!HeldByOthers
    <3>2. CASE h # g
      <4>1. r[h] = structs[h]
        BY <3>2, <2>1, <2>3, <2>5
      <4>2. structs[h].live <=> ((\E y \in O!Objects : holds[y] = h) \/ running.temp = h)
        BY <2>5 DEF O!LivesWhileShared
      <4> QED
        BY <3>2, <4>1, <4>2
    <3> QED
      BY <3>1, <3>2
  <2> QED
    BY <2>1, <2>4, <2>5 DEF r, k
<1> QED
  BY <1>1, <1>2

\* A structure more.
LEMMA AfterNew ==
  ASSUME NEW s \in Seq(Structure), NEW e \in Structure
  PROVE  /\ Append(s, e) \in Seq(Structure) /\ Len(Append(s, e)) = Len(s) + 1
         /\ Append(s, e)[Len(s) + 1] = e
         /\ \A h \in 1 .. Len(s) : Append(s, e)[h] = s[h]
  BY AppendProperties

\* What an operation that gives x a structure h of its own has left.
Takes(x, h) == holds' = [holds EXCEPT ![x] = h] /\ UNCHANGED running

\* An object lets go of its structure and takes a new one.
LEMMA NewTaken ==
  ASSUME CppInv, O!CppParameters, NEW x \in O!Objects, x \notin SubdObjects, NEW kind \in {"device", "calibration"}, NEW n \in Nat,
         kind = "calibration" <=> x \in CalObjects,
         structs' = Append(O!Released(structs, x), O!New(kind, n)),
         Takes(x, Len(structs) + 1), UNCHANGED <<index>>, tried' = O!NotTried
  PROVE  CppInv'
<1> DEFINE r == O!Released(structs, x)  e == O!New(kind, n)  l == Len(structs)
<1>1. r \in Seq(Structure) /\ Len(r) = l
      /\ \A h \in 1 .. l : /\ r[h].kind = structs[h].kind /\ r[h].n = structs[h].n
                           /\ r[h].live <=> ((\E y \in O!Objects \ {x} : holds[y] = h) \/ running.temp = h)
  BY AfterRelease
<1>2. e \in Structure /\ e.kind = kind /\ e.live = TRUE
  BY DEF O!New, Structure
<1>3. structs' = Append(r, e) /\ l \in Nat
  BY DEF CppInv, CppTypes
<1> HIDE DEF r, e
<1>4. /\ structs' \in Seq(Structure) /\ Len(structs') = l + 1 /\ structs'[l + 1] = e
      /\ \A h \in 1 .. l : structs'[h] = r[h]
  BY <1>1, <1>2, <1>3, AfterNew
<1> HIDE DEF l
<1>5. l = Len(structs) /\ l \in Nat
  BY <1>3 DEF l
<1> USE DEF CppInv, CppTypes, Takes
<1>6. holds' \in [O!Objects -> Nat] /\ holds'[x] = l + 1 /\ \A y \in O!Objects : y # x => holds'[y] = holds[y] /\ holds[y] <= l
  BY <1>5
<1>7. CppTypes'
  BY <1>4, <1>5, <1>6
<1>8. ClassesHold'
  BY <1>1, <1>2, <1>4, <1>5, <1>6 DEF ClassesHold
<1>9. TempAlone' /\ Unanswered'
  BY <1>5, <1>6 DEF TempAlone, Unanswered, O!NotTried
<1>10. O!LivesWhileShared'
  <2> SUFFICES ASSUME NEW h \in 1 .. l + 1
               PROVE  structs'[h].live <=> ((\E y \in O!Objects : holds'[y] = h) \/ running.temp = h)
    BY <1>4 DEF O!LivesWhileShared
  <2>1. CASE h = l + 1
    BY <2>1, <1>2, <1>4, <1>5, <1>6
  <2>2. CASE h \in 1 .. l
    <3>1. (\E y \in O!Objects : holds'[y] = h) <=> (\E y \in O!Objects \ {x} : holds[y] = h)
      BY <1>5, <1>6, <2>2
    <3> QED
      BY <2>2, <3>1, <1>1, <1>4
  <2>3. h = l + 1 \/ h \in 1 .. l
    BY <1>5
  <2> QED
    BY <2>1, <2>2, <2>3, Zenon
<1>11. O!IndexInDevice'
  <2> SUFFICES ASSUME NEW s \in SubdObjects
               PROVE  IF holds'[s] = 0 THEN index[s] = -1 ELSE index[s] \in 0 .. structs'[holds'[s]].n - 1
    BY DEF O!IndexInDevice
  <2>1. s # x /\ s \in O!Objects /\ holds'[s] = holds[s] /\ holds[s] \in 0 .. l
    BY <1>5, <1>6 DEF O!Objects
  <2>2. holds[s] # 0 => structs'[holds[s]].n = structs[holds[s]].n
    BY <2>1, <1>1, <1>4, <1>5
  <2> QED
    BY <2>1, <2>2 DEF O!IndexInDevice
<1> QED
  BY <1>7, <1>8, <1>9, <1>10, <1>11

\* x comes to share the structure h of another object, or none.
LEMMA ShareTaken ==
  ASSUME CppInv, NEW x \in O!Objects, NEW h \in Nat,
         h # 0 => \E y \in O!Objects \ {x} : holds[y] = h /\ (x \in CalObjects <=> y \in CalObjects),
         structs' = O!Released(structs, x), Takes(x, h), tried' = O!NotTried,
         index' \in [SubdObjects -> Int], \A s \in SubdObjects : s # x => index'[s] = index[s],
         x \in SubdObjects => IF h = 0 THEN index'[x] = -1 ELSE index'[x] \in 0 .. structs[h].n - 1
  PROVE  CppInv'
<1> DEFINE l == Len(structs)
<1>1. /\ structs' \in Seq(Structure) /\ Len(structs') = l
      /\ \A g \in 1 .. l : /\ structs'[g].kind = structs[g].kind /\ structs'[g].n = structs[g].n
                           /\ structs'[g].live <=> ((\E y \in O!Objects \ {x} : holds[y] = g) \/ running.temp = g)
  BY AfterRelease
<1>2. l = Len(structs) /\ l \in Nat
  BY DEF CppInv, CppTypes
<1> HIDE DEF l
<1> USE DEF CppInv, CppTypes, Takes
<1>3. holds' \in [O!Objects -> Nat] /\ holds'[x] = h /\ \A y \in O!Objects : y # x => holds'[y] = holds[y] /\ holds[y] <= l
  BY <1>2
<1>4. h <= l
  BY <1>2
<1>5. CppTypes'
  BY <1>1, <1>2, <1>3, <1>4
<1>6. ClassesHold'
  BY <1>1, <1>2, <1>3, <1>4 DEF ClassesHold
<1>7. TempAlone' /\ Unanswered'
  BY <1>2, <1>3 DEF TempAlone, Unanswered, O!NotTried
<1>8. O!LivesWhileShared'
  <2> SUFFICES ASSUME NEW g \in 1 .. l
               PROVE  structs'[g].live <=> ((\E y \in O!Objects : holds'[y] = g) \/ running.temp = g)
    BY <1>1 DEF O!LivesWhileShared
  <2>1. (\E y \in O!Objects : holds'[y] = g) <=> (\E y \in O!Objects \ {x} : holds[y] = g)
    BY <1>2, <1>3
  <2> QED
    BY <2>1, <1>1
<1>9. O!IndexInDevice'
  <2> SUFFICES ASSUME NEW s \in SubdObjects
               PROVE  IF holds'[s] = 0 THEN index'[s] = -1 ELSE index'[s] \in 0 .. structs'[holds'[s]].n - 1
    BY DEF O!IndexInDevice
  <2>1. CASE s = x
    <3>1. h # 0 => structs'[h].n = structs[h].n
      BY <1>1, <1>2, <1>4
    <3> QED
      BY <2>1, <3>1, <1>3
  <2>2. CASE s # x
    <3>1. s \in O!Objects /\ holds'[s] = holds[s] /\ holds[s] \in 0 .. l
      BY <1>2, <1>3, <2>2 DEF O!Objects
    <3>2. holds[s] # 0 => structs'[holds[s]].n = structs[holds[s]].n
      BY <3>1, <1>1, <1>2
    <3> QED
      BY <2>2, <3>1, <3>2 DEF O!IndexInDevice
  <2> QED
    BY <2>1, <2>2
<1> QED
  BY <1>5, <1>6, <1>7, <1>8, <1>9

\* An operation that changes no object and no structure.
LEMMA NothingTaken ==
  CppInv /\ tried' = O!NotTried /\ UNCHANGED <<structs, holds, index, running>> => CppInv'
  BY DEF CppInv, CppTypes, ClassesHold, TempAlone, Unanswered, O!LivesWhileShared, O!IndexInDevice, O!NotTried

\* comedi_open succeeds, or throws.
LEMMA OpenStepInv == ASSUME CppInv, O!CppParameters, NEW d \in DevObjects, O!Open(d) PROVE CppInv'
<1>1. d \in O!Objects /\ d \notin SubdObjects /\ d \notin CalObjects
  BY DEF O!Objects, O!CppParameters
<1>2. CASE UNCHANGED <<structs, holds>>
  BY <1>2, NothingTaken DEF O!Open, O!Throws, O!Quiet
<1>3. ASSUME NEW n \in NSubds, structs' = Append(O!Released(structs, d), O!New("device", n)),
             holds' = [holds EXCEPT ![d] = Len(structs) + 1], O!Quiet
      PROVE  CppInv'
  <2>1. n \in Nat
    BY <1>3 DEF O!CppParameters
  <2>2. Takes(d, Len(structs) + 1) /\ UNCHANGED <<index>> /\ tried' = O!NotTried
    BY <1>3 DEF Takes, O!Open, O!Quiet
  <2> QED
    BY <1>1, <1>3, <2>1, <2>2, NewTaken
<1> QED
  BY <1>2, <1>3 DEF O!Open

\* A calibration file is parsed, or throws.
LEMMA ParseStepInv == ASSUME CppInv, O!CppParameters, NEW k \in CalObjects, O!Parse(k) PROVE CppInv'
<1>1. k \in O!Objects /\ k \notin SubdObjects
  BY DEF O!Objects, O!CppParameters
<1>2. CASE UNCHANGED <<structs, holds>>
  BY <1>2, NothingTaken DEF O!Parse, O!Throws, O!Quiet
<1>3. CASE structs' = Append(O!Released(structs, k), O!New("calibration", 0))
           /\ holds' = [holds EXCEPT ![k] = Len(structs) + 1] /\ O!Quiet
  <2>1. Takes(k, Len(structs) + 1) /\ UNCHANGED <<index>> /\ tried' = O!NotTried
    BY <1>3 DEF Takes, O!Parse, O!Quiet
  <2> QED
    BY <1>1, <1>3, <2>1, NewTaken
<1> QED
  BY <1>2, <1>3 DEF O!Parse

\* Sharing what one shares already gives nothing back.
LEMMA SharedAlready ==
  ASSUME NEW x \in O!Objects, NEW y \in O!Objects, x # y, holds[x] = holds[y]
  PROVE  O!Released(structs, x) = structs
  BY DEF O!Released, O!HeldByOthers

\* One object comes to share the structure of another.
LEMMA AssignStepInv ==
  ASSUME CppInv, O!CppParameters, NEW x \in O!Objects, NEW y \in O!Objects, O!Assign(x, y)
  PROVE  CppInv'
<1> USE DEF O!Assign
<1>1. (x \in CalObjects <=> y \in CalObjects) /\ (x \in SubdObjects <=> y \in SubdObjects) /\ x # y
  BY DEF O!SameClass, O!CppParameters
<1>2. holds[y] \in Nat
  BY DEF CppInv, CppTypes
<1>3. structs' = O!Released(structs, x)
  BY <1>1, SharedAlready
<1>4. Takes(x, holds[y]) /\ tried' = O!NotTried
  BY DEF Takes, O!Quiet
<1>5. /\ index' \in [SubdObjects -> Int] /\ \A s \in SubdObjects : s # x => index'[s] = index[s]
      /\ x \in SubdObjects => index'[x] = index[y]
  BY <1>1 DEF CppInv, CppTypes
<1>6. x \in SubdObjects => IF holds[y] = 0 THEN index'[x] = -1 ELSE index'[x] \in 0 .. structs[holds[y]].n - 1
  BY <1>1, <1>5 DEF CppInv, O!IndexInDevice
<1> QED
  BY <1>1, <1>2, <1>3, <1>4, <1>5, <1>6, ShareTaken

\* An object goes, and its structure with the last of them.
LEMMA DestroyStepInv == ASSUME CppInv, NEW x \in O!Objects, O!Destroy(x) PROVE CppInv'
<1> USE DEF O!Destroy
<1>1. Takes(x, 0) /\ tried' = O!NotTried /\ structs' = O!Released(structs, x)
  BY DEF Takes, O!Quiet
<1>2. /\ index' \in [SubdObjects -> Int] /\ \A s \in SubdObjects : s # x => index'[s] = index[s]
      /\ x \in SubdObjects => index'[x] = -1
  BY DEF CppInv, CppTypes
<1> QED
  BY <1>1, <1>2, ShareTaken

\* A subdevice shares its device's structure, if the index is in it.
LEMMA SubdeviceOfInv ==
  ASSUME CppInv, O!CppParameters, NEW s \in SubdObjects, NEW d \in DevObjects, NEW i \in Nat, O!SubdeviceOf(s, d, i)
  PROVE  CppInv'
<1> USE DEF O!SubdeviceOf
<1>1. s \in O!Objects /\ d \in O!Objects /\ s # d /\ s \notin CalObjects /\ d \notin CalObjects
  BY DEF O!Objects, O!CppParameters
<1>2. CASE holds[d] = 0 \/ i >= structs[holds[d]].n
  BY <1>2, NothingTaken DEF O!Throws
<1>3. CASE ~(holds[d] = 0 \/ i >= structs[holds[d]].n)
  <2>1. holds[d] \in Nat /\ holds[d] # 0 /\ holds[d] <= Len(structs)
    BY <1>1, <1>3 DEF CppInv, CppTypes
  <2>2. structs[holds[d]].n \in Nat
    <3>1. holds[d] \in 1 .. Len(structs) /\ structs \in Seq(Structure)
      BY <2>1 DEF CppInv, CppTypes
    <3>2. structs[holds[d]] \in Structure
      BY <3>1
    <3> QED
      BY <3>2 DEF Structure
  <2>3. structs' = O!Released(structs, s) /\ Takes(s, holds[d]) /\ tried' = O!NotTried
    BY <1>1, <1>3, SharedAlready DEF Takes, O!Quiet
  <2>4. index' \in [SubdObjects -> Int] /\ (\A t \in SubdObjects : t # s => index'[t] = index[t]) /\ index'[s] = i
    BY <1>3 DEF CppInv, CppTypes
  <2>5. index'[s] \in 0 .. structs[holds[d]].n - 1
    BY <1>3, <2>2, <2>4
  <2> QED
    BY <1>1, <2>1, <2>3, <2>4, <2>5, ShareTaken
<1> QED
  BY <1>2, <1>3

\* Subdevices that are named, and those that are searched for.
LEMMA SubdeviceStepInv ==
  ASSUME CppInv, O!CppParameters, NEW s \in SubdObjects, NEW d \in DevObjects,
         O!MakeSubdevice(s, d) \/ O!FindSubdevice(s, d)
  PROVE  CppInv'
<1>1. CASE O!MakeSubdevice(s, d)
  <2>1. PICK n \in NSubds : \E i \in 0 .. n : O!SubdeviceOf(s, d, i)
    BY <1>1 DEF O!MakeSubdevice
  <2>2. PICK i \in 0 .. n : O!SubdeviceOf(s, d, i)
    BY <2>1
  <2>3. i \in Nat
    BY <2>2 DEF O!CppParameters
  <2> QED
    BY <2>2, <2>3, SubdeviceOfInv
<1>2. CASE O!FindSubdevice(s, d)
  <2>1. CASE UNCHANGED <<structs, holds, index, running>> /\ tried' = O!NotTried
    BY <2>1, NothingTaken
  <2>2. ASSUME holds[d] # 0, NEW start \in {0} \union {index[t] + 1 : t \in SubdObjects},
               NEW i \in start .. structs[holds[d]].n - 1, O!SubdeviceOf(s, d, i)
        PROVE  CppInv'
    <3>1. d \in O!Objects /\ holds[d] \in 1 .. Len(structs) /\ structs \in Seq(Structure)
      BY <2>2 DEF O!Objects, CppInv, CppTypes
    <3>2. structs[holds[d]] \in Structure
      BY <3>1
    <3>3. structs[holds[d]].n \in Nat
      BY <3>2 DEF Structure
    <3>4. start \in Nat
      <4>1. ASSUME NEW t \in SubdObjects PROVE index[t] + 1 \in Nat
        <5>1. t \in O!Objects /\ index[t] \in Int
          BY DEF O!Objects, CppInv, CppTypes
        <5>2. index[t] >= -1
          <6>1. CASE holds[t] = 0
            BY <6>1 DEF CppInv, O!IndexInDevice
          <6>2. CASE holds[t] # 0
            <7>1. holds[t] \in 1 .. Len(structs)
              BY <5>1, <6>2 DEF CppInv, CppTypes
            <7>2. structs[holds[t]] \in Structure
              BY <3>1, <7>1
            <7>3. structs[holds[t]].n \in Nat
              BY <7>2 DEF Structure
            <7>4. index[t] \in 0 .. structs[holds[t]].n - 1
              BY <6>2 DEF CppInv, O!IndexInDevice
            <7> QED
              BY <7>3, <7>4
          <6> QED
            BY <6>1, <6>2
        <5> QED
          BY <5>1, <5>2
      <4> QED
        BY <4>1, <2>2
    <3>5. i \in Nat
      BY <3>3, <3>4, <2>2
    <3> QED
      BY <2>2, <3>5, SubdeviceOfInv
  <2> QED
    BY <1>2, <2>1, <2>2 DEF O!FindSubdevice, O!Throws
<1> QED
  BY <1>1, <1>2

\* A method begins with the structure of its object.
LEMMA BeginStepInv == ASSUME CppInv, NEW x \in O!Objects, O!Begin(x) PROVE CppInv'
<1>1. PICK m \in O!Methods(x), k \in CalObjects \union {"none"} : O!BeginOn(x, m, k)
  BY DEF O!Begin
<1> USE <1>1 DEF O!BeginOn
<1>2. CASE UNCHANGED running
  BY <1>2, NothingTaken DEF O!Throws, O!Quiet
<1>3. CASE running'.obj = x /\ running'.m = m /\ running'.temp = 0 /\ tried' = O!NotTried
  <2>1. UNCHANGED <<structs, holds, index>> /\ running.temp = 0
    BY DEF O!NoMethod
  <2> QED
    BY <1>3, <2>1
       DEF CppInv, CppTypes, ClassesHold, TempAlone, Unanswered, O!LivesWhileShared, O!IndexInDevice, O!NotTried
<1>4. \/ UNCHANGED running
      \/ running'.obj = x /\ running'.m = m /\ running'.temp = 0 /\ tried' = O!NotTried
  BY DEF O!Quiet
<1> QED
  BY <1>2, <1>3, <1>4

\* A method begins with a calibration of its own.
LEMMA BeginWithDefaultStepInv ==
  ASSUME CppInv, O!CppParameters, NEW s \in SubdObjects, O!BeginWithDefault(s)
  PROVE  CppInv'
<1> USE DEF O!BeginWithDefault
<1>1. CASE UNCHANGED <<structs, running>>
  BY <1>1, NothingTaken DEF O!Throws, O!Quiet
<1>2. CASE /\ structs' = Append(structs, O!New("calibration", 0))
           /\ running'.obj = s /\ running'.m = "apply_hard_calibration" /\ running'.temp = Len(structs) + 1
           /\ tried' = O!NotTried
  <2> DEFINE l == Len(structs)  e == O!New("calibration", 0)
  <2>1. e \in Structure /\ e.live = TRUE
    BY DEF O!New, Structure
  <2>2. structs \in Seq(Structure) /\ l = Len(structs) /\ l \in Nat
    BY DEF CppInv, CppTypes
  <2>3. structs' = Append(structs, e)
    BY <1>2
  <2> HIDE DEF e
  <2>4. structs' \in Seq(Structure) /\ Len(structs') = l + 1 /\ structs'[l + 1] = e
        /\ \A h \in 1 .. l : structs'[h] = structs[h]
    BY <2>1, <2>2, <2>3, AfterNew
  <2> HIDE DEF l
  <2>5. UNCHANGED <<holds, index>> /\ \A x \in O!Objects : holds[x] \in Nat /\ holds[x] <= l
    BY <2>2 DEF CppInv, CppTypes
  <2>6. running.temp = 0
    BY DEF O!NoMethod
  <2>7. CppTypes' /\ ClassesHold'
    BY <1>2, <2>2, <2>4, <2>5 DEF CppInv, CppTypes, ClassesHold
  <2>8. TempAlone'
    BY <1>2, <2>2, <2>5 DEF TempAlone
  <2>9. Unanswered'
    BY <1>2 DEF Unanswered, O!NotTried
  <2>10. O!LivesWhileShared'
    <3> SUFFICES ASSUME NEW h \in 1 .. l + 1
                 PROVE  structs'[h].live <=> ((\E x \in O!Objects : holds[x] = h) \/ running'.temp = h)
      BY <2>4, <2>5 DEF O!LivesWhileShared
    <3>1. CASE h = l + 1
      BY <3>1, <1>2, <2>1, <2>2, <2>4
    <3>2. CASE h \in 1 .. l
      <4>1. structs[h].live <=> (\E x \in O!Objects : holds[x] = h) \/ running.temp = h
        BY <3>2, <2>2 DEF CppInv, O!LivesWhileShared
      <4> QED
        BY <3>2, <4>1, <1>2, <2>2, <2>4, <2>6
    <3>3. h = l + 1 \/ h \in 1 .. l
      BY <2>2
    <3> QED
      BY <3>1, <3>2, <3>3, Zenon
  <2>11. O!IndexInDevice'
    BY <2>2, <2>4, <2>5 DEF CppInv, O!IndexInDevice, O!Objects
  <2> QED
    BY <2>7, <2>8, <2>9, <2>10, <2>11 DEF CppInv
<1> QED
  BY <1>1, <1>2 DEF O!Quiet

\* It ends, and the temporary goes with it.
LEMMA EndStepInv == ASSUME CppInv, O!End PROVE CppInv'
<1> DEFINE g == running.temp  l == Len(structs)  k == [structs[g] EXCEPT !.live = FALSE]
<1>1. /\ structs \in Seq(Structure) /\ g \in Nat /\ g <= l /\ l = Len(structs) /\ l \in Nat
      /\ \A h \in 1 .. l : structs[h] \in Structure
  BY DEF CppInv, CppTypes
<1>2. running' = O!NoMethod /\ running'.temp = 0 /\ UNCHANGED <<holds, index>>
  BY DEF O!End, O!NoMethod
<1>3. /\ structs' \in Seq(Structure) /\ Len(structs') = l
      /\ \A h \in 1 .. l : /\ structs'[h].kind = structs[h].kind /\ structs'[h].n = structs[h].n
                           /\ structs'[h].live <=> structs[h].live /\ h # g
  <2>1. CASE g = 0
    BY <1>1, <2>1 DEF O!End
  <2>2. CASE g # 0
    <3>1. g \in 1 .. l
      BY <1>1, <2>2
    <3>2. k \in Structure /\ k.kind = structs[g].kind /\ k.n = structs[g].n /\ k.live = FALSE
      BY <1>1, <3>1 DEF Structure
    <3>3. structs' = [structs EXCEPT ![g] = k]
      BY <2>2 DEF O!End
    <3> HIDE DEF k
    <3>4. structs' \in Seq(Structure) /\ Len(structs') = l /\ \A h \in 1 .. l : structs'[h] = IF h = g THEN k ELSE structs[h]
      BY <1>1, <3>1, <3>2, <3>3, ExceptSeq
    <3>5. ASSUME NEW h \in 1 .. l
          PROVE  /\ structs'[h].kind = structs[h].kind /\ structs'[h].n = structs[h].n
                 /\ structs'[h].live <=> structs[h].live /\ h # g
      <4>1. CASE h = g
        BY <3>2, <3>4, <4>1
      <4>2. CASE h # g
        BY <3>4, <4>2
      <4> QED
        BY <4>1, <4>2
    <3> QED
      BY <3>4, <3>5
  <2> QED
    BY <2>1, <2>2
<1> HIDE DEF l, g
<1>4. CppTypes'
  BY <1>1, <1>2, <1>3 DEF CppInv, CppTypes
<1>4a. ClassesHold'
  <2> SUFFICES ASSUME NEW x \in O!Objects, holds[x] # 0
               PROVE  structs'[holds[x]].kind = structs[holds[x]].kind
    BY <1>2 DEF CppInv, ClassesHold
  <2>1. holds[x] \in 1 .. l
    BY <1>1 DEF CppInv, CppTypes
  <2> QED
    BY <2>1, <1>3
<1>5. TempAlone' /\ Unanswered'
  BY <1>2 DEF TempAlone, Unanswered
<1>6. O!LivesWhileShared'
  <2> SUFFICES ASSUME NEW h \in 1 .. l
               PROVE  structs'[h].live <=> (\E x \in O!Objects : holds[x] = h)
    BY <1>1, <1>2, <1>3 DEF O!LivesWhileShared
  <2>1. structs[h].live <=> (\E x \in O!Objects : holds[x] = h) \/ g = h
    BY <1>1 DEF CppInv, O!LivesWhileShared, g
  <2>2. (\E x \in O!Objects : holds[x] = h) => h # g
    BY <1>1 DEF CppInv, TempAlone, g
  <2> QED
    BY <2>1, <2>2, <1>3
<1>7. O!IndexInDevice'
  BY <1>1, <1>2, <1>3 DEF CppInv, CppTypes, O!IndexInDevice, O!Objects
<1> QED
  BY <1>4, <1>4a, <1>5, <1>6, <1>7 DEF CppInv

\* A method that is answered throws when that was a failure, and only then.
LEMMA EndThrows == O!End => O!ThrowsWhenFailedStep
<1> SUFFICES ASSUME O!End, running.m # "do_insnlist"
             PROVE  thrown' = "runtime_error" <=> tried'.failed
  BY DEF O!ThrowsWhenFailedStep
<1>1. PICK answer \in {O!Failure(running.m)} \union O!Successes(running.m) :
        /\ tried' = [called |-> TRUE, failed |-> answer = O!Failure(running.m)]
        /\ thrown' = (IF O!ThrowsOn(running.m, answer) THEN "runtime_error" ELSE "nothing")
  BY DEF O!End
<1>2. O!ThrowsOn(running.m, answer) <=> answer = O!Failure(running.m)
  BY <1>1 DEF O!ThrowsOn, O!Failure, O!Successes, O!Pointers, O!TestForNull, O!TestForZero, O!TestNothing
<1>3. tried'.failed <=> answer = O!Failure(running.m)
  BY <1>1
<1> QED
  BY <1>1, <1>2, <1>3

\* What throws has changed no object, and no structure an object shares.
LEMMA ThrowChangesNothing == CppInv /\ O!CppNext => O!ThrowChangesNothingStep
<1> SUFFICES ASSUME CppInv, O!CppNext, thrown' # "nothing"
             PROVE  /\ UNCHANGED <<holds, index>>
                    /\ \A x \in O!Objects : holds[x] # 0 => structs'[holds[x]] = structs[holds[x]]
  BY DEF O!ThrowChangesNothingStep
<1> USE DEF O!Quiet
<1>1. CASE UNCHANGED <<structs, holds, index>>
  BY <1>1
<1>2. CASE O!End
  <2>1. running.temp # 0 => structs' = [structs EXCEPT ![running.temp].live = FALSE]
    BY <1>2 DEF O!End
  <2>2. running.temp = 0 => structs' = structs
    BY <1>2 DEF O!End
  <2>3. \A x \in O!Objects : holds[x] # 0 => structs'[holds[x]] = structs[holds[x]]
    <3>1. CASE running.temp = 0
      BY <2>2, <3>1
    <3>2. CASE running.temp # 0
      <4> SUFFICES ASSUME NEW x \in O!Objects, holds[x] # 0
                   PROVE  structs'[holds[x]] = structs[holds[x]]
        OBVIOUS
      <4>1. holds[x] # running.temp /\ holds[x] \in 1 .. Len(structs) /\ structs \in Seq(Structure)
        BY <3>2 DEF CppInv, CppTypes, TempAlone
      <4> QED
        BY <2>1, <3>2, <4>1
    <3> QED
      BY <3>1, <3>2
  <2> QED
    BY <1>2, <2>3 DEF O!End
<1>3. O!End \/ UNCHANGED <<structs, holds, index>>
  <2>1. ASSUME NEW d \in DevObjects, O!Open(d) PROVE UNCHANGED <<structs, holds, index>>
    BY <2>1 DEF O!Open
  <2>2. ASSUME NEW k \in CalObjects, O!Parse(k) PROVE UNCHANGED <<structs, holds, index>>
    BY <2>2 DEF O!Parse
  <2>3. ASSUME NEW x \in O!Objects, NEW y \in O!Objects, O!Assign(x, y) PROVE FALSE
    BY <2>3 DEF O!Assign
  <2>4. ASSUME NEW s \in SubdObjects, NEW d \in DevObjects, O!MakeSubdevice(s, d) \/ O!FindSubdevice(s, d)
        PROVE  UNCHANGED <<structs, holds, index>>
    BY <2>4 DEF O!MakeSubdevice, O!FindSubdevice, O!SubdeviceOf
  <2>5. ASSUME NEW x \in O!Objects, O!Destroy(x) PROVE FALSE
    BY <2>5 DEF O!Destroy
  <2>6. ASSUME NEW x \in O!Objects, O!Begin(x) PROVE UNCHANGED <<structs, holds, index>>
    BY <2>6 DEF O!Begin, O!BeginOn
  <2>7. ASSUME NEW s \in SubdObjects, O!BeginWithDefault(s) PROVE UNCHANGED <<structs, holds, index>>
    BY <2>7 DEF O!BeginWithDefault
  <2> QED
    BY <2>1, <2>2, <2>3, <2>4, <2>5, <2>6, <2>7 DEF O!CppNext
<1> QED
  BY <1>1, <1>2, <1>3

\* No object has a structure to begin with.
LEMMA CppInitInv == O!CppInit => CppInv
<1> SUFFICES ASSUME O!CppInit PROVE CppInv
  OBVIOUS
<1>1. structs \in Seq(Structure) /\ Len(structs) = 0
  BY EmptySeq DEF O!CppInit
<1> QED
  BY <1>1 DEF O!CppInit, CppInv, CppTypes, ClassesHold, TempAlone, Unanswered, O!LivesWhileShared,
              O!IndexInDevice, O!NoMethod, O!Objects

\* Every operation keeps what holds of objects and structures.
LEMMA CppStepInv == CppInv /\ O!CppNext => CppInv'
<1> SUFFICES ASSUME CppInv, O!CppNext PROVE CppInv'
  OBVIOUS
<1> QED
  BY CppAssumption, OpenStepInv, ParseStepInv, AssignStepInv, SubdeviceStepInv, DestroyStepInv,
     BeginStepInv, BeginWithDefaultStepInv, EndStepInv DEF O!CppNext

\* What is about other components leaves it alone.
LEMMA CppRests == CppInv /\ UNCHANGED cppOnly => CppInv'
  BY DEF cppOnly, CppInv, CppTypes, ClassesHold, TempAlone, Unanswered, O!LivesWhileShared, O!IndexInDevice

\* A step of the composition is one of the objects', or leaves them alone.
LEMMA CppOrRest == [HandleNext]_allVars => O!CppNext \/ UNCHANGED cppOnly
  BY DEF HandleNext, UsesC, UsesCpp, Surveys, Configures, TestsSizes, allVars, cppOnly

\* So it holds throughout.
LEMMA CppInvariance == HandleSpec => []CppInv
<1>1. HandleInit => CppInv
  BY CppInitInv DEF HandleInit
<1>2. CppInv /\ [HandleNext]_allVars => CppInv'
  BY CppStepInv, CppRests, CppOrRest
<1>3. HandleSpec => HandleInit /\ [][HandleNext]_allVars
  BY PTL DEF HandleSpec
<1> QED
  BY <1>1, <1>2, <1>3, PTL

\* Whatever objects a program has, and however they are opened, assigned,
\* searched and destroyed while methods run and throw: a structure lives just
\* as long as it is shared, and a subdevice is one of its device.
THEOREM StructuresShared == HandleSpec => []ObjectsValid
<1>1. CppInv => ObjectsValid
  BY DEF CppInv, ObjectsValid
<1> QED
  BY CppInvariance, <1>1, PTL

\* Of all methods, only do_insnlist throws when its call succeeded, none fails
\* to throw when its call failed, and what throws has changed nothing.
THEOREM ThrowsInVain == HandleSpec => ThrowsAlone
<1> DEFINE Alone == O!ThrowsWhenFailedStep /\ O!ThrowChangesNothingStep
<1>1. CppInv /\ [HandleNext]_allVars => [Alone]_allVars
  <2> SUFFICES ASSUME CppInv, [HandleNext]_allVars PROVE Alone
    OBVIOUS
  <2>1. CASE UNCHANGED cppOnly
    BY <2>1 DEF cppOnly, CppInv, Unanswered, O!ThrowsWhenFailedStep, O!ThrowChangesNothingStep
  <2>2. CASE O!CppNext
    <3>1. ~O!End => ~tried'.called
      BY <2>2 DEF O!CppNext, O!Open, O!Parse, O!Assign, O!MakeSubdevice, O!FindSubdevice, O!SubdeviceOf,
         O!Destroy, O!Begin, O!BeginOn, O!BeginWithDefault, O!Quiet, O!Throws, O!NotTried
    <3>2. O!ThrowsWhenFailedStep
      BY <3>1, EndThrows DEF O!ThrowsWhenFailedStep
    <3> QED
      BY <2>2, <3>2, ThrowChangesNothing
  <2> QED
    BY <2>1, <2>2, CppOrRest
<1>2. HandleSpec => [][HandleNext]_allVars
  BY PTL DEF HandleSpec
<1> HIDE DEF Alone
<1>3. HandleSpec => [][Alone]_allVars
  BY CppInvariance, <1>1, <1>2, PTL
<1> QED
  BY <1>3 DEF ThrowsAlone, Alone

-----------------------------------------------------------------------------
(***************************************************************************)
(* DeviceSurvey: what the getters tell.                                    *)
(***************************************************************************)

\* What an element of the handle can be.
Element == {Q!Unused(d) : d \in Described} \union {Q!Filled(p[1], p[2], p[3]) : p \in Described \X BOOLEAN \X BOOLEAN}

\* The types, and what the filler has left of the subdevices it has passed.
SurveyTypes ==
  /\ kernel \in Kernels /\ driver \in [Q!Subdevs -> Described]
  /\ subdevices \in Seq(Element) /\ Len(subdevices) <= NDescribed
  /\ where \in {"fill", "subdevice", "maxdata", "ranges", "done"}
  /\ subdev \in 0 .. NDescribed /\ channel \in Nat /\ rangeno \in Nat
  /\ lines \in [Q!Subdevs -> [maxima : Seq(Nat), ranges : Seq(Nat \X (Nat \X Nat))]]

\* What the handle keeps of a subdevice.
Kept(it, d) ==
  /\ it.type = d.type
  /\ it.has_cmd => d.cmd
  /\ it.has_insn_bits => d.bits
  /\ d.type # "unused" =>
       /\ it.n_chan = d.n_chan /\ it.subd_flags = d.subd_flags /\ it.lists = d.subd_flags
       /\ it.maxdata = d.maxdata /\ it.range_type = d.range_type
       /\ it.maxdata_list = d.maxdata_list /\ it.range_type_list = d.range_type_list

Handle ==
  /\ where # "fill" => Len(subdevices) = NDescribed
  /\ \A s \in 0 .. Len(subdevices) - 1 : Kept(Q!It(s), driver[s])

\* The entries of the tables that come before a channel's range.
Upto(d, c, r) == {e \in Q!Tables(d) : e[1] < c \/ (e[1] = c /\ e[2][2] < r)}
Once(q) == \A i, j \in DOMAIN q : q[i] = q[j] => i = j

Many(d) == IF "SDF_MAXDATA" \in d.subd_flags THEN d.n_chan ELSE 1
Maxima(d, n) == [i \in 1 .. n |-> Q!Maximum(d, i - 1)]
MaximaTold(d, told) == Q!Own(d, "SDF_MAXDATA") # {} => told.maxima = Maxima(d, Many(d))

\* What has been told of the subdevices behind the loop, of the one it is at,
\* and of those in front of it.
Complete(d, told) ==
  IF d.type = "unused" THEN told = Q!Nothing
  ELSE MaximaTold(d, told) /\ Q!Entries(told.ranges) = Q!Tables(d) /\ Once(told.ranges)

AtChannel(d) == IF "SDF_RANGETYPE" \in d.subd_flags /\ d.n_chan > 0 THEN channel < d.n_chan ELSE channel = 0

AtSubdevice(d, told) ==
  /\ where \in {"maxdata", "ranges"} => d.type # "unused"
  /\ where = "maxdata" =>
       /\ told.ranges = << >> /\ channel <= Many(d) /\ told.maxima = Maxima(d, channel)
       /\ "SDF_MAXDATA" \notin d.subd_flags => channel = 0
  /\ where = "ranges" =>
       /\ MaximaTold(d, told) /\ AtChannel(d)
       /\ Q!Entries(told.ranges) = Upto(d, channel, rangeno) /\ Once(told.ranges)

LinesTold ==
  /\ where = "done" => subdev = NDescribed
  /\ where \in {"maxdata", "ranges"} => subdev < NDescribed
  /\ \A s \in Q!Subdevs :
       /\ s < subdev => Complete(driver[s], lines[s])
       /\ s > subdev \/ (s = subdev /\ where \notin {"maxdata", "ranges"}) => lines[s] = Q!Nothing
       /\ s = subdev => AtSubdevice(driver[s], lines[s])

SurveyInv == SurveyTypes /\ Handle /\ LinesTold

\* What a table of the driver has.
LEMMA TablesHave ==
  ASSUME NEW d, NEW e
  PROVE  e \in Q!Tables(d) <=>
           \E c \in Q!Own(d, "SDF_RANGETYPE") : \E r \in 0 .. Q!RANGE_LENGTH(Q!Type(d, c)) - 1 :
              e = <<c, <<Q!Type(d, c), r>>>>
  BY DEF Q!Tables

\* The fields of a described subdevice have their types.
LEMMA DriverTypes ==
  ASSUME NEW d \in Described
  PROVE  /\ d.n_chan \in Nat /\ d.maxdata \in Nat /\ d.range_type \in Nat
         /\ d.maxdata_list \in [1 .. d.n_chan -> Nat] /\ d.range_type_list \in [1 .. d.n_chan -> Nat]
         /\ d.cmd \in BOOLEAN /\ d.bits \in BOOLEAN
         /\ d.insn_bits_support = "supported" => d.bits
  BY SurveyAssumption DEF Q!SurveyParameters

\* And so have those of its channels.
LEMMA RangeTypes ==
  ASSUME NEW d \in Described, NEW c \in 0 .. d.n_chan - 1
  PROVE  /\ Q!Maximum(d, c) \in Nat /\ Q!Type(d, c) \in Nat
         /\ Q!RANGE_LENGTH(Q!Type(d, c)) \in Nat
<1>1. d.n_chan \in Nat /\ c + 1 \in 1 .. d.n_chan
  BY DriverTypes
<1>2. Q!Maximum(d, c) \in Nat /\ Q!Type(d, c) \in Nat
  BY <1>1, DriverTypes DEF Q!Maximum, Q!Type
<1>3. \A u \in Nat : u % 16 \in Nat
  OBVIOUS
<1> QED
  BY <1>2, <1>3 DEF Q!RANGE_LENGTH

\* The channels told separately: all of them, or the first for all.
LEMMA OwnChannels ==
  ASSUME NEW d \in Described, NEW flag, NEW c \in Q!Own(d, flag)
  PROVE  c \in 0 .. d.n_chan - 1 /\ (flag \notin d.subd_flags => c = 0)
  BY DriverTypes DEF Q!Own

\* An entry at a sequence's end.
LEMMA AppendEntries ==
  ASSUME NEW U, NEW q \in Seq(U), NEW e \in U
  PROVE  /\ Q!Entries(Append(q, e)) = Q!Entries(q) \union {e}
         /\ Once(q) /\ e \notin Q!Entries(q) => Once(Append(q, e))
<1>1. /\ DOMAIN q = 1 .. Len(q) /\ Len(q) \in Nat /\ DOMAIN Append(q, e) = 1 .. Len(q) + 1
      /\ Append(q, e)[Len(q) + 1] = e /\ \A i \in 1 .. Len(q) : Append(q, e)[i] = q[i]
  BY AppendProperties
<1> QED
  BY <1>1 DEF Q!Entries, Once

\* How the first part of the tables grows.
LEMMA UptoNone == ASSUME NEW d \in Described PROVE Upto(d, 0, 0) = {}
<1> SUFFICES ASSUME NEW e \in Upto(d, 0, 0) PROVE FALSE
  OBVIOUS
<1>1. PICK c \in Q!Own(d, "SDF_RANGETYPE") : \E r \in 0 .. Q!RANGE_LENGTH(Q!Type(d, c)) - 1 :
        e = <<c, <<Q!Type(d, c), r>>>>
  BY TablesHave DEF Upto
<1>2. c \in 0 .. d.n_chan - 1 /\ d.n_chan \in Nat /\ Q!RANGE_LENGTH(Q!Type(d, c)) \in Nat
  BY OwnChannels, DriverTypes, RangeTypes
<1> QED
  BY <1>1, <1>2 DEF Upto

\* One more range of a channel is one more line.
LEMMA UptoNext ==
  ASSUME NEW d \in Described, NEW c \in Q!Own(d, "SDF_RANGETYPE"), NEW r \in Nat, r < Q!RANGE_LENGTH(Q!Type(d, c))
  PROVE  /\ Upto(d, c, r + 1) = Upto(d, c, r) \union {<<c, <<Q!Type(d, c), r>>>>}
         /\ <<c, <<Q!Type(d, c), r>>>> \notin Upto(d, c, r)
<1>1. c \in Nat /\ d.n_chan \in Nat
  BY OwnChannels, DriverTypes
<1>2. Q!RANGE_LENGTH(Q!Type(d, c)) \in Nat
  BY OwnChannels, RangeTypes
<1>3. <<c, <<Q!Type(d, c), r>>>> \in Q!Tables(d)
  BY <1>2, TablesHave
<1>4. ASSUME NEW e \in Q!Tables(d)
      PROVE  /\ e[1] \in Nat /\ e[2][2] \in Nat
             /\ e[1] = c /\ e[2][2] = r => e = <<c, <<Q!Type(d, c), r>>>>
  <2>1. PICK b \in Q!Own(d, "SDF_RANGETYPE") : \E a \in 0 .. Q!RANGE_LENGTH(Q!Type(d, b)) - 1 :
          e = <<b, <<Q!Type(d, b), a>>>>
    BY <1>4, TablesHave
  <2>2. b \in Nat
    BY OwnChannels, DriverTypes
  <2> QED
    BY <2>1, <2>2
<1> QED
  BY <1>1, <1>2, <1>3, <1>4 DEF Upto

\* The next channel begins with the lines of those before.
LEMMA UptoNextChannel ==
  ASSUME NEW d \in Described, NEW c \in Nat, NEW r \in Nat,
         c \in Q!Own(d, "SDF_RANGETYPE") => r >= Q!RANGE_LENGTH(Q!Type(d, c))
  PROVE  Upto(d, c + 1, 0) = Upto(d, c, r)
<1>1. ASSUME NEW e \in Q!Tables(d)
      PROVE  e[1] < c + 1 \/ (e[1] = c + 1 /\ e[2][2] < 0) <=> e[1] < c \/ (e[1] = c /\ e[2][2] < r)
  <2>1. PICK b \in Q!Own(d, "SDF_RANGETYPE") : \E a \in 0 .. Q!RANGE_LENGTH(Q!Type(d, b)) - 1 :
          e = <<b, <<Q!Type(d, b), a>>>>
    BY <1>1, TablesHave
  <2>2. PICK a \in 0 .. Q!RANGE_LENGTH(Q!Type(d, b)) - 1 : e = <<b, <<Q!Type(d, b), a>>>>
    BY <2>1
  <2>3. b \in 0 .. d.n_chan - 1 /\ d.n_chan \in Nat
    BY OwnChannels, DriverTypes
  <2>4. Q!RANGE_LENGTH(Q!Type(d, b)) \in Nat
    BY <2>3, RangeTypes
  <2>5. b = c => a < r
    BY <2>4
  <2> QED
    BY <2>2, <2>3, <2>4, <2>5
<1> QED
  BY <1>1 DEF Upto

\* After the last channel all the lines are there.
LEMMA UptoAll ==
  ASSUME NEW d \in Described, NEW c \in Nat, NEW r \in Nat,
         \A b \in Q!Own(d, "SDF_RANGETYPE") : b <= c,
         c \in Q!Own(d, "SDF_RANGETYPE") => r >= Q!RANGE_LENGTH(Q!Type(d, c))
  PROVE  Upto(d, c, r) = Q!Tables(d)
<1>1. ASSUME NEW e \in Q!Tables(d)
      PROVE  e[1] < c + 1
  <2>1. PICK b \in Q!Own(d, "SDF_RANGETYPE") : \E a \in 0 .. Q!RANGE_LENGTH(Q!Type(d, b)) - 1 :
          e = <<b, <<Q!Type(d, b), a>>>>
    BY <1>1, TablesHave
  <2>2. b \in 0 .. d.n_chan - 1 /\ d.n_chan \in Nat /\ e[1] = b
    BY <2>1, OwnChannels, DriverTypes
  <2> QED
    BY <2>2
<1>2. Upto(d, c + 1, 0) = Q!Tables(d)
  BY <1>1 DEF Upto
<1> QED
  BY <1>2, UptoNextChannel

\* The getters answer for a subdevice in use what its driver described.
LEMMA GettersTell ==
  ASSUME SurveyInv, where \in {"maxdata", "ranges"}
  PROVE  LET d == driver[subdev]
         IN  /\ subdev \in Q!Subdevs /\ d \in Described /\ d.type # "unused"
             /\ Q!maxdata_is_chan_specific(subdev) <=> "SDF_MAXDATA" \in d.subd_flags
             /\ Q!range_is_chan_specific(subdev) <=> "SDF_RANGETYPE" \in d.subd_flags
             /\ Q!get_n_channels(subdev) = d.n_chan
             /\ \A c \in 0 .. d.n_chan - 1 :
                  /\ Q!get_maxdata(subdev, c) = Q!Maximum(d, c)
                  /\ Q!get_n_ranges(subdev, c) = Q!RANGE_LENGTH(Q!Type(d, c))
                  /\ \A r \in Nat : r < Q!RANGE_LENGTH(Q!Type(d, c)) =>
                       Q!get_range(subdev, c, r) = <<Q!Type(d, c), r>>
             /\ \A c \in Nat : c >= d.n_chan => Q!get_n_ranges(subdev, c) = -1
             /\ d.n_chan = 0 => Q!get_maxdata(subdev, 0) = 0
<1> DEFINE d == driver[subdev]  it == Q!It(subdev)
<1>1. subdev \in Q!Subdevs /\ NDescribed \in Nat /\ d \in Described /\ Len(subdevices) = NDescribed
  BY SurveyAssumption DEF SurveyInv, SurveyTypes, Handle, LinesTold, Q!Subdevs, Q!SurveyParameters
<1>2. d.type # "unused"
  BY <1>1 DEF SurveyInv, LinesTold, AtSubdevice
<1>3. Kept(it, d)
  BY <1>1 DEF SurveyInv, Handle, Q!Subdevs
<1>4. /\ it.n_chan = d.n_chan /\ it.subd_flags = d.subd_flags /\ it.lists = d.subd_flags
      /\ it.maxdata = d.maxdata /\ it.range_type = d.range_type
      /\ it.maxdata_list = d.maxdata_list /\ it.range_type_list = d.range_type_list
  BY <1>2, <1>3 DEF Kept
<1>5. d.n_chan \in Nat
  BY <1>1, DriverTypes
<1> HIDE DEF it, d
<1>6. ASSUME NEW c \in 0 .. d.n_chan - 1
      PROVE  /\ Q!get_maxdata(subdev, c) = Q!Maximum(d, c)
             /\ Q!get_n_ranges(subdev, c) = Q!RANGE_LENGTH(Q!Type(d, c))
             /\ \A r \in Nat : r < Q!RANGE_LENGTH(Q!Type(d, c)) => Q!get_range(subdev, c, r) = <<Q!Type(d, c), r>>
  <2>1. Q!valid_chan(subdev, c)
    BY <1>1, <1>4, <1>5, <1>6 DEF Q!valid_chan, Q!valid_subd, it
  <2>2. Q!get_maxdata(subdev, c) = Q!Maximum(d, c)
    BY <2>1, <1>4 DEF Q!get_maxdata, Q!Maximum, it
  <2>3. Q!get_rangetype(subdev, c) = Q!Type(d, c)
    BY <2>1, <1>4 DEF Q!get_rangetype, Q!Type, it
  <2>4. Q!RANGE_LENGTH(Q!Type(d, c)) \in Nat
    BY <1>1, RangeTypes DEF d
  <2>5. ASSUME NEW r \in Nat, r < Q!RANGE_LENGTH(Q!Type(d, c)) PROVE Q!get_range(subdev, c, r) = <<Q!Type(d, c), r>>
    BY <2>1, <2>3, <2>4, <2>5, <1>4 DEF Q!get_range, Q!Type, it
  <2> QED
    BY <2>1, <2>2, <2>3, <2>5 DEF Q!get_n_ranges
<1>7. ASSUME NEW c \in Nat, c >= d.n_chan PROVE Q!get_n_ranges(subdev, c) = -1 /\ (c = 0 => Q!get_maxdata(subdev, c) = 0)
  BY <1>4, <1>5, <1>7 DEF Q!get_n_ranges, Q!get_maxdata, Q!valid_chan, it
<1>8. /\ Q!maxdata_is_chan_specific(subdev) <=> "SDF_MAXDATA" \in d.subd_flags
      /\ Q!range_is_chan_specific(subdev) <=> "SDF_RANGETYPE" \in d.subd_flags
      /\ Q!get_n_channels(subdev) = d.n_chan
  BY <1>1, <1>4 DEF Q!maxdata_is_chan_specific, Q!range_is_chan_specific, Q!get_n_channels, Q!valid_subd, it
<1> QED
  BY <1>1, <1>2, <1>5, <1>6, <1>7, <1>8 DEF d

\* A line printed about a subdevice.
LEMMA PrintedOne ==
  ASSUME SurveyTypes, NEW s \in Q!Subdevs,
         \/ \E item \in Nat : Q!Printed(s, "maxima", item)
         \/ \E item \in Nat \X (Nat \X Nat) : Q!Printed(s, "ranges", item)
  PROVE  /\ lines' \in [Q!Subdevs -> [maxima : Seq(Nat), ranges : Seq(Nat \X (Nat \X Nat))]]
         /\ \A o \in Q!Subdevs : o # s => lines'[o] = lines[o]
<1> USE DEF SurveyTypes, Q!Printed
<1> DEFINE R == Nat \X (Nat \X Nat)
<1> HIDE DEF R
<1>1. lines[s] \in [maxima : Seq(Nat), ranges : Seq(R)]
  BY DEF R
<1>2. ASSUME NEW item \in Nat, Q!Printed(s, "maxima", item)
      PROVE  lines'[s] \in [maxima : Seq(Nat), ranges : Seq(R)]
  <2>1. Append(lines[s].maxima, item) \in Seq(Nat)
    BY <1>1, AppendProperties
  <2>2. lines'[s] = [lines[s] EXCEPT !.maxima = Append(lines[s].maxima, item)]
    BY <1>2
  <2> QED
    BY <1>1, <2>1, <2>2
<1>3. ASSUME NEW item \in R, Q!Printed(s, "ranges", item)
      PROVE  lines'[s] \in [maxima : Seq(Nat), ranges : Seq(R)]
  <2>1. Append(lines[s].ranges, item) \in Seq(R)
    BY <1>1, AppendProperties
  <2>2. lines'[s] = [lines[s] EXCEPT !.ranges = Append(lines[s].ranges, item)]
    BY <1>3
  <2> QED
    BY <1>1, <2>1, <2>2
<1>4. lines'[s] \in [maxima : Seq(Nat), ranges : Seq(R)]
  BY <1>2, <1>3 DEF R
<1>5. DOMAIN lines' = Q!Subdevs /\ \E v : lines' = [lines EXCEPT ![s] = v]
  OBVIOUS
<1> QED
  BY <1>4, <1>5 DEF R

\* Nothing is told before the device is open.
LEMMA SurveyInitInv == Q!SurveyInit => SurveyInv
<1> SUFFICES ASSUME Q!SurveyInit PROVE SurveyInv
  OBVIOUS
<1> USE SurveyAssumption DEF Q!SurveyInit, Q!SurveyParameters
<1>1. subdevices \in Seq(Element) /\ Len(subdevices) = 0
  BY EmptySeq
<1>2. lines \in [Q!Subdevs -> [maxima : Seq(Nat), ranges : Seq(Nat \X (Nat \X Nat))]]
  BY EmptySeq DEF Q!Nothing
<1>3. SurveyTypes /\ Handle
  BY <1>1, <1>2 DEF SurveyTypes, Handle
<1>4. LinesTold
  BY DEF LinesTold, AtSubdevice, Q!Subdevs
<1> QED
  BY <1>3, <1>4 DEF SurveyInv

\* Lines depend on the driver and on what was printed alone.
LEMMA LinesRest ==
  LinesTold /\ UNCHANGED <<driver, where, subdev, channel, rangeno, lines>> => LinesTold'
  BY SMTT(30) DEF LinesTold, AtSubdevice, AtChannel, Complete, MaximaTold, Upto, Once

\* comedi_open has the description of one more subdevice.
LEMMA FillKeeps == SurveyInv /\ Q!Fill => SurveyInv'
<1> SUFFICES ASSUME SurveyInv, Q!Fill PROVE SurveyInv'
  OBVIOUS
<1> DEFINE l == Len(subdevices)  d == driver[l]
<1>1. /\ l \in Nat /\ l < NDescribed /\ NDescribed \in Nat /\ d \in Described /\ l \in Q!Subdevs
      /\ subdevices \in Seq(Element)
  BY SurveyAssumption DEF Q!Fill, SurveyInv, SurveyTypes, Q!Subdevs, Q!SurveyParameters
<1>2. PICK e \in Element : subdevices' = Append(subdevices, e) /\ Kept(e, d)
  <2>1. CASE d.type = "unused"
    <3>1. Q!Unused(d) \in Element /\ Kept(Q!Unused(d), d)
      BY <1>1, <2>1 DEF Element, Q!Unused, Kept
    <3> QED
      BY <2>1, <3>1 DEF Q!Fill
  <2>2. CASE d.type # "unused"
    <3>1. PICK byCmd \in Q!test_for_cmd(d), byBits \in Q!has_insn_bits(d) :
            subdevices' = Append(subdevices, Q!Filled(d, byCmd, byBits))
      BY <2>2 DEF Q!Fill
    <3>2. byCmd \in BOOLEAN /\ (byCmd => d.cmd)
      BY <1>1, DriverTypes DEF Q!test_for_cmd
    <3>3. byBits \in BOOLEAN /\ (byBits => d.bits)
      BY <1>1, DriverTypes DEF Q!has_insn_bits, Q!test_for_insn_bits
    <3>4. Q!Filled(d, byCmd, byBits) \in Element
      <4> DEFINE p == <<d, byCmd, byBits>>
      <4>1. p \in Described \X BOOLEAN \X BOOLEAN /\ Q!Filled(p[1], p[2], p[3]) = Q!Filled(d, byCmd, byBits)
        BY <1>1, <3>2, <3>3
      <4> QED
        BY <4>1 DEF Element
    <3>5. Kept(Q!Filled(d, byCmd, byBits), d)
      BY <2>2, <3>2, <3>3 DEF Kept, Q!Filled
    <3> QED
      BY <3>1, <3>4, <3>5
  <2> QED
    BY <2>1, <2>2
<1>3. /\ subdevices' \in Seq(Element) /\ Len(subdevices') = l + 1 /\ subdevices'[l + 1] = e
      /\ \A h \in 1 .. l : subdevices'[h] = subdevices[h]
  BY <1>1, <1>2, AppendProperties
<1>4. UNCHANGED <<kernel, driver, where, subdev, channel, rangeno, lines>>
  BY DEF Q!Fill, Q!surveyed, Q!loops
<1>5. SurveyTypes'
  BY <1>1, <1>3, <1>4 DEF SurveyInv, SurveyTypes, Q!Subdevs
<1>6. Handle'
  <2>1. ASSUME NEW s \in 0 .. l PROVE Kept(subdevices'[s + 1], driver[s])
    <3>1. CASE s = l
      BY <3>1, <1>2, <1>3
    <3>2. CASE s # l
      BY <3>2, <1>1, <1>3 DEF SurveyInv, Handle, Q!It
    <3> QED
      BY <3>1, <3>2
  <2> QED
    BY <2>1, <1>1, <1>3, <1>4 DEF Handle, Q!It, Q!Fill
<1>7. LinesTold'
  BY <1>4, LinesRest DEF SurveyInv
<1> QED
  BY <1>5, <1>6, <1>7 DEF SurveyInv

\* The whole device is described.
LEMMA OpenedKeeps == SurveyInv /\ Q!Opened => SurveyInv'
<1> SUFFICES ASSUME SurveyInv, Q!Opened PROVE SurveyInv'
  OBVIOUS
<1>1. /\ UNCHANGED <<kernel, driver, subdevices, subdev, channel, rangeno, lines>>
      /\ where = "fill" /\ where' = "subdevice" /\ Len(subdevices) = NDescribed
  BY DEF Q!Opened, Q!surveyed, Q!loops
<1>2. SurveyTypes' /\ Handle'
  BY <1>1 DEF SurveyInv, SurveyTypes, Handle, Q!It
<1>3. LinesTold'
  BY <1>1 DEF SurveyInv, LinesTold, AtSubdevice, Complete, MaximaTold, Once
<1> QED
  BY <1>2, <1>3 DEF SurveyInv

\* The survey ends after the last subdevice.
LEMMA FinishKeeps == SurveyInv /\ Q!Finish => SurveyInv'
<1> SUFFICES ASSUME SurveyInv, Q!Finish PROVE SurveyInv'
  OBVIOUS
<1>1. /\ UNCHANGED <<kernel, driver, subdevices, subdev, channel, rangeno, lines>>
      /\ where = "subdevice" /\ where' = "done" /\ subdev = NDescribed
  BY DEF Q!Finish, Q!surveyed, Q!loops, Q!get_n_subdevices
<1>2. SurveyTypes' /\ Handle'
  BY <1>1 DEF SurveyInv, SurveyTypes, Handle, Q!It
<1>3. LinesTold'
  BY <1>1 DEF SurveyInv, LinesTold, AtSubdevice, Complete, MaximaTold, Once
<1> QED
  BY <1>2, <1>3 DEF SurveyInv

\* The lines of the other subdevices, when the loop stays where it is.
LEMMA OthersTold ==
  ASSUME SurveyInv, subdev < NDescribed, where' \in {"maxdata", "ranges"},
         where = "subdevice" \/ where \in {"maxdata", "ranges"},
         UNCHANGED <<driver, subdev>>,
         \A s \in Q!Subdevs : s # subdev => lines'[s] = lines[s],
         AtSubdevice(driver[subdev], lines[subdev])'
  PROVE  LinesTold'
<1> USE DEF SurveyInv, SurveyTypes, LinesTold
<1>1. ASSUME NEW s \in Q!Subdevs, s # subdev, s < subdev PROVE Complete(driver[s], lines[s])'
  BY <1>1 DEF Complete, MaximaTold, Once
<1>2. ASSUME NEW s \in Q!Subdevs, s > subdev PROVE lines'[s] = Q!Nothing
  BY <1>2 DEF Q!Subdevs
<1>3. subdev \in Int /\ \A s \in Q!Subdevs : s \in Int
  BY DEF Q!Subdevs
<1> QED
  BY <1>1, <1>2, <1>3

\* The next subdevice begins.
LEMMA SubdeviceKeeps == SurveyInv /\ Q!Subdevice => SurveyInv'
<1> SUFFICES ASSUME SurveyInv, Q!Subdevice PROVE SurveyInv'
  OBVIOUS
<1> DEFINE d == driver[subdev]
<1>1. /\ UNCHANGED <<kernel, driver, subdevices, lines>>
      /\ where = "subdevice" /\ subdev < NDescribed /\ NDescribed \in Nat
  BY SurveyAssumption DEF Q!Subdevice, Q!surveyed, Q!get_n_subdevices, Q!SurveyParameters
<1>2. subdev \in Q!Subdevs /\ d \in Described
  BY <1>1 DEF SurveyInv, SurveyTypes, Q!Subdevs
<1>3. Q!get_subdevice_type(subdev) = d.type
  BY <1>1, <1>2 DEF SurveyInv, Handle, Kept, Q!get_subdevice_type, Q!valid_subd, Q!Subdevs
<1>4. lines[subdev] = Q!Nothing
  BY <1>1, <1>2 DEF SurveyInv, LinesTold
<1>5. CASE d.type = "unused"
  <2>1. subdev' = subdev + 1 /\ UNCHANGED <<where, channel, rangeno>>
    BY <1>3, <1>5 DEF Q!Subdevice
  <2>2. SurveyTypes' /\ Handle'
    BY <1>1, <2>1 DEF SurveyInv, SurveyTypes, Handle, Q!It
  <2>3. ASSUME NEW s \in Q!Subdevs, s < subdev' PROVE Complete(driver[s], lines[s])'
    <3>1. CASE s = subdev
      BY <3>1, <1>1, <1>4, <1>5 DEF Complete
    <3>2. CASE s # subdev
      <4>1. s < subdev
        BY <3>2, <2>1, <2>3 DEF SurveyInv, SurveyTypes, Q!Subdevs
      <4>2. Complete(driver[s], lines[s])
        BY <4>1 DEF SurveyInv, LinesTold
      <4> QED
        BY <4>2, <1>1 DEF Complete, MaximaTold, Once
    <3> QED
      BY <3>1, <3>2
  <2>4. ASSUME NEW s \in Q!Subdevs, s >= subdev' PROVE lines'[s] = Q!Nothing
    <3>1. s > subdev
      BY <2>1, <2>4, <1>1 DEF SurveyInv, SurveyTypes, Q!Subdevs
    <3>2. lines[s] = Q!Nothing
      BY <3>1 DEF SurveyInv, LinesTold
    <3> QED
      BY <3>2, <1>1
  <2>5. LinesTold'
    BY <2>1, <2>3, <2>4, <1>1 DEF LinesTold, AtSubdevice, SurveyInv, SurveyTypes, Q!Subdevs
  <2> QED
    BY <2>2, <2>5 DEF SurveyInv
<1>6. CASE d.type # "unused"
  <2>1. where' = "maxdata" /\ channel' = 0 /\ rangeno' = 0 /\ UNCHANGED subdev
    BY <1>3, <1>6 DEF Q!Subdevice, Q!Begin
  <2>2. SurveyTypes' /\ Handle'
    BY <1>1, <2>1 DEF SurveyInv, SurveyTypes, Handle, Q!It
  <2>3. Maxima(d, 0) = << >>
    BY DEF Maxima
  <2>4. 0 <= Many(d)
    BY <1>2, DriverTypes DEF Many
  <2>5. AtSubdevice(driver[subdev], lines[subdev])'
    BY <1>1, <1>4, <1>6, <2>1, <2>3, <2>4 DEF AtSubdevice, Maxima, Many, Q!Nothing
  <2>6. LinesTold'
    BY <1>1, <2>1, <2>5, OthersTold
  <2> QED
    BY <2>2, <2>6 DEF SurveyInv
<1> QED
  BY <1>5, <1>6

\* One more maximum is one more line.
LEMMA MaximaNext ==
  ASSUME NEW d \in Described, NEW n \in 0 .. d.n_chan - 1
  PROVE  Append(Maxima(d, n), Q!Maximum(d, n)) = Maxima(d, n + 1)
<1>1. n \in Nat /\ d.n_chan \in Nat
  BY DriverTypes
<1>2. \A m \in 0 .. d.n_chan - 1 : Q!Maximum(d, m) \in Nat
  BY RangeTypes
<1>3. Maxima(d, n) \in Seq(Nat) /\ Len(Maxima(d, n)) = n
  BY <1>1, <1>2 DEF Maxima
<1>4. Append(Maxima(d, n), Q!Maximum(d, n)) \in Seq(Nat) /\ Maxima(d, n + 1) \in Seq(Nat) /\ Len(Maxima(d, n + 1)) = n + 1
  BY <1>1, <1>2, <1>3 DEF Maxima
<1> QED
  BY <1>1, <1>2, <1>3, <1>4, SeqEqual DEF Maxima

\* A maximum is told.
LEMMA MaxdataKeeps == SurveyInv /\ Q!Maxdata => SurveyInv'
<1> SUFFICES ASSUME SurveyInv, Q!Maxdata PROVE SurveyInv'
  OBVIOUS
<1> DEFINE d == driver[subdev]  told == lines[subdev]
<1>1. /\ UNCHANGED <<kernel, driver, subdevices, subdev>>
      /\ where = "maxdata" /\ subdev \in Q!Subdevs /\ subdev < NDescribed /\ d \in Described
  BY GettersTell DEF Q!Maxdata, Q!surveyed, Q!SurveyParameters, SurveyInv, LinesTold
<1>2. /\ d.type # "unused" /\ told.ranges = << >> /\ channel <= Many(d) /\ told.maxima = Maxima(d, channel)
      /\ "SDF_MAXDATA" \notin d.subd_flags => channel = 0
  BY <1>1 DEF SurveyInv, LinesTold, AtSubdevice
<1>3. d.n_chan \in Nat /\ channel \in Nat /\ told \in [maxima : Seq(Nat), ranges : Seq(Nat \X (Nat \X Nat))]
  BY <1>1, DriverTypes DEF SurveyInv, SurveyTypes
<1>4. Handle' /\ (rangeno' \in Nat /\ channel' \in Nat)
  BY <1>1, <1>3 DEF SurveyInv, SurveyTypes, Handle, Q!It, Q!Maxdata, Q!Begin
<1>5. CASE "SDF_MAXDATA" \notin d.subd_flags
  <2>1. where' = "ranges" /\ channel' = 0 /\ rangeno' = 0 /\ Q!Printed(subdev, "maxima", Q!get_maxdata(subdev, 0))
    BY <1>1, <1>5, GettersTell DEF Q!Maxdata, Q!Begin
  <2>2. Q!get_maxdata(subdev, 0) \in Nat /\ (d.n_chan # 0 => Q!get_maxdata(subdev, 0) = Q!Maximum(d, 0))
    <3>1. CASE d.n_chan = 0
      BY <1>1, <3>1, GettersTell
    <3>2. CASE d.n_chan # 0
      <4>1. 0 \in 0 .. d.n_chan - 1
        BY <1>3, <3>2
      <4>2. Q!Maximum(d, 0) \in Nat
        BY <1>1, <4>1, RangeTypes
      <4> QED
        BY <1>1, <4>1, <4>2, GettersTell
    <3> QED
      BY <3>1, <3>2
  <2>3. /\ lines' \in [Q!Subdevs -> [maxima : Seq(Nat), ranges : Seq(Nat \X (Nat \X Nat))]]
        /\ \A s \in Q!Subdevs : s # subdev => lines'[s] = lines[s]
    BY <1>1, <2>1, <2>2, PrintedOne DEF SurveyInv
  <2>4. lines'[subdev].ranges = << >> /\ lines'[subdev].maxima = Append(told.maxima, Q!get_maxdata(subdev, 0))
    BY <1>1, <1>2, <2>1 DEF Q!Printed, SurveyInv, SurveyTypes
  <2>5. d.n_chan # 0 => lines'[subdev].maxima = Maxima(d, 1)
    BY <1>1, <1>2, <1>3, <1>5, <2>2, <2>4, MaximaNext, SMTT(30)
  <2>6. MaximaTold(d, lines'[subdev])
    BY <1>1, <1>3, <1>5, <2>5, OwnChannels DEF MaximaTold, Many
  <2>7. Upto(d, 0, 0) = {} /\ Q!Entries(<< >>) = {} /\ Once(<< >>)
    BY <1>1, UptoNone DEF Q!Entries, Once
  <2>8. AtSubdevice(driver[subdev], lines[subdev])'
    BY <1>1, <1>2, <1>3, <2>1, <2>4, <2>6, <2>7
       DEF AtSubdevice, AtChannel, MaximaTold, Upto, Once
  <2>9. LinesTold'
    BY <1>1, <2>1, <2>3, <2>8, OthersTold
  <2> QED
    BY <1>1, <1>4, <2>1, <2>3, <2>9 DEF SurveyInv, SurveyTypes
<1>6. CASE "SDF_MAXDATA" \in d.subd_flags /\ channel < d.n_chan
  <2>1. where' = "maxdata" /\ channel' = channel + 1 /\ UNCHANGED rangeno
        /\ Q!Printed(subdev, "maxima", Q!Maximum(d, channel)) /\ Q!Maximum(d, channel) \in Nat
    <3>1. channel \in 0 .. d.n_chan - 1
      BY <1>3, <1>6
    <3>2. Q!Maximum(d, channel) \in Nat
      BY <1>1, <3>1, RangeTypes
    <3> HIDE DEF d
    <3>3. Q!get_maxdata(subdev, channel) = Q!Maximum(d, channel) /\ Q!get_n_channels(subdev) = d.n_chan
          /\ Q!maxdata_is_chan_specific(subdev)
      BY <1>1, <1>6, <3>1, GettersTell DEF d
    <3> QED
      BY <1>1, <1>6, <3>2, <3>3 DEF Q!Maxdata
  <2>2. /\ lines' \in [Q!Subdevs -> [maxima : Seq(Nat), ranges : Seq(Nat \X (Nat \X Nat))]]
        /\ \A s \in Q!Subdevs : s # subdev => lines'[s] = lines[s]
    BY <1>1, <2>1, PrintedOne DEF SurveyInv
  <2>3. lines'[subdev].ranges = << >> /\ lines'[subdev].maxima = Append(told.maxima, Q!Maximum(d, channel))
    BY <1>1, <1>2, <2>1 DEF Q!Printed, SurveyInv, SurveyTypes
  <2>4. lines'[subdev].maxima = Maxima(d, channel + 1) /\ channel + 1 <= Many(d)
    BY <1>1, <1>2, <1>3, <1>6, <2>3, MaximaNext, SMTT(30) DEF Many
  <2>5. AtSubdevice(driver[subdev], lines[subdev])'
    BY <1>1, <1>2, <1>6, <2>1, <2>3, <2>4 DEF AtSubdevice, Maxima, Many
  <2>6. LinesTold'
    BY <1>1, <2>1, <2>2, <2>5, OthersTold
  <2> QED
    BY <1>1, <1>4, <2>1, <2>2, <2>6 DEF SurveyInv, SurveyTypes
<1>7. CASE "SDF_MAXDATA" \in d.subd_flags /\ ~(channel < d.n_chan)
  <2>1. where' = "ranges" /\ channel' = 0 /\ rangeno' = 0 /\ UNCHANGED lines
    BY <1>1, <1>7, GettersTell DEF Q!Maxdata, Q!Begin
  <2>2. channel = Many(d)
    BY <1>2, <1>3, <1>7 DEF Many
  <2>3. MaximaTold(d, told)
    BY <1>2, <2>2 DEF MaximaTold
  <2>4. Upto(d, 0, 0) = {} /\ Q!Entries(<< >>) = {} /\ Once(<< >>)
    BY <1>1, UptoNone DEF Q!Entries, Once
  <2>5. AtSubdevice(driver[subdev], lines[subdev])'
    BY <1>1, <1>2, <1>3, <2>1, <2>3, <2>4
       DEF AtSubdevice, AtChannel, MaximaTold, Upto, Once
  <2>6. LinesTold'
    BY <1>1, <2>1, <2>5, OthersTold
  <2> QED
    BY <1>1, <1>4, <2>1, <2>6 DEF SurveyInv, SurveyTypes
<1> QED
  BY <1>5, <1>6, <1>7

\* A range is told.
LEMMA RangeKeeps == SurveyInv /\ Q!Range => SurveyInv'
<1> SUFFICES ASSUME SurveyInv, Q!Range PROVE SurveyInv'
  OBVIOUS
<1> DEFINE d == driver[subdev]  told == lines[subdev]  R == Nat \X (Nat \X Nat)
           e == <<channel, <<Q!Type(d, channel), rangeno>>>>
<1>1. /\ UNCHANGED <<kernel, driver, subdevices, subdev, channel>>
      /\ where = "ranges" /\ subdev \in Q!Subdevs /\ subdev < NDescribed /\ d \in Described
  BY GettersTell DEF Q!Range, Q!surveyed, SurveyInv, LinesTold
<1>2. /\ d.type # "unused" /\ MaximaTold(d, told) /\ AtChannel(d)
      /\ Q!Entries(told.ranges) = Upto(d, channel, rangeno) /\ Once(told.ranges)
  BY <1>1 DEF SurveyInv, LinesTold, AtSubdevice
<1>3. /\ d.n_chan \in Nat /\ channel \in Nat /\ rangeno \in Nat /\ told \in [maxima : Seq(Nat), ranges : Seq(R)]
  BY <1>1, DriverTypes DEF SurveyInv, SurveyTypes
<1>4. channel \in 0 .. d.n_chan - 1
  <2>1. CASE channel >= d.n_chan
    <3>1. Q!get_n_ranges(subdev, channel) = -1
      BY <1>1, <1>3, <2>1, GettersTell
    <3> QED
      BY <3>1, <1>3 DEF Q!Range
  <2> QED
    BY <2>1, <1>3
<1>5. Q!Type(d, channel) \in Nat /\ Q!RANGE_LENGTH(Q!Type(d, channel)) \in Nat
  BY <1>1, <1>4, RangeTypes
<1>6. rangeno < Q!RANGE_LENGTH(Q!Type(d, channel))
  <2>1. Q!get_n_ranges(subdev, channel) = Q!RANGE_LENGTH(Q!Type(d, channel))
    BY <1>1, <1>4, GettersTell
  <2> QED
    BY <2>1 DEF Q!Range
<1>7. Q!get_range(subdev, channel, rangeno) = <<Q!Type(d, channel), rangeno>>
  BY <1>1, <1>3, <1>4, <1>6, GettersTell
<1>8. where' = "ranges" /\ rangeno' = rangeno + 1 /\ Q!Printed(subdev, "ranges", e) /\ e \in R
  <2>1. <<Q!Type(d, channel), rangeno>> # << >>
    OBVIOUS
  <2> QED
    BY <1>1, <1>3, <1>5, <1>7, <2>1 DEF Q!Range, Q!NULL
<1>9. channel \in Q!Own(d, "SDF_RANGETYPE")
  BY <1>2, <1>3, <1>4 DEF AtChannel, Q!Own
<1>10. /\ Upto(d, channel, rangeno + 1) = Upto(d, channel, rangeno) \union {e}
       /\ e \notin Upto(d, channel, rangeno)
  BY <1>1, <1>3, <1>6, <1>9, UptoNext
<1>11. /\ lines' \in [Q!Subdevs -> [maxima : Seq(Nat), ranges : Seq(R)]]
       /\ \A s \in Q!Subdevs : s # subdev => lines'[s] = lines[s]
  BY <1>1, <1>8, PrintedOne DEF SurveyInv
<1>12. lines'[subdev].maxima = told.maxima /\ lines'[subdev].ranges = Append(told.ranges, e)
  BY <1>1, <1>8 DEF Q!Printed, SurveyInv, SurveyTypes
<1> HIDE DEF e, R
<1>13. Q!Entries(lines'[subdev].ranges) = Upto(d, channel, rangeno + 1) /\ Once(lines'[subdev].ranges)
  <2>1. told.ranges \in Seq(R)
    BY <1>3
  <2> HIDE DEF told
  <2>2. /\ Q!Entries(Append(told.ranges, e)) = Q!Entries(told.ranges) \union {e}
        /\ Once(told.ranges) /\ e \notin Q!Entries(told.ranges) => Once(Append(told.ranges, e))
    BY <2>1, <1>8, AppendEntries
  <2> QED
    BY <2>2, <1>2, <1>10, <1>12
<1>14. MaximaTold(d, lines'[subdev])
  BY <1>2, <1>12 DEF MaximaTold
<1>15. AtSubdevice(driver[subdev], lines[subdev])'
  BY <1>1, <1>2, <1>8, <1>13, <1>14 DEF AtSubdevice, AtChannel, MaximaTold, Upto, Once
<1>16. LinesTold'
  BY <1>1, <1>8, <1>11, <1>15, OthersTold
<1>17. SurveyTypes'
  BY <1>1, <1>3, <1>8, <1>11 DEF SurveyInv, SurveyTypes, R
<1>18. Handle'
  BY <1>1, <1>8 DEF SurveyInv, Handle, Q!It
<1> QED
  BY <1>16, <1>17, <1>18 DEF SurveyInv

\* The ranges of a channel are all told.
LEMMA RangesDoneKeeps == SurveyInv /\ Q!RangesDone => SurveyInv'
<1> SUFFICES ASSUME SurveyInv, Q!RangesDone PROVE SurveyInv'
  OBVIOUS
<1> DEFINE d == driver[subdev]  told == lines[subdev]
           more == "SDF_RANGETYPE" \in d.subd_flags /\ channel + 1 < d.n_chan
<1>1. /\ UNCHANGED <<kernel, driver, subdevices, lines>> /\ rangeno' = 0
      /\ where = "ranges" /\ subdev \in Q!Subdevs /\ subdev < NDescribed /\ d \in Described
  BY GettersTell DEF Q!RangesDone, Q!surveyed, SurveyInv, LinesTold
<1>2. /\ d.type # "unused" /\ MaximaTold(d, told) /\ AtChannel(d)
      /\ Q!Entries(told.ranges) = Upto(d, channel, rangeno) /\ Once(told.ranges)
  BY <1>1 DEF SurveyInv, LinesTold, AtSubdevice
<1>3. d.n_chan \in Nat /\ channel \in Nat /\ rangeno \in Nat
  BY <1>1, DriverTypes DEF SurveyInv, SurveyTypes
<1>4. channel \in Q!Own(d, "SDF_RANGETYPE") => rangeno >= Q!RANGE_LENGTH(Q!Type(d, channel))
  <2> SUFFICES ASSUME channel \in Q!Own(d, "SDF_RANGETYPE")
               PROVE  rangeno >= Q!RANGE_LENGTH(Q!Type(d, channel))
    OBVIOUS
  <2>1. channel \in 0 .. d.n_chan - 1
    BY <1>1, OwnChannels
  <2>2. Q!get_n_ranges(subdev, channel) = Q!RANGE_LENGTH(Q!Type(d, channel))
    BY <1>1, <2>1, GettersTell
  <2> QED
    BY <2>2 DEF Q!RangesDone
<1>5. /\ Q!range_is_chan_specific(subdev) <=> "SDF_RANGETYPE" \in d.subd_flags
      /\ Q!get_n_channels(subdev) = d.n_chan
  BY <1>1, GettersTell
<1>6. CASE more
  <2>1. channel' = channel + 1 /\ UNCHANGED <<where, subdev>>
    BY <1>5, <1>6 DEF Q!RangesDone
  <2>2. Upto(d, channel + 1, 0) = Upto(d, channel, rangeno)
    BY <1>1, <1>3, <1>4, UptoNextChannel
  <2>3. AtSubdevice(driver[subdev], lines[subdev])'
    BY <1>1, <1>2, <1>3, <1>6, <2>1, <2>2 DEF AtSubdevice, AtChannel, MaximaTold, Upto, Once
  <2>4. LinesTold'
    BY <1>1, <2>1, <2>3, OthersTold
  <2> QED
    BY <1>1, <1>3, <2>1, <2>4 DEF SurveyInv, SurveyTypes, Handle, Q!It
<1>7. CASE ~more
  <2>1. where' = "subdevice" /\ channel' = 0 /\ subdev' = subdev + 1
    BY <1>5, <1>7 DEF Q!RangesDone
  <2>2. \A b \in Q!Own(d, "SDF_RANGETYPE") : b <= channel
    BY <1>2, <1>3, <1>7 DEF Q!Own, AtChannel
  <2>3. Upto(d, channel, rangeno) = Q!Tables(d)
    BY <1>1, <1>3, <1>4, <2>2, UptoAll
  <2>4. subdev \in 0 .. NDescribed - 1 /\ NDescribed \in Nat
    BY <1>1, SurveyAssumption DEF Q!Subdevs, Q!SurveyParameters
  <2>5. SurveyTypes' /\ Handle'
    BY <1>1, <2>1, <2>4 DEF SurveyInv, SurveyTypes, Handle, Q!It
  <2>6. ASSUME NEW s \in Q!Subdevs, s < subdev' PROVE Complete(driver[s], lines[s])'
    <3>1. CASE s = subdev
      BY <3>1, <1>1, <1>2, <2>3 DEF Complete, MaximaTold, Once
    <3>2. CASE s # subdev
      BY <3>2, <2>1, <2>4, <2>6, <1>1 DEF SurveyInv, LinesTold, Complete, MaximaTold, Once, Q!Subdevs
    <3> QED
      BY <3>1, <3>2
  <2>7. ASSUME NEW s \in Q!Subdevs, s >= subdev' PROVE lines'[s] = Q!Nothing
    BY <2>1, <2>4, <2>7, <1>1 DEF SurveyInv, LinesTold, Q!Subdevs
  <2>8. LinesTold'
    BY <2>1, <2>4, <2>6, <2>7, <1>1 DEF LinesTold, AtSubdevice, Q!Subdevs
  <2> QED
    BY <2>5, <2>8 DEF SurveyInv
<1> QED
  BY <1>6, <1>7

\* Every step of the survey keeps it.
LEMMA SurveyStep == SurveyInv /\ Q!SurveyNext => SurveyInv'
  BY FillKeeps, OpenedKeeps, SubdeviceKeeps, MaxdataKeeps, RangeKeeps, RangesDoneKeeps, FinishKeeps DEF Q!SurveyNext

\* What is about other components leaves it alone.
LEMMA SurveyRest == SurveyInv /\ UNCHANGED surveyOnly => SurveyInv'
  BY LinesRest DEF surveyOnly, SurveyInv, SurveyTypes, Handle, Q!It

\* It implies what the survey promises.
LEMMA InvSaysTells == SurveyInv => Q!SurveyTells /\ Q!ProbesSafe
<1> SUFFICES ASSUME SurveyInv PROVE Q!SurveyTells /\ Q!ProbesSafe
  OBVIOUS
<1>1. Q!ProbesSafe
  BY DEF SurveyInv, Handle, Kept, Q!ProbesSafe
<1>2. ASSUME NEW s \in Q!Subdevs, where = "done"
      PROVE  LET d == driver[s]  told == lines[s]  own == Q!Own(d, "SDF_MAXDATA")
             IN  IF d.type = "unused" THEN told = Q!Nothing
                 ELSE /\ Q!Entries(told.ranges) = Q!Tables(d)
                      /\ \A p, q \in DOMAIN told.ranges : told.ranges[p] = told.ranges[q] => p = q
                      /\ own # {} => told.maxima = [p \in 1 .. Len(told.maxima) |-> Q!Maximum(d, p - 1)]
                      /\ own # {} => DOMAIN told.maxima = {c + 1 : c \in own}
  <2> DEFINE d == driver[s]  told == lines[s]  own == Q!Own(d, "SDF_MAXDATA")
  <2>1. s < subdev /\ d \in Described
    BY <1>2, SurveyAssumption DEF SurveyInv, SurveyTypes, LinesTold, Q!Subdevs, Q!SurveyParameters
  <2>2. Complete(d, told)
    BY <2>1 DEF SurveyInv, LinesTold
  <2>3. d.n_chan \in Nat
    BY <2>1, DriverTypes
  <2>4. ASSUME d.type # "unused", own # {}
        PROVE  /\ told.maxima = [p \in 1 .. Len(told.maxima) |-> Q!Maximum(d, p - 1)]
               /\ DOMAIN told.maxima = {c + 1 : c \in own}
    <3>1. told.maxima = [p \in 1 .. Many(d) |-> Q!Maximum(d, p - 1)] /\ Many(d) \in Nat
      BY <2>2, <2>3, <2>4 DEF Complete, MaximaTold, Maxima, Many
    <3>2. told.maxima \in Seq(Nat)
      BY DEF SurveyInv, SurveyTypes
    <3>3. Len(told.maxima) = Many(d)
      BY <3>1, <3>2
    <3>4. {c + 1 : c \in own} = 1 .. Many(d)
      <4>1. own = 0 .. Many(d) - 1
        <5>1. CASE "SDF_MAXDATA" \in d.subd_flags
          BY <5>1 DEF Many, Q!Own
        <5>2. CASE "SDF_MAXDATA" \notin d.subd_flags
          <6>1. own = {0} /\ Many(d) = 1
            BY <2>4, <5>2 DEF Many, Q!Own
          <6>2. {0} = 0 .. 1 - 1
            OBVIOUS
          <6> QED
            BY <6>1, <6>2
        <5> QED
          BY <5>1, <5>2
      <4>2. ASSUME NEW j \in 1 .. Many(d) PROVE j \in {c + 1 : c \in own}
        <5>1. j - 1 \in own /\ j = (j - 1) + 1
          BY <4>1, <3>1
        <5> QED
          BY <5>1
      <4> QED
        BY <4>1, <4>2, <3>1
    <3> QED
      BY <3>1, <3>3, <3>4
  <2> QED
    BY <2>2, <2>4 DEF Complete, Once
<1>3. where # "crashed"
  BY DEF SurveyInv, SurveyTypes
<1> QED
  BY <1>1, <1>2, <1>3 DEF Q!SurveyTells

\* Whatever a driver describes, and whichever of the probes of comedi_open
\* fail: the getters lead both programs through every maximum and every range
\* exactly once, and neither the library nor they rely on what is not there.
THEOREM SurveyComplete == HandleSpec => []SurveyTells
<1> DEFINE Inv == by = "survey" => SurveyInv
<1>1. HandleInit => Inv
  BY SurveyInitInv DEF HandleInit
<1>2. Inv /\ [HandleNext]_allVars => Inv'
  <2> SUFFICES ASSUME Inv, [HandleNext]_allVars, by' = "survey" PROVE SurveyInv'
    OBVIOUS
  <2>1. by = "survey"
    BY DEF HandleNext, UsesC, UsesCpp, Surveys, Configures, TestsSizes, allVars
  <2>2. Q!SurveyNext \/ UNCHANGED surveyOnly
    BY <2>1 DEF HandleNext, UsesC, UsesCpp, Surveys, Configures, TestsSizes, allVars
  <2> QED
    BY <2>1, <2>2, SurveyStep, SurveyRest
<1>3. Inv => SurveyTells
  BY InvSaysTells DEF SurveyTells
<1>4. HandleSpec => HandleInit /\ [][HandleNext]_allVars
  BY PTL DEF HandleSpec
<1> HIDE DEF Inv
<1> QED
  BY <1>1, <1>2, <1>3, <1>4, PTL
================================================================================
