------------------------- MODULE SegmentTableProofs -------------------------
(***************************************************************************)
(* Proofs about the slots, the names and the kernel's side of SegmentTable *)
(* and of its refinement of SegmentNames, for any number of slots, names,  *)
(* pages, files and ids.                                                   *)
(***************************************************************************)
EXTENDS SegmentEffects, FiniteSetTheorems, TLAPS

-----------------------------------------------------------------------------
(***************************************************************************)
(* Types, the saved slot, unique names and a full table.                   *)
(***************************************************************************)
VmType   == vm \in [Pages -> [owner : {Null, Task} \cup Slot, prot : SUBSET {"r", "w", "x"}]]
CallType == call \in [op : {"none", "touch", "sys"}, slot : {Null} \cup Slot,
                      start : Size, length : Size]

\* Nothing an operation asks of the kernel gives a page another kind of owner.
LEMMA VmTypeStep ==
    ASSUME TableInv, Effect
    PROVE  VmType'
<1> DEFINE Page == [owner : {Null, Task} \cup Slot, prot : SUBSET {"r", "w", "x"}]
<1>0. vm \in [Pages -> Page]
  BY DEF TableInv, TypeOK
<1>1. Free \in Page
  BY DEF Free
<1> SUFFICES vm' \in [Pages -> Page]
  BY DEF VmType
<1> HIDE DEF Page
<1>2. CASE UNCHANGED vm
  BY <1>0, <1>2
<1>3. CASE vm' = [p \in Pages |-> Free]
  BY <1>1, <1>3
<1>4. ASSUME NEW s, vm' = Unmapped(s)
      PROVE  vm' \in [Pages -> Page]
  BY <1>0, <1>1, <1>4 DEF Unmapped
<1>5. ASSUME NEW S, NEW prot \in SUBSET {"r", "w", "x"}, vm' = Protected(S, prot)
      PROVE  vm' \in [Pages -> Page]
  <2>1. \A p \in Pages : [vm[p] EXCEPT !.prot = prot] \in Page
    BY <1>0 DEF Page
  <2> QED
    BY <1>0, <1>5, <2>1 DEF Protected
<1>6. ASSUME NEW n \in Names, NEW s \in Slot, Maps(n, s)
      PROVE  vm' \in [Pages -> Page]
  <2>1. PICK seg, size, a :
          /\ Prepared(s, seg) /\ a \in Places(seg, size)
          /\ vm' = [p \in Pages |-> IF p \in PagesIn(a, seg.length)
                                    THEN [owner |-> s, prot |-> MapProt(seg)] ELSE vm[p]]
    BY <1>6 DEF Maps
  <2>2. seg.prot \in SUBSET {"r", "w", "x"}
    BY <2>1 DEF Prepared, Segment
  <2>3. [owner |-> s, prot |-> MapProt(seg)] \in Page
    BY <2>2 DEF MapProt, Page
  <2> QED
    BY <1>0, <2>1, <2>3
<1>7. CASE Loads \/ Spins \/ Resizes
  BY <1>2, <1>7 DEF Loads, Spins, Resizes, kernel
<1>8. CASE Dies \/ Exits
  BY <1>3, <1>8 DEF Dies, DieBySignal, Exits
<1>9. ASSUME NEW n \in Names, Answers(n) \/ AddsAnon(n) \/ AddsFile(n) \/ AddsShm(n)
      PROVE  vm' \in [Pages -> Page]
  BY <1>2, <1>9 DEF Answers, AddsAnon, AddsFile, AddsShm, kernel
<1>10. ASSUME NEW n \in Names, NEW s \in Slot, Unmaps(n, s) \/ Removes(n, s)
       PROVE  vm' \in [Pages -> Page]
  BY <1>4, <1>10 DEF Unmaps, Removes
<1>11. ASSUME NEW n \in Names, NEW s \in Slot, MapFails(n, s) \/ Uses(n, s)
       PROVE  vm' \in [Pages -> Page]
  BY <1>2, <1>11 DEF MapFails, Uses, kernel
<1>12. ASSUME NEW n \in Names, NEW s \in Slot, Protects(n, s) \/ ProtectFails(n, s)
       PROVE  vm' \in [Pages -> Page]
  BY <1>2, <1>5, <1>12 DEF Protects, ProtectFails
<1> QED
  BY <1>6, <1>7, <1>8, <1>9, <1>10, <1>11, <1>12 DEF Effect

\* A call's range is made of sizes, whatever the user typed.
LEMMA CallTypeStep ==
    ASSUME TableInv, Effect
    PROVE  CallType'
<1>1. CallType
  BY DEF TableInv, TypeOK, CallType
<1>2. CASE call' = NoCall
  BY <1>2, WordAssumption DEF CallType, NoCall, Size
<1>3. CASE UNCHANGED call
  BY <1>1, <1>3 DEF CallType
<1>4. ASSUME NEW n \in Names, NEW s \in Slot, Uses(n, s)
      PROVE  CallType'
  <2>1. PICK op \in {"touch", "sys"}, o \in Offsets, l \in Size :
          /\ Accepted(s, o)
          /\ call' = [op |-> op, slot |-> s, start |-> CallStart(s, o),
                      length |-> CallLength(s, o, l)]
    BY <1>4 DEF Uses
  <2>2. seglist[s] \in Segment
    BY <1>4, GoodTable DEF Uses, Means
  <2> DEFINE seg == seglist[s]
  <2> HIDE DEF seg
  <2>3. seg.start \in Size /\ seg.length \in Size /\ seg.pagesize \in Size /\ o \in Size
    BY <2>2, TableAssumption DEF seg, Segment
  <2>4. RangeAccepted(o, seg.length, seg.pagesize)
    BY <2>1 DEF Accepted, seg
  <2>5. ClipOffset(o, seg.pagesize) \in Size /\ ClipLength(o, l, seg.length, seg.pagesize) \in Size
    BY <2>3, <2>4, ClipSize
  <2>6. (seg.start + ClipOffset(o, seg.pagesize)) % Word \in Size
    BY <2>3, <2>5, WordAssumption DEF Size
  <2>7. CallStart(s, o) \in Size /\ CallLength(s, o, l) \in Size
    BY <2>5, <2>6 DEF CallStart, CallLength, seg
  <2> QED
    BY <2>1, <2>7 DEF CallType
<1>5. CASE Loads \/ Spins \/ Dies \/ Exits
  BY <1>2, <1>5 DEF Loads, Spins, Dies, DieBySignal, Exits
<1>6. CASE Resizes
  BY <1>3, <1>6 DEF Resizes
<1>7. ASSUME NEW n \in Names, Answers(n) \/ AddsAnon(n) \/ AddsFile(n) \/ AddsShm(n)
      PROVE  CallType'
  BY <1>2, <1>7 DEF Answers, AddsAnon, AddsFile, AddsShm
<1>8. ASSUME NEW n \in Names, NEW s \in Slot,
             \/ Unmaps(n, s) \/ Removes(n, s) \/ Maps(n, s) \/ MapFails(n, s)
             \/ Protects(n, s) \/ ProtectFails(n, s)
      PROVE  CallType'
  BY <1>2, <1>8 DEF Unmaps, Removes, Maps, MapFails, Protects, ProtectFails
<1> QED
  BY <1>4, <1>5, <1>6, <1>7, <1>8 DEF Effect

\* The rest of the type invariant.
LEMMA RestTypeStep ==
    ASSUME TableInv, Effect
    PROVE  /\ shm' \subseteq ShmIds /\ fds' \subseteq Fds
           /\ fsize' \in [FileNames -> FileSizes]
           /\ ret' \in {"ok", "err", "full"}
           /\ phase' \in {"run", "spin", "exited", "killed"}
           /\ LinesOK'
<1>0. /\ shm \subseteq ShmIds /\ fds \subseteq Fds /\ fsize \in [FileNames -> FileSizes]
      /\ ret \in {"ok", "err", "full"} /\ phase \in {"run", "spin", "exited", "killed"}
      /\ LinesOK
  BY DEF TableInv, TypeOK
<1> DEFINE Goal == /\ shm' \subseteq ShmIds /\ fds' \subseteq Fds
                   /\ fsize' \in [FileNames -> FileSizes]
                   /\ ret' \in {"ok", "err", "full"}
                   /\ phase' \in {"run", "spin", "exited", "killed"}
                   /\ LinesOK'
<1>1. CASE Loads
  <2>1. maps \in Seq(TaskLine) /\ maps # <<>> /\ maps' = Tail(maps)
    BY <1>0, <1>1 DEF LinesOK, Loads
  <2>2. /\ maps' \in Seq(TaskLine) /\ Len(maps') = Len(maps) - 1
        /\ \A i \in 1 .. Len(maps') : maps'[i] = maps[i + 1]
    BY <2>1, HeadTailProperties
  <2>3. /\ DOMAIN maps = 1 .. Len(maps) /\ DOMAIN maps' = 1 .. Len(maps')
        /\ Len(maps) \in Nat /\ Len(maps') \in Nat
    BY <2>1, <2>2, LenProperties
  <2>4. \A i \in DOMAIN maps' : maps'[i].start # MAP_FAILED
    BY <1>0, <2>2, <2>3 DEF LinesOK
  <2>5. phase' \in {"run", "killed"}
    BY <1>1 DEF Loads
  <2>6. LinesOK'
    BY <2>2, <2>4, <2>5 DEF LinesOK
  <2> QED
    BY <1>0, <1>1, <2>5, <2>6 DEF Loads, kernel
<1>2. ASSUME UNCHANGED maps, phase' \in {"exited", "killed", phase}
      PROVE  LinesOK'
  BY <1>0, <1>2 DEF LinesOK
<1>3. CASE Spins
  <2>1. LinesOK'
    BY <1>0, <1>3 DEF Spins, Running, LinesOK
  <2> QED
    BY <1>0, <1>3, <2>1 DEF Spins, kernel
<1>4. CASE Dies \/ Exits \/ Resizes
  BY <1>0, <1>2, <1>4 DEF Dies, DieBySignal, Exits, Resizes
<1>5. ASSUME NEW n \in Names, Answers(n) \/ AddsAnon(n)
      PROVE  Goal
  BY <1>0, <1>2, <1>5 DEF Answers, AddsAnon, kernel
<1>6. ASSUME NEW n \in Names, AddsFile(n) \/ AddsShm(n)
      PROVE  Goal
  BY <1>0, <1>2, <1>6 DEF AddsFile, AddsShm
<1>7. ASSUME NEW n \in Names, NEW s \in Slot,
             Unmaps(n, s) \/ Removes(n, s) \/ Maps(n, s) \/ Protects(n, s) \/ ProtectFails(n, s)
      PROVE  Goal
  BY <1>0, <1>2, <1>7 DEF Unmaps, Removes, Maps, Protects, ProtectFails
<1>8. ASSUME NEW n \in Names, NEW s \in Slot, MapFails(n, s) \/ Uses(n, s)
      PROVE  Goal
  BY <1>0, <1>2, <1>8 DEF MapFails, Uses, kernel
<1> QED
  BY <1>1, <1>3, <1>4, <1>5, <1>6, <1>7, <1>8 DEF Effect

\* The program starts with an empty table and the lines of its maps to read.
LEMMA TableInit == Init => TableInv
<1> SUFFICES ASSUME Init PROVE TableInv
  OBVIOUS
<1>1. seglist \in Seq(Segment) /\ Len(seglist) = 0
  BY EmptySeq DEF Init
<1>2. LinesOK
  BY TableAssumption DEF Init, LinesOK, TaskLine
<1>3. VmType
  BY DEF Init, VmType, Free
<1>4. CallType
  BY WordAssumption DEF Init, CallType, NoCall, Size
<1>5. TypeOK
  BY <1>1, <1>3, <1>4, MaxNat DEF Init, TypeOK, VmType, CallType
<1>6. AvailFree
  BY DEF Init, AvailFree
<1> QED
  BY <1>2, <1>5, <1>6 DEF TableInv

\* Every step keeps the invariant.
LEMMA TableStep ==
    ASSUME TableInv, [Next]_vars
    PROVE  TableInv'
<1>1. CASE Next
  <2>1. Good(Table') /\ Effect
    BY <1>1, Effects
  <2>2. seglist' \in Seq(Segment) /\ Len(seglist') =< MaxSegments /\ AvailFree'
    BY <2>1 DEF Good, Table, AvailFree, InUse
  <2>3. seg_avail' \in {Null} \cup DOMAIN seglist'
    BY <2>1 DEF Good, Table
  <2>4. VmType' /\ CallType'
    BY <2>1, VmTypeStep, CallTypeStep
  <2>5. /\ shm' \subseteq ShmIds /\ fds' \subseteq Fds
        /\ fsize' \in [FileNames -> FileSizes]
        /\ ret' \in {"ok", "err", "full"}
        /\ phase' \in {"run", "spin", "exited", "killed"}
        /\ LinesOK'
    BY <2>1, RestTypeStep
  <2>6. TypeOK'
    BY <2>2, <2>3, <2>4, <2>5 DEF TypeOK, VmType, CallType
  <2> QED
    BY <2>2, <2>5, <2>6 DEF TableInv
<1>2. CASE UNCHANGED vars
  BY <1>2 DEF vars, TableInv, TypeOK, AvailFree, InUse, LinesOK
<1> QED
  BY <1>1, <1>2

(***************************************************************************)
(* The variables have their types: a slot number always names an allocated *)
(* slot, and the array's terminating NULL is never overwritten.            *)
(***************************************************************************)
THEOREM TableTyped == Spec => []TypeOK
<1>1. TableInv => TypeOK
  BY DEF TableInv
<1> QED
  BY <1>1, TableInit, TableStep, PTL DEF Spec

(***************************************************************************)
(* The slot saved in seg_avail is free, however lookups, registrations,    *)
(* removals and failures follow each other.                                *)
(***************************************************************************)
THEOREM SavedSlotFree == Spec => []AvailFree
<1>1. TableInv => AvailFree
  BY DEF TableInv
<1> QED
  BY <1>1, TableInit, TableStep, PTL DEF Spec

\* What a step does to the list, whatever else it does.
LEMMA ListEffect ==
    ASSUME Effect
    PROVE  \/ Kept(seglist, seglist') \/ Cleaned(seglist, seglist')
           \/ \E s, seg : Added(seglist, seglist', s, seg) \/ Changed(seglist, seglist', s, seg)
           \/ \E s : Dropped(seglist, seglist', s)
<1>1. UNCHANGED seglist => Kept(seglist, seglist')
  BY DEF Kept, Same
<1>2. CASE Loads \/ Spins \/ Dies \/ Exits \/ Resizes
  BY <1>1, <1>2 DEF Loads, Spins, Dies, DieBySignal, Exits, Resizes
<1>3. ASSUME NEW n \in Names, Answers(n) \/ AddsAnon(n) \/ AddsFile(n) \/ AddsShm(n)
      PROVE  Kept(seglist, seglist') \/ \E s, seg : Added(seglist, seglist', s, seg)
  BY <1>3 DEF Answers, AddsAnon, AddsFile, AddsShm
<1>4. ASSUME NEW n \in Names, NEW s \in Slot, Unmaps(n, s) \/ Maps(n, s) \/ MapFails(n, s) \/ Protects(n, s)
      PROVE  \E seg : Changed(seglist, seglist', s, seg)
  BY <1>4 DEF Unmaps, Maps, MapFails, Protects
<1>5. ASSUME NEW n \in Names, NEW s \in Slot, Removes(n, s) \/ ProtectFails(n, s) \/ Uses(n, s)
      PROVE  Kept(seglist, seglist') \/ Dropped(seglist, seglist', s)
  BY <1>5 DEF Removes, ProtectFails, Uses
<1> QED
  BY <1>2, <1>3, <1>4, <1>5 DEF Effect

\* UniqueNames, said of the slots in use.
Unique(L) == \A s, t \in Used(L) : L[s].name = L[t].name => s = t

\* UniqueNames, of the list alone.
LEMMA UniqueIs == UniqueNames <=> Unique(seglist)
BY DEF UniqueNames, Unique, InUse, Used

\* Every step keeps the names unique.
LEMMA UniqueStep ==
    ASSUME TableInv, Unique(seglist), [Next]_vars
    PROVE  Unique(seglist')
<1>1. CASE UNCHANGED vars
  BY <1>1 DEF vars, Unique
<1>2. CASE Next
  <2>1. Effect
    BY <1>2, Effects
  <2>2. CASE Kept(seglist, seglist')
    BY <2>2 DEF Kept, Same, Unique
  <2>3. CASE Cleaned(seglist, seglist')
    BY <2>3 DEF Cleaned, Same, Unique
  <2>4. ASSUME NEW s, NEW seg, Added(seglist, seglist', s, seg)
        PROVE  Unique(seglist')
    BY <2>4 DEF Added, Same, Unique
  <2>5. ASSUME NEW s, NEW seg, Changed(seglist, seglist', s, seg)
        PROVE  Unique(seglist')
    BY <2>5 DEF Changed, Same, Unique
  <2>6. ASSUME NEW s, Dropped(seglist, seglist', s)
        PROVE  Unique(seglist')
    BY <2>6 DEF Dropped, Same, Unique
  <2> QED
    BY <2>1, <2>2, <2>3, <2>4, <2>5, <2>6, ListEffect
<1> QED
  BY <1>1, <1>2

(***************************************************************************)
(* No two segments in use have the same name, although segment_register    *)
(* looks the name up before it claims a slot that a lookup saved earlier.  *)
(***************************************************************************)
THEOREM NamesUnique == Spec => []UniqueNames
<1>1. Init => Unique(seglist)
  BY DEF Init, Unique, Used
<1>2. TableInv /\ Unique(seglist) /\ [Next]_vars => Unique(seglist)'
  BY UniqueStep
<1>3. Unique(seglist) => UniqueNames
  BY UniqueIs
<1> QED
  BY <1>1, <1>2, <1>3, TableInit, TableStep, PTL DEF Spec

\* FullMeansFull, said of the slots in use.
FullReport == ret = "full" => Full(seglist)

\* FullMeansFull, in terms of the slots.
LEMMA FullIs ==
    ASSUME TableInv
    PROVE  FullMeansFull <=> FullReport
<1>1. DOMAIN seglist = 1 .. Len(seglist) /\ Len(seglist) \in Nat /\ Len(seglist) =< MaxSegments
  BY GoodTable DEF TableInv, TypeOK
<1>2. ASSUME Full(seglist)
      PROVE  Len(seglist) = MaxSegments /\ \A s \in DOMAIN seglist : InUse(s)
  <2>1. MaxSegments \in DOMAIN seglist
    BY <1>2, MaxNat DEF Full, Used, Slot
  <2>2. Len(seglist) = MaxSegments
    BY <1>1, <2>1, MaxNat
  <2> QED
    BY <1>1, <1>2, <2>2 DEF Full, Used, Slot, InUse
<1>3. ASSUME Len(seglist) = MaxSegments, \A s \in DOMAIN seglist : InUse(s)
      PROVE  Full(seglist)
  BY <1>1, <1>3 DEF Full, Used, Slot, InUse
<1> QED
  BY <1>2, <1>3 DEF FullMeansFull, FullReport

\* Every step keeps FullReport.
LEMMA FullStep ==
    ASSUME TableInv, FullReport, [Next]_vars
    PROVE  FullReport'
<1>1. CASE UNCHANGED vars
  BY <1>1 DEF vars, FullReport
<1>2. CASE Next
  <2>1. Effect
    BY <1>2, Effects
  <2>2. ASSUME ret' = ret, Kept(seglist, seglist')
        PROVE  FullReport'
    BY <2>2 DEF FullReport, Full, Kept
  <2>3. Kept(seglist, seglist)
    BY DEF Kept, Same
  <2>4. CASE Loads \/ Exits
    BY <2>4 DEF Loads, Exits, FullReport
  <2>5. CASE Spins \/ Dies \/ Resizes
    BY <2>2, <2>3, <2>5 DEF Spins, Dies, DieBySignal, Resizes
  <2>6. ASSUME NEW n \in Names, Answers(n)
        PROVE  FullReport'
    BY <2>6 DEF Answers, FullReport, Full, Kept
  <2>7. ASSUME NEW n \in Names, AddsAnon(n) \/ AddsFile(n) \/ AddsShm(n)
        PROVE  FullReport'
    BY <2>7 DEF AddsAnon, AddsFile, AddsShm, FullReport
  <2>8. ASSUME NEW n \in Names, NEW s \in Slot,
               \/ Unmaps(n, s) \/ Removes(n, s) \/ Maps(n, s) \/ MapFails(n, s)
               \/ Protects(n, s) \/ ProtectFails(n, s) \/ Uses(n, s)
        PROVE  FullReport'
    BY <2>8 DEF Unmaps, Removes, Maps, MapFails, Protects, ProtectFails, Uses, FullReport
  <2> QED
    BY <2>1, <2>4, <2>5, <2>6, <2>7, <2>8 DEF Effect
<1> QED
  BY <1>1, <1>2

(***************************************************************************)
(* "segment table full" is reported only when every one of the MAX_SEGMENTS *)
(* slots holds a segment: no slot is ever lost.                            *)
(***************************************************************************)
THEOREM FullIsFull == Spec => []FullMeansFull
<1>1. Init => FullReport
  BY DEF Init, FullReport
<1>2. TableInv /\ FullReport /\ [Next]_vars => FullReport'
  BY FullStep
<1>3. TableInv /\ FullReport => FullMeansFull
  BY FullIs
<1> QED
  BY <1>1, <1>2, <1>3, TableInit, TableStep, PTL DEF Spec

-----------------------------------------------------------------------------
(***************************************************************************)
(* Shared memory ids.                                                      *)
(***************************************************************************)
ShmOf(L) == {s \in Used(L) : L[s].type = "shm"}

\* The shared memory slots, of the list alone.
LEMMA ShmSlotsAre == ShmSlots = ShmOf(seglist)
BY DEF ShmSlots, ShmOf, Used

\* A step that adds, changes or drops no shared memory segment.
LEMMA ShmSame ==
    ASSUME ShmOf(seglist') = ShmOf(seglist),
           \A s \in ShmOf(seglist) : seglist'[s].shmid = seglist[s].shmid,
           shm' = shm, phase # "exited", phase' # "exited", ShmAccounted
    PROVE  ShmAccounted'
<1>1. /\ shm = {seglist[s].shmid : s \in ShmOf(seglist)}
      /\ \A s, t \in ShmOf(seglist) : seglist[s].shmid = seglist[t].shmid => s = t
  BY ShmSlotsAre DEF ShmAccounted
<1>2. shm' = {seglist'[s].shmid : s \in ShmOf(seglist')}
  BY <1>1
<1>3. \A s, t \in ShmOf(seglist') : seglist'[s].shmid = seglist'[t].shmid => s = t
  BY <1>1
<1>4. ShmSlots' = ShmOf(seglist')
  BY DEF ShmSlots, ShmOf, Used
<1> QED
  BY <1>2, <1>3, <1>4 DEF ShmAccounted

\* Every step keeps ShmAccounted.
LEMMA ShmStep ==
    ASSUME TableInv, ShmAccounted, [Next]_vars
    PROVE  ShmAccounted'
<1>1. CASE UNCHANGED vars
  BY <1>1 DEF vars, ShmAccounted, ShmSlots
<1>2. CASE Next
  <2>0. Effect
    BY <1>2, Effects
  <2>1. /\ shm = {seglist[s].shmid : s \in ShmOf(seglist)}
        /\ \A s, t \in ShmOf(seglist) : seglist[s].shmid = seglist[t].shmid => s = t
        /\ ShmSlots' = ShmOf(seglist')
    <3>1. ShmSlots' = ShmOf(seglist')
      BY DEF ShmSlots, ShmOf, Used
    <3> QED
      BY <3>1, ShmSlotsAre DEF ShmAccounted
  <2>2. ASSUME Kept(seglist, seglist'), shm' = shm, phase # "exited", phase' # "exited"
        PROVE  ShmAccounted'
    <3>1. ShmOf(seglist') = ShmOf(seglist) /\ \A s \in ShmOf(seglist) : seglist'[s].shmid = seglist[s].shmid
      BY <2>2 DEF Kept, Same, ShmOf
    <3> QED
      BY <2>2, <3>1, ShmSame
  <2>3. ASSUME NEW s, NEW seg, Added(seglist, seglist', s, seg), seg.type # "shm",
               shm' = shm, phase # "exited", phase' # "exited"
        PROVE  ShmAccounted'
    <3>1. ShmOf(seglist') = ShmOf(seglist) /\ \A t \in ShmOf(seglist) : seglist'[t].shmid = seglist[t].shmid
      BY <2>3 DEF Added, Same, ShmOf
    <3> QED
      BY <2>3, <3>1, ShmSame
  <2>4. ASSUME NEW s, NEW seg, Changed(seglist, seglist', s, seg), seg.shmid = seglist[s].shmid,
               shm' = shm, phase # "exited", phase' # "exited"
        PROVE  ShmAccounted'
    <3>1. ShmOf(seglist') = ShmOf(seglist) /\ \A t \in ShmOf(seglist) : seglist'[t].shmid = seglist[t].shmid
      BY <2>4 DEF Changed, Same, ShmOf
    <3> QED
      BY <2>4, <3>1, ShmSame
  <2>5. Kept(seglist, seglist)
    BY DEF Kept, Same
  <2>6. CASE Loads
    <3>1. Head(maps) \in TaskLine
      BY <2>6, HeadTailProperties DEF Loads, TableInv, LinesOK
    <3>2. TaskSegment(Head(maps)).type # "shm"
      BY <3>1, TaskSegmentIs DEF TaskLine
    <3> QED
      BY <2>2, <2>3, <2>6, <3>2 DEF Loads, kernel
  <2>7. CASE Spins \/ Dies \/ Resizes
    BY <2>2, <2>5, <2>7 DEF Spins, Dies, DieBySignal, Resizes, Running, Alive, kernel
  <2>8. CASE Exits
    <3>1. ShmOf(seglist') = {}
      BY <2>8 DEF Exits, Cleaned, Same, ShmOf
    <3>2. \A s \in ShmOf(seglist) : seglist[s].shmid # NONE
      BY <2>1, TableAssumption DEF TableInv, TypeOK, NONE
    <3>3. \A s \in ShmOf(seglist) : s \in Used(seglist) /\ seglist[s].shmid \in RemovedBy(seglist[s])
      BY <3>2 DEF RemovedBy, ShmOf
    <3>4. shm' = {}
      BY <2>1, <2>8, <3>3 DEF Exits
    <3> QED
      BY <2>1, <3>1, <3>4 DEF ShmAccounted
  <2>9. ASSUME NEW n \in Names, Answers(n)
        PROVE  ShmAccounted'
    BY <2>2, <2>9 DEF Answers, Running, kernel
  <2>10. ASSUME NEW n \in Names, AddsAnon(n)
         PROVE  ShmAccounted'
    <3>1. PICK s \in Slot, o \in Size, l \in Size, sh \in Shares :
            Added(seglist, seglist', s, NewSegment("anon", n, o, l, {sh}))
      BY <2>10 DEF AddsAnon
    <3>2. NewSegment("anon", n, o, l, {sh}).type # "shm"
      BY ShareFlags, NewSegmentIs
    <3> QED
      BY <2>3, <2>10, <3>1, <3>2 DEF AddsAnon, Running, kernel
  <2>11. ASSUME NEW n \in Names, AddsFile(n)
         PROVE  ShmAccounted'
    <3>1. PICK s \in Slot, o \in Size, l \in Size, sh \in Shares, fd \in Fds, prot \in FileProts :
            Added(seglist, seglist', s, Opened(NewSegment("file", n, o, l, {sh}), fd, prot))
      BY <2>11 DEF AddsFile
    <3>2. Opened(NewSegment("file", n, o, l, {sh}), fd, prot).type # "shm"
      BY OpenedIs
    <3> QED
      BY <2>3, <2>11, <3>1, <3>2 DEF AddsFile, Running
  <2>12. ASSUME NEW n \in Names, AddsShm(n)
         PROVE  ShmAccounted'
    <3>1. PICK s \in Slot, l \in Size, huge \in BOOLEAN, id \in ShmIds \ shm :
            Added(seglist, seglist', s, Created(n, l, huge, id)) /\ shm' = shm \cup {id}
      BY <2>12 DEF AddsShm
    <3> DEFINE seg == Created(n, l, huge, id)
    <3>2. seg.type = "shm" /\ seg.shmid = id
      BY ShmSegmentIs
    <3> HIDE DEF seg
    <3>3. /\ ShmOf(seglist') = ShmOf(seglist) \cup {s} /\ s \notin ShmOf(seglist)
          /\ seglist'[s].shmid = id /\ \A t \in ShmOf(seglist) : seglist'[t] = seglist[t]
      BY <3>1, <3>2 DEF Added, Same, ShmOf, seg
    <3>4. shm' = {seglist'[t].shmid : t \in ShmOf(seglist')}
      BY <2>1, <3>1, <3>3
    <3>5. \A t, u \in ShmOf(seglist') : seglist'[t].shmid = seglist'[u].shmid => t = u
      BY <2>1, <3>1, <3>3
    <3>6. phase' # "exited"
      BY <2>12 DEF AddsShm, Running
    <3> QED
      BY <2>1, <3>4, <3>5, <3>6 DEF ShmAccounted
  <2>13. ASSUME NEW n \in Names, NEW s \in Slot, Unmaps(n, s) \/ Protects(n, s)
         PROVE  ShmAccounted'
    <3>1. seglist[s] \in Segment
      BY <2>13, GoodTable DEF Unmaps, Protects, Means
    <3>2. \A x : /\ [seglist[s] EXCEPT !.start = x].shmid = seglist[s].shmid
                 /\ [seglist[s] EXCEPT !.prot = x].shmid = seglist[s].shmid
      BY <3>1 DEF Segment
    <3> QED
      BY <2>4, <2>13, <3>2 DEF Unmaps, Protects, Means, Running
  <2>14. ASSUME NEW n \in Names, NEW s \in Slot, Maps(n, s) \/ MapFails(n, s)
         PROVE  ShmAccounted'
    <3>1. \A seg, x : Prepared(s, seg) => /\ [seg EXCEPT !.start = x].shmid = seglist[s].shmid
                                          /\ seg.shmid = seglist[s].shmid
      BY DEF Prepared, SameOwner, Segment
    <3>2. PICK seg : Changed(seglist, seglist', s, seg) /\ seg.shmid = seglist[s].shmid
      BY <2>14, <3>1 DEF Maps, MapFails
    <3> QED
      BY <2>4, <2>14, <3>2 DEF Maps, MapFails, Means, Running, kernel
  <2>15. ASSUME NEW n \in Names, NEW s \in Slot, Removes(n, s)
         PROVE  ShmAccounted'
    <3>1. /\ ShmOf(seglist') = ShmOf(seglist) \ {s} /\ s \in Used(seglist)
          /\ \A t \in ShmOf(seglist') : seglist'[t] = seglist[t]
      BY <2>15 DEF Removes, Dropped, Same, ShmOf
    <3>2. s \in ShmOf(seglist) => seglist[s].shmid # NONE
      BY <2>1, TableAssumption DEF TableInv, TypeOK, NONE
    <3>3. RemovedBy(seglist[s]) = IF s \in ShmOf(seglist) THEN {seglist[s].shmid} ELSE {}
      BY <3>1, <3>2 DEF RemovedBy, ShmOf
    <3>4. shm' = {seglist'[t].shmid : t \in ShmOf(seglist')}
      BY <2>1, <2>15, <3>1, <3>3 DEF Removes
    <3>5. phase' # "exited"
      BY <2>15 DEF Removes, Means, Running
    <3> QED
      BY <2>1, <3>1, <3>4, <3>5 DEF ShmAccounted
  <2>16. ASSUME NEW n \in Names, NEW s \in Slot, ProtectFails(n, s) \/ Uses(n, s)
         PROVE  ShmAccounted'
    BY <2>2, <2>16 DEF ProtectFails, Uses, Means, Running, kernel
  <2> QED
    BY <2>0, <2>6, <2>7, <2>8, <2>9, <2>10, <2>11, <2>12, <2>13, <2>14, <2>15, <2>16 DEF Effect
<1> QED
  BY <1>1, <1>2

(***************************************************************************)
(* The shared memory ids that exist are those the table records, each      *)
(* once, and exit() leaves none behind: also when calloc fails in the      *)
(* middle of a registration, and exit() cleans up a table in that state.   *)
(***************************************************************************)
THEOREM NoShmLeak == Spec => []ShmAccounted
<1>1. Init => ShmAccounted
  BY DEF Init, ShmAccounted, ShmSlots
<1>2. TableInv /\ ShmAccounted /\ [Next]_vars => ShmAccounted'
  BY ShmStep
<1> QED
  BY <1>1, <1>2, TableInit, TableStep, PTL DEF Spec

-----------------------------------------------------------------------------
(***************************************************************************)
(* Facts about every segment that the proofs about files, pages and calls  *)
(* rest on: a segment of the task's own image is mapped, and the page size *)
(* a segment has is one of three.  While nobody asks for fixed addresses,  *)
(* a segment that was registered as anonymous has offset 0; and if the     *)
(* lines of the task's maps are whole pages of the address space, so is    *)
(* the beginning of every mapping.                                         *)
(***************************************************************************)
NoFixed == Addrs \subseteq {0} /\ Anchors = {}

Inside(start, length) ==
    start % PageSize = 0 /\ start + length =< (NPages + 1) * PageSize

LinesInside == \A i \in DOMAIN TaskMaps : Inside(TaskMaps[i].start, TaskMaps[i].length)

SegFacts(seg) ==
    /\ "maps" \in seg.flags => seg.start # MAP_FAILED
    /\ seg.pagesize \in {0, PageSize, HugePageSize}
    /\ NoFixed => (seg.type = "anon" /\ "maps" \notin seg.flags => seg.offset = 0)
    /\ LinesInside => (seg.start # MAP_FAILED => Inside(seg.start, seg.length))

ListFacts ==
    /\ \A s \in Used(seglist) : SegFacts(seglist[s])
    /\ LinesInside => \A i \in DOMAIN maps : Inside(maps[i].start, maps[i].length)

\* A new segment is not mapped yet.
LEMMA NewFacts ==
    ASSUME NEW seg, seg.start = MAP_FAILED, "maps" \notin seg.flags,
           seg.pagesize \in {0, PageSize, HugePageSize},
           NoFixed => (seg.type = "anon" => seg.offset = 0)
    PROVE  SegFacts(seg)
BY DEF SegFacts

\* What the map command leaves of the facts, whether it succeeds or not.
LEMMA MapFacts ==
    ASSUME TableInv, ListFacts, NEW s \in Used(seglist), ~IsMapped(s), NEW seg, Prepared(s, seg)
    PROVE  /\ SegFacts(seg) /\ "maps" \notin seg.flags /\ "maps" \notin seglist[s].flags
           /\ \A size : \A a \in Places(seg, size) :
                 SegFacts([seg EXCEPT !.start = a]) /\ a # MAP_FAILED
<1>1. seglist[s].start = MAP_FAILED /\ SegFacts(seglist[s]) /\ seglist[s] \in Segment
      /\ seglist[s].type # "none"
  BY GoodTable DEF IsMapped, Used, ListFacts
<1>2. "maps" \notin seglist[s].flags
  BY <1>1 DEF SegFacts
<1>3. seg \in Segment /\ "maps" \notin seg.flags /\ seg.start = MAP_FAILED /\ seg.type = seglist[s].type
  BY <1>1, <1>2 DEF Prepared, SameOwner
<1>4. seg.pagesize \in {0, PageSize, HugePageSize}
  BY <1>1 DEF Prepared, SegFacts, Segment, SegType
<1>5. NoFixed => (seg.type = "anon" => seg.offset = 0)
  <2> SUFFICES ASSUME NoFixed, seg.type = "anon" PROVE seg.offset = 0
    OBVIOUS
  <2>1. seglist[s].offset = 0
    BY <1>1, <1>2, <1>3 DEF SegFacts
  <2>2. seg.offset = round_down(0, PageSize)
    BY <1>3, <2>1 DEF Prepared
  <2>3. round_down(0, PageSize) \in Nat /\ round_down(0, PageSize) =< 0
    BY TableAssumption, RoundDown
  <2> QED
    BY <2>2, <2>3
<1>6. ASSUME NEW size, NEW a \in Places(seg, size)
      PROVE  SegFacts([seg EXCEPT !.start = a]) /\ a # MAP_FAILED
  <2>1. a \in {p * PageSize : p \in Pages} /\ Fits(a, seg.length)
    BY <1>6 DEF Places
  <2>2. PICK p \in Pages : a = p * PageSize
    BY <2>1
  <2>3. a # MAP_FAILED /\ a % PageSize = 0
    <3>1. p \in Nat /\ PageSize \in Nat \ {0}
      BY TableAssumption DEF Pages
    <3>2. (p * PageSize) % PageSize = 0
      BY <3>1, MultMod
    <3> QED
      BY <2>2, <3>2, PageAddress
  <2>4. Inside(a, seg.length)
    BY <2>1, <2>3 DEF Fits, Inside
  <2> DEFINE new == [seg EXCEPT !.start = a]
  <2>5. /\ new.start = a /\ new.flags = seg.flags /\ new.pagesize = seg.pagesize
        /\ new.type = seg.type /\ new.offset = seg.offset /\ new.length = seg.length
    BY <1>3 DEF Segment
  <2> HIDE DEF new
  <2>6. SegFacts(new)
    BY <1>3, <1>4, <1>5, <2>4, <2>5 DEF SegFacts
  <2> QED
    BY <2>3, <2>6 DEF new
<1>7. SegFacts(seg)
  BY <1>3, <1>4, <1>5, NewFacts
<1> QED
  BY <1>2, <1>3, <1>6, <1>7

\* Every step keeps ListFacts.
LEMMA FactsStep ==
    ASSUME TableInv, ListFacts, [Next]_vars
    PROVE  ListFacts'
<1>1. CASE UNCHANGED vars
  BY <1>1 DEF vars, ListFacts
<1>2. CASE Next
  <2>0. Effect
    BY <1>2, Effects
  <2> DEFINE Facts(L) == \A s \in Used(L) : SegFacts(L[s])
  <2>1. Facts(seglist)
    BY DEF ListFacts
  <2>2. ASSUME Kept(seglist, seglist') \/ Cleaned(seglist, seglist')
        PROVE  Facts(seglist')
    BY <2>1, <2>2 DEF Kept, Cleaned, Same
  <2>3. ASSUME NEW s, Dropped(seglist, seglist', s)
        PROVE  Facts(seglist')
    BY <2>1, <2>3 DEF Dropped, Same
  <2>4. ASSUME NEW s, NEW seg, SegFacts(seg),
               Added(seglist, seglist', s, seg) \/ Changed(seglist, seglist', s, seg)
        PROVE  Facts(seglist')
    BY <2>1, <2>4 DEF Added, Changed, Same
  <2>5. UNCHANGED maps /\ Facts(seglist') => ListFacts'
    BY DEF ListFacts
  <2> HIDE DEF Facts
  <2>6. CASE Loads
    <3>1. /\ maps \in Seq(TaskLine) /\ maps # <<>> /\ maps' = Tail(maps)
          /\ \A i \in DOMAIN maps : maps[i].start # MAP_FAILED
      BY <2>6 DEF TableInv, LinesOK, Loads
    <3>2. /\ Head(maps) \in TaskLine /\ Head(maps) = maps[1]
          /\ maps' \in Seq(TaskLine) /\ Len(maps') = Len(maps) - 1
          /\ \A i \in 1 .. Len(maps') : maps'[i] = maps[i + 1]
      BY <3>1, HeadTailProperties
    <3>3. /\ DOMAIN maps = 1 .. Len(maps) /\ DOMAIN maps' = 1 .. Len(maps')
          /\ Len(maps) \in Nat /\ Len(maps') \in Nat
      BY <3>1, <3>2, LenProperties
    <3>4. 1 \in DOMAIN maps /\ \A i \in DOMAIN maps' : i + 1 \in DOMAIN maps
      BY <3>2, <3>3
    <3>5. LinesInside => /\ Inside(Head(maps).start, Head(maps).length)
                         /\ \A i \in DOMAIN maps' : Inside(maps'[i].start, maps'[i].length)
      BY <3>2, <3>3, <3>4 DEF ListFacts
    <3> DEFINE seg == TaskSegment(Head(maps))
    <3>6. /\ seg.start = Head(maps).start /\ seg.length = Head(maps).length /\ seg.pagesize = 0
          /\ seg.flags = {"private", "maps"}
      BY <3>2, TaskSegmentIs
    <3> HIDE DEF seg
    <3>7. SegFacts(seg)
      BY <3>1, <3>2, <3>4, <3>5, <3>6 DEF SegFacts
    <3>8. Facts(seglist')
      BY <2>2, <2>4, <2>6, <3>7 DEF Loads, seg
    <3> QED
      BY <3>5, <3>8 DEF ListFacts, Facts
  <2>7. CASE Spins \/ Dies \/ Exits \/ Resizes
    <3>1. Kept(seglist, seglist)
      BY DEF Kept, Same
    <3>2. UNCHANGED maps /\ Facts(seglist')
      BY <2>2, <2>7, <3>1 DEF Spins, Dies, DieBySignal, Exits, Resizes
    <3> QED
      BY <2>5, <3>2
  <2>8. ASSUME NEW n \in Names, Answers(n)
        PROVE  ListFacts'
    BY <2>2, <2>5, <2>8 DEF Answers
  <2>9. ASSUME NEW n \in Names, AddsAnon(n)
        PROVE  ListFacts'
    <3>1. PICK s \in Slot, o \in Size, l \in Size, sh \in Shares :
             /\ o \in Addrs \/ Anchors # {}
             /\ Added(seglist, seglist', s, NewSegment("anon", n, o, l, {sh}))
      BY <2>9 DEF AddsAnon
    <3> DEFINE seg == NewSegment("anon", n, o, l, {sh})
    <3>2. seg.start = MAP_FAILED /\ "maps" \notin seg.flags /\ seg.pagesize = 0 /\ seg.offset = o
      BY ShareFlags, NewSegmentIs
    <3>3. NoFixed => o = 0
      BY <3>1 DEF NoFixed
    <3> HIDE DEF seg
    <3>4. SegFacts(seg)
      BY <3>2, <3>3, NewFacts
    <3> QED
      BY <2>4, <2>5, <2>9, <3>1, <3>4 DEF AddsAnon, seg
  <2>10. ASSUME NEW n \in Names, AddsFile(n)
         PROVE  ListFacts'
    <3>1. PICK s \in Slot, o \in Size, l \in Size, sh \in Shares, fd \in Fds, prot \in FileProts :
            Added(seglist, seglist', s, Opened(NewSegment("file", n, o, l, {sh}), fd, prot))
      BY <2>10 DEF AddsFile
    <3> DEFINE seg == Opened(NewSegment("file", n, o, l, {sh}), fd, prot)
    <3>2. seg.start = MAP_FAILED /\ seg.flags = {sh} /\ seg.pagesize = 0 /\ seg.type = "file"
      BY OpenedIs
    <3> HIDE DEF seg
    <3>3. SegFacts(seg)
      BY <3>2, ShareFlags, NewFacts
    <3> QED
      BY <2>4, <2>5, <2>10, <3>1, <3>3 DEF AddsFile, seg
  <2>11. ASSUME NEW n \in Names, AddsShm(n)
         PROVE  ListFacts'
    <3>1. PICK s \in Slot, l \in Size, huge \in BOOLEAN, id \in ShmIds :
            Added(seglist, seglist', s, Created(n, l, huge, id))
      BY <2>11 DEF AddsShm
    <3> DEFINE seg == Created(n, l, huge, id)
    <3>2. /\ seg.start = MAP_FAILED /\ "maps" \notin seg.flags /\ seg.type = "shm"
          /\ seg.pagesize = (IF huge THEN HugePageSize ELSE PageSize)
      BY ShmSegmentIs
    <3> HIDE DEF seg
    <3>3. SegFacts(seg)
      BY <3>2, NewFacts
    <3> QED
      BY <2>4, <2>5, <2>11, <3>1, <3>3 DEF AddsShm, seg
  <2>12. ASSUME NEW n \in Names, NEW s \in Slot, Unmaps(n, s)
         PROVE  ListFacts'
    <3> DEFINE seg == [seglist[s] EXCEPT !.start = MAP_FAILED]
    <3>1. seglist[s] \in Segment /\ SegFacts(seglist[s])
      BY <2>1, <2>12, GoodTable DEF Unmaps, Means, Facts
    <3>2. /\ seg.start = MAP_FAILED /\ seg.flags = seglist[s].flags /\ seg.type = seglist[s].type
          /\ seg.pagesize = seglist[s].pagesize /\ seg.offset = seglist[s].offset
      BY <3>1 DEF Segment
    <3> HIDE DEF seg
    <3>3. SegFacts(seg)
      BY <2>12, <3>1, <3>2 DEF SegFacts, Unmaps, IsMaps
    <3> QED
      BY <2>4, <2>5, <2>12, <3>3 DEF Unmaps, seg
  <2>13. ASSUME NEW n \in Names, NEW s \in Slot, Protects(n, s)
         PROVE  ListFacts'
    <3>1. PICK prot : Changed(seglist, seglist', s, [seglist[s] EXCEPT !.prot = prot])
      BY <2>13 DEF Protects
    <3> DEFINE seg == [seglist[s] EXCEPT !.prot = prot]
    <3>2. seglist[s] \in Segment /\ SegFacts(seglist[s])
      BY <2>1, <2>13, GoodTable DEF Protects, Means, Facts
    <3>3. /\ seg.start = seglist[s].start /\ seg.flags = seglist[s].flags
          /\ seg.type = seglist[s].type /\ seg.length = seglist[s].length
          /\ seg.pagesize = seglist[s].pagesize /\ seg.offset = seglist[s].offset
      BY <3>2 DEF Segment
    <3> HIDE DEF seg
    <3>4. SegFacts(seg)
      BY <3>2, <3>3 DEF SegFacts
    <3> QED
      BY <2>4, <2>5, <2>13, <3>1, <3>4 DEF Protects, seg
  <2>14. ASSUME NEW n \in Names, NEW s \in Slot, Maps(n, s) \/ MapFails(n, s)
         PROVE  ListFacts'
    <3>1. s \in Used(seglist) /\ ~IsMapped(s) /\ UNCHANGED maps
      BY <2>14 DEF Maps, MapFails, Means
    <3>2. PICK seg : SegFacts(seg) /\ Changed(seglist, seglist', s, seg)
      BY <2>14, <3>1, MapFacts DEF Maps, MapFails
    <3> QED
      BY <2>4, <2>5, <3>1, <3>2
  <2>15. ASSUME NEW n \in Names, NEW s \in Slot, Removes(n, s) \/ ProtectFails(n, s) \/ Uses(n, s)
         PROVE  ListFacts'
    BY <2>2, <2>3, <2>5, <2>15 DEF Removes, ProtectFails, Uses
  <2> QED
    BY <2>0, <2>6, <2>7, <2>8, <2>9, <2>10, <2>11, <2>12, <2>13, <2>14, <2>15 DEF Effect
<1> QED
  BY <1>1, <1>2

\* ListFacts holds at the start.
LEMMA FactsInit == Init => ListFacts
BY DEF Init, ListFacts, LinesInside, Used

-----------------------------------------------------------------------------
(***************************************************************************)
(* Open files.                                                             *)
(***************************************************************************)
FileOf(L) == {s \in Used(L) : L[s].type = "file" /\ "maps" \notin L[s].flags}

\* The slots with an open file, of the list alone.
LEMMA FileSlotsAre == FileSlots = FileOf(seglist)
BY DEF FileSlots, FileOf, Used, IsMaps

\* A step that adds, changes or drops no open file's segment.
LEMMA FdsSame ==
    ASSUME FileOf(seglist') = FileOf(seglist),
           \A s \in FileOf(seglist) : seglist'[s].fd = seglist[s].fd,
           fds' = fds, Alive, FdsAccounted
    PROVE  FdsAccounted'
<1>1. /\ fds = {seglist[s].fd : s \in FileOf(seglist)}
      /\ \A s, t \in FileOf(seglist) : seglist[s].fd = seglist[t].fd => s = t
  BY FileSlotsAre DEF FdsAccounted
<1>2. fds' = {seglist'[s].fd : s \in FileOf(seglist')}
  BY <1>1
<1>3. \A s, t \in FileOf(seglist') : seglist'[s].fd = seglist'[t].fd => s = t
  BY <1>1
<1>4. FileSlots' = FileOf(seglist')
  BY DEF FileSlots, FileOf, Used, IsMaps
<1> QED
  BY <1>2, <1>3, <1>4 DEF FdsAccounted

\* Every step keeps FdsAccounted.
LEMMA FdsStep ==
    ASSUME TableInv, ListFacts, FdsAccounted, [Next]_vars
    PROVE  FdsAccounted'
<1>1. CASE UNCHANGED vars
  BY <1>1 DEF vars, FdsAccounted, FileSlots, Alive, IsMaps
<1>2. CASE Next
  <2>0. Effect
    BY <1>2, Effects
  <2>a. FileSlots' = FileOf(seglist')
    BY DEF FileSlots, FileOf, Used, IsMaps
  <2>1. ASSUME Alive
        PROVE  /\ fds = {seglist[s].fd : s \in FileOf(seglist)}
               /\ \A s, t \in FileOf(seglist) : seglist[s].fd = seglist[t].fd => s = t
    BY <2>1, FileSlotsAre DEF FdsAccounted
  <2>2. ASSUME Kept(seglist, seglist'), fds' = fds, Alive
        PROVE  FdsAccounted'
    <3>1. FileOf(seglist') = FileOf(seglist) /\ \A s \in FileOf(seglist) : seglist'[s].fd = seglist[s].fd
      BY <2>2 DEF Kept, Same, FileOf
    <3> QED
      BY <2>2, <3>1, FdsSame
  <2>3. ASSUME NEW s, NEW seg, Added(seglist, seglist', s, seg),
               seg.type # "file" \/ "maps" \in seg.flags, fds' = fds, Alive
        PROVE  FdsAccounted'
    <3>1. FileOf(seglist') = FileOf(seglist) /\ \A t \in FileOf(seglist) : seglist'[t].fd = seglist[t].fd
      BY <2>3 DEF Added, Same, FileOf
    <3> QED
      BY <2>3, <3>1, FdsSame
  <2>4. ASSUME NEW s, NEW seg, Changed(seglist, seglist', s, seg), seg.fd = seglist[s].fd,
               "maps" \in seg.flags <=> "maps" \in seglist[s].flags, fds' = fds, Alive
        PROVE  FdsAccounted'
    <3>1. FileOf(seglist') = FileOf(seglist) /\ \A t \in FileOf(seglist) : seglist'[t].fd = seglist[t].fd
      BY <2>4 DEF Changed, Same, FileOf
    <3> QED
      BY <2>4, <3>1, FdsSame
  <2>5. CASE ~Alive'
    BY <2>5 DEF FdsAccounted
  <2>6. CASE Loads
    <3>1. Head(maps) \in TaskLine
      BY <2>6, HeadTailProperties DEF Loads, TableInv, LinesOK
    <3>2. "maps" \in TaskSegment(Head(maps)).flags
      BY <3>1, TaskSegmentIs
    <3> QED
      BY <2>2, <2>3, <2>6, <3>2 DEF Loads, kernel, Alive
  <2>7. CASE Spins \/ Dies \/ Resizes \/ Exits
    <3>1. Kept(seglist, seglist)
      BY DEF Kept, Same
    <3> QED
      BY <2>2, <2>5, <2>7, <3>1 DEF Spins, Dies, DieBySignal, Resizes, Exits, Running, Alive, kernel
  <2>8. ASSUME NEW n \in Names, Answers(n)
        PROVE  FdsAccounted'
    BY <2>2, <2>8 DEF Answers, Running, Alive, kernel
  <2>9. ASSUME NEW n \in Names, AddsAnon(n)
        PROVE  FdsAccounted'
    <3>1. PICK s \in Slot, o \in Size, l \in Size, sh \in Shares :
            Added(seglist, seglist', s, NewSegment("anon", n, o, l, {sh}))
      BY <2>9 DEF AddsAnon
    <3>2. NewSegment("anon", n, o, l, {sh}).type # "file"
      BY ShareFlags, NewSegmentIs
    <3> QED
      BY <2>3, <2>9, <3>1, <3>2 DEF AddsAnon, Running, Alive, kernel
  <2>10. ASSUME NEW n \in Names, AddsShm(n)
         PROVE  FdsAccounted'
    <3>1. PICK s \in Slot, l \in Size, huge \in BOOLEAN, id \in ShmIds :
            Added(seglist, seglist', s, Created(n, l, huge, id))
      BY <2>10 DEF AddsShm
    <3>2. Created(n, l, huge, id).type # "file"
      BY ShmSegmentIs
    <3> QED
      BY <2>3, <2>10, <3>1, <3>2 DEF AddsShm, Running, Alive
  <2>11. ASSUME NEW n \in Names, AddsFile(n)
         PROVE  FdsAccounted'
    <3>1. PICK s \in Slot, o \in Size, l \in Size, sh \in Shares, fd \in Fds \ fds, prot \in FileProts :
            /\ Added(seglist, seglist', s, Opened(NewSegment("file", n, o, l, {sh}), fd, prot))
            /\ fds' = fds \cup {fd}
      BY <2>11 DEF AddsFile
    <3> DEFINE seg == Opened(NewSegment("file", n, o, l, {sh}), fd, prot)
    <3>2. seg.type = "file" /\ seg.fd = fd /\ seg.flags = {sh}
      BY OpenedIs
    <3>3. "maps" \notin seg.flags
      BY <3>2, ShareFlags
    <3> HIDE DEF seg
    <3>4. /\ FileOf(seglist') = FileOf(seglist) \cup {s} /\ s \notin FileOf(seglist)
          /\ seglist'[s].fd = fd /\ \A t \in FileOf(seglist) : seglist'[t] = seglist[t]
      BY <3>1, <3>2, <3>3 DEF Added, Same, FileOf, seg
    <3>5. Alive
      BY <2>11 DEF AddsFile, Running, Alive
    <3>6. fds' = {seglist'[t].fd : t \in FileOf(seglist')}
      BY <2>1, <3>1, <3>4, <3>5
    <3>7. \A t, u \in FileOf(seglist') : seglist'[t].fd = seglist'[u].fd => t = u
      BY <2>1, <3>1, <3>4, <3>5
    <3> QED
      BY <2>a, <3>6, <3>7 DEF FdsAccounted
  <2>12. ASSUME NEW n \in Names, NEW s \in Slot, Unmaps(n, s) \/ Protects(n, s)
         PROVE  FdsAccounted'
    <3>1. seglist[s] \in Segment
      BY <2>12, GoodTable DEF Unmaps, Protects, Means
    <3>2. \A x : /\ [seglist[s] EXCEPT !.start = x].fd = seglist[s].fd
                 /\ [seglist[s] EXCEPT !.start = x].flags = seglist[s].flags
                 /\ [seglist[s] EXCEPT !.prot = x].fd = seglist[s].fd
                 /\ [seglist[s] EXCEPT !.prot = x].flags = seglist[s].flags
      BY <3>1 DEF Segment
    <3> QED
      BY <2>4, <2>12, <3>2 DEF Unmaps, Protects, Means, Running, Alive
  <2>13. ASSUME NEW n \in Names, NEW s \in Slot, Maps(n, s) \/ MapFails(n, s)
         PROVE  FdsAccounted'
    <3>1. s \in Used(seglist) /\ ~IsMapped(s)
      BY <2>13 DEF Maps, MapFails, Means
    <3>2. PICK old, seg : /\ Prepared(s, old) /\ Changed(seglist, seglist', s, seg)
                          /\ seg = old \/ \E a : seg = [old EXCEPT !.start = a]
      BY <2>13 DEF Maps, MapFails
    <3>3. old \in Segment /\ old.fd = seglist[s].fd
      BY <3>2 DEF Prepared, SameOwner
    <3>4. seg.fd = seglist[s].fd /\ seg.flags = old.flags
      BY <3>2, <3>3 DEF Segment
    <3>5. "maps" \notin seg.flags /\ "maps" \notin seglist[s].flags
      BY <3>1, <3>2, <3>4, MapFacts
    <3> QED
      BY <2>4, <2>13, <3>2, <3>4, <3>5 DEF Maps, MapFails, Means, Running, Alive, kernel
  <2>14. ASSUME NEW n \in Names, NEW s \in Slot, Removes(n, s)
         PROVE  FdsAccounted'
    <3>0. Alive
      BY <2>14 DEF Removes, Means, Running, Alive
    <3>1. /\ FileOf(seglist') = FileOf(seglist) \ {s} /\ s \in Used(seglist)
          /\ \A t \in FileOf(seglist') : seglist'[t] = seglist[t]
      BY <2>14 DEF Removes, Dropped, Same, FileOf
    <3>2. s \in FileOf(seglist) => seglist[s].fd # NONE
      BY <2>1, <3>0, TableAssumption DEF TableInv, TypeOK, NONE
    <3>3. ClosedBy(seglist[s]) = IF s \in FileOf(seglist) THEN {seglist[s].fd} ELSE {}
      BY <2>14, <3>1, <3>2 DEF ClosedBy, FileOf, Removes, IsMaps
    <3>4. fds' = {seglist'[t].fd : t \in FileOf(seglist')}
      BY <2>1, <2>14, <3>0, <3>1, <3>3 DEF Removes
    <3> QED
      BY <2>a, <2>1, <3>0, <3>1, <3>4 DEF FdsAccounted
  <2>15. ASSUME NEW n \in Names, NEW s \in Slot, ProtectFails(n, s) \/ Uses(n, s)
         PROVE  FdsAccounted'
    BY <2>2, <2>15 DEF ProtectFails, Uses, Means, Running, Alive, kernel
  <2> QED
    BY <2>0, <2>6, <2>7, <2>8, <2>9, <2>10, <2>11, <2>12, <2>13, <2>14, <2>15 DEF Effect
<1> QED
  BY <1>1, <1>2

(***************************************************************************)
(* The open files are those of the registered file segments, each once:    *)
(* no sequence of registrations, failures, maps and removals leaks a       *)
(* descriptor or closes one that another segment still uses.               *)
(***************************************************************************)
THEOREM NoFdLeak == Spec => []FdsAccounted
<1>1. Init => FdsAccounted
  BY DEF Init, FdsAccounted, FileSlots
<1>2. TableInv /\ ListFacts /\ FdsAccounted /\ [Next]_vars => FdsAccounted'
  BY FdsStep
<1>3. TableInv /\ ListFacts /\ [Next]_vars => ListFacts'
  BY FactsStep
<1> QED
  BY <1>1, <1>2, <1>3, FactsInit, TableInit, TableStep, PTL DEF Spec

-----------------------------------------------------------------------------
(***************************************************************************)
(* Mappings.                                                               *)
(***************************************************************************)

\* The pages of a segment that is in use and mapped.
PagesOf(L, s) == PagesIn(L[s].start, L[s].length)
MappedIn(L)   == {s \in Used(L) : L[s].start # MAP_FAILED}

\* NoOrphanPage, said of the slots in use.
Homed(L, v) ==
    \A p \in Pages : v[p].owner \in Slot =>
        v[p].owner \in MappedIn(L) /\ p \in PagesOf(L, v[p].owner)

\* NoOrphanPage, of the list and the address space alone.
LEMMA HomedIs == NoOrphanPage <=> Homed(seglist, vm)
BY DEF NoOrphanPage, Homed, MappedIn, PagesOf, IsMapped, Used

\* munmap() and shmdt() take back every page the segment has.
LEMMA UnmappedHomed ==
    ASSUME TableInv, Homed(seglist, vm), NEW s \in Slot, ~IsMaps(s)
    PROVE  /\ \A p \in Pages : Unmapped(s)[p] \in {vm[p], Free}
           /\ \A p \in Pages : Unmapped(s)[p].owner # s
<1>1. Free.owner # s /\ Null # s
  BY DEF Free, Null, Slot
<1>2. CASE seglist[s].start = MAP_FAILED
  <2>1. Unmapped(s) = vm
    BY <1>2 DEF Unmapped
  <2> QED
    BY <1>2, <2>1 DEF Homed, MappedIn
<1>3. CASE seglist[s].start # MAP_FAILED
  <2> DEFINE gone == {p \in PagesIn(seglist[s].start, seglist[s].length) :
                         seglist[s].type = "shm" => vm[p].owner = s}
  <2>1. Unmapped(s) = [p \in Pages |-> IF p \in gone THEN Free ELSE vm[p]]
    BY <1>3 DEF Unmapped
  <2>2. \A p \in Pages : vm[p].owner = s => p \in gone
    BY DEF Homed, PagesOf
  <2> HIDE DEF gone
  <2> QED
    BY <1>1, <2>1, <2>2
<1> QED
  BY <1>2, <1>3

\* Every step keeps Homed.
LEMMA HomedStep ==
    ASSUME TableInv, Homed(seglist, vm), [Next]_vars
    PROVE  Homed(seglist', vm')
<1>1. CASE UNCHANGED vars
  BY <1>1 DEF vars
<1>2. CASE Next
  <2>0. Effect
    BY <1>2, Effects
  <2>1. Null \notin Slot /\ Free.owner = Null
    BY DEF Null, Slot, Free
  <2>2. CASE vm' = [p \in Pages |-> Free]
    BY <2>1, <2>2 DEF Homed
  <2>3. ASSUME Kept(seglist, seglist'), \A p \in Pages : vm'[p].owner = vm[p].owner
        PROVE  Homed(seglist', vm')
    BY <2>3 DEF Kept, Same, Homed, MappedIn, PagesOf
  <2>4. ASSUME NEW s, NEW seg, Added(seglist, seglist', s, seg), vm' = vm
        PROVE  Homed(seglist', vm')
    BY <2>4 DEF Added, Same, Homed, MappedIn, PagesOf
  <2>5. ASSUME NEW S, NEW prot, NEW p \in Pages
        PROVE  Protected(S, prot)[p].owner = vm[p].owner
    <3>1. vm[p] \in [owner : {Null, Task} \cup Slot, prot : SUBSET {"r", "w", "x"}]
      BY <2>5 DEF TableInv, TypeOK
    <3>2. [vm[p] EXCEPT !.prot = prot].owner = vm[p].owner
      BY <3>1
    <3> QED
      BY <2>5, <3>2 DEF Protected
  <2>6. Kept(seglist, seglist)
    BY DEF Kept, Same
  <2>7. CASE Loads
    BY <2>3, <2>4, <2>7 DEF Loads, kernel
  <2>8. CASE Spins \/ Resizes
    BY <2>3, <2>6, <2>8 DEF Spins, Resizes, kernel
  <2>9. CASE Dies \/ Exits
    BY <2>2, <2>9 DEF Dies, DieBySignal, Exits
  <2>10. ASSUME NEW n \in Names, Answers(n) \/ AddsAnon(n) \/ AddsFile(n) \/ AddsShm(n)
         PROVE  Homed(seglist', vm')
    BY <2>3, <2>4, <2>10 DEF Answers, AddsAnon, AddsFile, AddsShm, kernel
  <2>11. ASSUME NEW n \in Names, NEW s \in Slot, Unmaps(n, s) \/ Removes(n, s)
         PROVE  Homed(seglist', vm')
    <3>1. /\ \A p \in Pages : vm'[p] \in {vm[p], Free}
          /\ \A p \in Pages : vm'[p].owner # s
      BY <2>11, UnmappedHomed DEF Unmaps, Removes
    <3>2. \A t \in Used(seglist) \ {s} : t \in Used(seglist') /\ seglist'[t] = seglist[t]
      BY <2>11 DEF Unmaps, Removes, Changed, Dropped, Same
    <3> QED
      BY <2>1, <3>1, <3>2 DEF Homed, MappedIn, PagesOf
  <2>12. ASSUME NEW n \in Names, NEW s \in Slot, Maps(n, s)
         PROVE  Homed(seglist', vm')
    <3>1. PICK seg, size, a :
            /\ Prepared(s, seg) /\ a \in Places(seg, size)
            /\ Changed(seglist, seglist', s, [seg EXCEPT !.start = a])
            /\ vm' = [p \in Pages |-> IF p \in PagesIn(a, seg.length)
                                      THEN [owner |-> s, prot |-> MapProt(seg)] ELSE vm[p]]
      BY <2>12 DEF Maps
    <3>2. s \notin MappedIn(seglist)
      BY <2>12 DEF Maps, IsMapped, MappedIn, Used
    <3>3. a \in {p * PageSize : p \in Pages}
      BY <3>1 DEF Places
    <3>4. a # MAP_FAILED
      BY <3>3, PageAddress
    <3>5. [seg EXCEPT !.start = a].start = a /\ [seg EXCEPT !.start = a].length = seg.length
      BY <3>1 DEF Prepared, Segment
    <3>6. s \in MappedIn(seglist') /\ PagesOf(seglist', s) = PagesIn(a, seg.length)
      BY <3>1, <3>4, <3>5 DEF Changed, MappedIn, PagesOf
    <3>7. \A t \in MappedIn(seglist) : t \in MappedIn(seglist') /\ PagesOf(seglist', t) = PagesOf(seglist, t)
      BY <3>1, <3>2 DEF Changed, Same, MappedIn, PagesOf
    <3> QED
      BY <3>1, <3>6, <3>7 DEF Homed
  <2>13. ASSUME NEW n \in Names, NEW s \in Slot, MapFails(n, s)
         PROVE  Homed(seglist', vm')
    <3>1. PICK seg : Changed(seglist, seglist', s, seg)
      BY <2>13 DEF MapFails
    <3>2. s \notin MappedIn(seglist) /\ vm' = vm
      BY <2>13 DEF MapFails, IsMapped, MappedIn, Used, kernel
    <3>3. \A t \in MappedIn(seglist) : t \in MappedIn(seglist') /\ PagesOf(seglist', t) = PagesOf(seglist, t)
      BY <3>1, <3>2 DEF Changed, Same, MappedIn, PagesOf
    <3> QED
      BY <3>2, <3>3 DEF Homed
  <2>14. ASSUME NEW n \in Names, NEW s \in Slot, Protects(n, s)
         PROVE  Homed(seglist', vm')
    <3>1. PICK prot : /\ Changed(seglist, seglist', s, [seglist[s] EXCEPT !.prot = prot])
                      /\ vm' = Protected(PagesIn(seglist[s].start, seglist[s].length), prot)
      BY <2>14 DEF Protects
    <3>2. seglist[s] \in Segment
      BY <2>14, GoodTable DEF Protects, Means
    <3>3. /\ [seglist[s] EXCEPT !.prot = prot].start = seglist[s].start
          /\ [seglist[s] EXCEPT !.prot = prot].length = seglist[s].length
      BY <3>2 DEF Segment
    <3>4. \A t \in MappedIn(seglist) : t \in MappedIn(seglist') /\ PagesOf(seglist', t) = PagesOf(seglist, t)
      BY <3>1, <3>3 DEF Changed, Same, MappedIn, PagesOf
    <3>5. \A p \in Pages : vm'[p].owner = vm[p].owner
      BY <2>5, <3>1
    <3> QED
      BY <3>4, <3>5 DEF Homed
  <2>15. ASSUME NEW n \in Names, NEW s \in Slot, ProtectFails(n, s) \/ Uses(n, s)
         PROVE  Homed(seglist', vm')
    <3>1. \A p \in Pages : vm'[p].owner = vm[p].owner
      BY <2>5, <2>15 DEF ProtectFails, Uses, kernel
    <3> QED
      BY <2>3, <2>15, <3>1 DEF ProtectFails, Uses
  <2> QED
    BY <2>0, <2>7, <2>8, <2>9, <2>10, <2>11, <2>12, <2>13, <2>14, <2>15 DEF Effect
<1> QED
  BY <1>1, <1>2

(***************************************************************************)
(* No mapping is orphaned, whatever the user maps, remaps, protects or     *)
(* maps over at a fixed address: a page some segment mapped lies in the    *)
(* range that segment records.                                             *)
(***************************************************************************)
THEOREM NoOrphan == Spec => []NoOrphanPage
<1>1. Init => Homed(seglist, vm)
  BY MaxNat DEF Init, Homed, Free, Null, Slot, Task
<1>2. TableInv /\ Homed(seglist, vm) /\ [Next]_vars => Homed(seglist, vm)'
  BY HomedStep
<1>3. Homed(seglist, vm) => NoOrphanPage
  BY HomedIs
<1> QED
  BY <1>1, <1>2, <1>3, TableInit, TableStep, PTL DEF Spec

\* MappedIntact, said of the slots in use, and the pages of the lines of the
\* task's maps that have not been read yet.
Owner(L, s) == IF "maps" \in L[s].flags THEN Task ELSE s

Holds(L, v, s) ==
    \A p \in PagesOf(L, s) :
        /\ v[p].owner = Owner(L, s)
        /\ L[s].type # "shm" /\ "maps" \notin L[s].flags => v[p].prot = L[s].prot

Intact(L, v) == \A s \in MappedIn(L) : Holds(L, v, s)

LinesOwned ==
    \A i \in DOMAIN maps : \A p \in PagesIn(maps[i].start, maps[i].length) : vm[p].owner = Task

IntactInv == Alive => Intact(seglist, vm) /\ LinesOwned

\* MappedIntact, of the list and the address space alone.
LEMMA IntactIs == MappedIntact <=> (Alive => Intact(seglist, vm))
BY DEF MappedIntact, Intact, Holds, MappedIn, PagesOf, IsMapped, IsMaps, OwnerOf, Owner, Used

\* Two mapped segments share a page only if both are of the task's image.
LEMMA Disjoint ==
    ASSUME Intact(seglist, vm), NEW s \in MappedIn(seglist), NEW t \in MappedIn(seglist), s # t,
           s \in Slot, t \in Slot, NEW p, p \in PagesOf(seglist, s), p \in PagesOf(seglist, t)
    PROVE  "maps" \in seglist[s].flags /\ "maps" \in seglist[t].flags
<1>1. vm[p].owner = Owner(seglist, s) /\ vm[p].owner = Owner(seglist, t)
  BY DEF Intact, Holds
<1>2. s # Task /\ t # Task
  BY MaxNat DEF Slot, Task
<1> QED
  BY <1>1, <1>2 DEF Owner

\* Every step keeps IntactInv.
LEMMA IntactStep ==
    ASSUME NoFixed, TableInv, ListFacts, IntactInv, [Next]_vars
    PROVE  IntactInv'
<1>1. CASE UNCHANGED vars
  BY <1>1 DEF vars, IntactInv, Alive, LinesOwned
<1>2. CASE Next
  <2>0. Effect
    BY <1>2, Effects
  <2>1. MappedIn(seglist) \subseteq Used(seglist) /\ Used(seglist) \subseteq Slot
    BY GoodTable DEF MappedIn
  <2>2. \A L, s : PagesOf(L, s) \subseteq Pages
    BY DEF PagesOf, PagesIn
  <2>3. ASSUME Kept(seglist, seglist'), Intact(seglist, vm)
        PROVE  Intact(seglist', vm)
    BY <2>1, <2>3 DEF Kept, Same, Intact, Holds, MappedIn, PagesOf, Owner
  <2>4. ASSUME NEW s, NEW seg, Added(seglist, seglist', s, seg), Intact(seglist, vm),
               seg.start # MAP_FAILED => Holds(seglist', vm, s)
        PROVE  Intact(seglist', vm)
    BY <2>1, <2>4 DEF Added, Same, Intact, Holds, MappedIn, PagesOf, Owner
  <2>5. CASE ~Alive'
    BY <2>5 DEF IntactInv
  <2>6. maps = <<>> /\ UNCHANGED maps => LinesOwned'
    BY DEF LinesOwned
  <2>7. CASE Loads
    <3>1. /\ maps \in Seq(TaskLine) /\ maps # <<>> /\ maps' = Tail(maps) /\ vm' = vm /\ Alive
      BY <2>7 DEF TableInv, LinesOK, Loads, kernel, Alive
    <3>2. /\ Head(maps) \in TaskLine /\ Head(maps) = maps[1]
          /\ maps' \in Seq(TaskLine) /\ Len(maps') = Len(maps) - 1
          /\ \A i \in 1 .. Len(maps') : maps'[i] = maps[i + 1]
      BY <3>1, HeadTailProperties
    <3>3. /\ DOMAIN maps = 1 .. Len(maps) /\ DOMAIN maps' = 1 .. Len(maps')
          /\ Len(maps) \in Nat /\ Len(maps') \in Nat
      BY <3>1, <3>2, LenProperties
    <3>4. 1 \in DOMAIN maps /\ \A i \in DOMAIN maps' : i + 1 \in DOMAIN maps
      BY <3>2, <3>3
    <3>5. LinesOwned'
      BY <3>1, <3>2, <3>3, <3>4 DEF IntactInv, LinesOwned
    <3> DEFINE seg == TaskSegment(Head(maps))
    <3>6. /\ seg.start = Head(maps).start /\ seg.length = Head(maps).length
          /\ seg.flags = {"private", "maps"}
      BY <3>2, TaskSegmentIs
    <3> HIDE DEF seg
    <3>7. \A p \in PagesIn(seg.start, seg.length) : vm[p].owner = Task
      BY <3>1, <3>2, <3>4, <3>6 DEF IntactInv, LinesOwned
    <3>8. ASSUME NEW s, Added(seglist, seglist', s, seg)
          PROVE  Intact(seglist', vm)
      <4>1. Holds(seglist', vm, s)
        BY <3>6, <3>7, <3>8 DEF Added, Holds, PagesOf, Owner
      <4> QED
        BY <2>4, <3>1, <3>8, <4>1 DEF IntactInv
    <3>9. Intact(seglist', vm)
      BY <2>3, <2>7, <3>1, <3>8 DEF Loads, IntactInv, seg
    <3> QED
      BY <3>1, <3>5, <3>9 DEF IntactInv
  <2>8. CASE Spins \/ Resizes
    <3>1. Kept(seglist, seglist') /\ vm' = vm /\ Running /\ UNCHANGED maps
      BY <2>8 DEF Spins, Resizes, kernel, Kept, Same
    <3> QED
      BY <2>3, <2>6, <3>1 DEF IntactInv, Running, Alive
  <2>9. CASE Dies \/ Exits
    BY <2>5, <2>9 DEF Dies, DieBySignal, Exits, Alive
  <2>10. ASSUME NEW n \in Names, Answers(n)
         PROVE  IntactInv'
    BY <2>3, <2>6, <2>10 DEF Answers, kernel, IntactInv, Running, Alive
  <2>11. ASSUME NEW n \in Names, AddsAnon(n) \/ AddsFile(n) \/ AddsShm(n)
         PROVE  IntactInv'
    <3>1. PICK s, seg : Added(seglist, seglist', s, seg) /\ seg.start = MAP_FAILED
      <4>1. CASE AddsAnon(n)
        <5>1. PICK s \in Slot, o \in Size, l \in Size, sh \in Shares :
                Added(seglist, seglist', s, NewSegment("anon", n, o, l, {sh}))
          BY <4>1 DEF AddsAnon
        <5>2. NewSegment("anon", n, o, l, {sh}).start = MAP_FAILED
          BY ShareFlags, NewSegmentIs
        <5> QED
          BY <5>1, <5>2
      <4>2. CASE AddsFile(n)
        <5>1. PICK s \in Slot, o \in Size, l \in Size, sh \in Shares, fd \in Fds, prot \in FileProts :
                Added(seglist, seglist', s, Opened(NewSegment("file", n, o, l, {sh}), fd, prot))
          BY <4>2 DEF AddsFile
        <5>2. Opened(NewSegment("file", n, o, l, {sh}), fd, prot).start = MAP_FAILED
          BY OpenedIs
        <5> QED
          BY <5>1, <5>2
      <4>3. CASE AddsShm(n)
        <5>1. PICK s \in Slot, l \in Size, huge \in BOOLEAN, id \in ShmIds :
                Added(seglist, seglist', s, Created(n, l, huge, id))
          BY <4>3 DEF AddsShm
        <5>2. Created(n, l, huge, id).start = MAP_FAILED
          BY ShmSegmentIs
        <5> QED
          BY <5>1, <5>2
      <4> QED
        BY <2>11, <4>1, <4>2, <4>3
    <3>2. Running /\ vm' = vm /\ UNCHANGED <<maps, phase>>
      BY <2>11 DEF AddsAnon, AddsFile, AddsShm, kernel
    <3> QED
      BY <2>4, <2>6, <3>1, <3>2 DEF IntactInv, Running, Alive
  <2>12. ASSUME NEW n \in Names, NEW s \in Slot, Unmaps(n, s) \/ Removes(n, s)
         PROVE  IntactInv'
    <3>1. /\ Running /\ UNCHANGED <<maps, phase>> /\ vm' = Unmapped(s)
          /\ s \in Used(seglist) /\ "maps" \notin seglist[s].flags /\ seglist[s] \in Segment
      BY <2>12, GoodTable DEF Unmaps, Removes, Means, IsMaps
    <3>2. Intact(seglist, vm)
      BY <3>1 DEF IntactInv, Running, Alive
    <3>3. s \notin MappedIn(seglist')
      <4>1. [seglist[s] EXCEPT !.start = MAP_FAILED].start = MAP_FAILED
        BY <3>1 DEF Segment
      <4> QED
        BY <2>12, <4>1 DEF Unmaps, Removes, Changed, Dropped, MappedIn
    <3>4. ASSUME NEW t \in MappedIn(seglist')
          PROVE  t \in MappedIn(seglist) /\ t # s /\ seglist'[t] = seglist[t] /\ t \in Slot
      BY <2>1, <2>12, <3>3 DEF Unmaps, Removes, Changed, Dropped, Same, MappedIn
    <3>5. \A p \in Pages \ PagesOf(seglist, s) : vm'[p] = vm[p]
      BY <3>1 DEF Unmapped, PagesOf
    <3>6. seglist[s].start = MAP_FAILED => vm' = vm
      BY <3>1 DEF Unmapped
    <3>7. ASSUME NEW t \in MappedIn(seglist'), NEW p \in PagesOf(seglist, t)
          PROVE  vm'[p] = vm[p]
      <4>1. CASE s \in MappedIn(seglist)
        <5>1. p \notin PagesOf(seglist, s)
          BY <3>1, <3>2, <3>4, <3>7, <4>1, Disjoint
        <5> QED
          BY <2>2, <3>5, <3>7, <5>1
      <4>2. CASE s \notin MappedIn(seglist)
        BY <3>1, <3>6, <4>2 DEF MappedIn
      <4> QED
        BY <4>1, <4>2
    <3>8. Intact(seglist', vm')
      BY <3>2, <3>4, <3>7 DEF Intact, Holds, PagesOf, Owner
    <3> QED
      BY <2>6, <3>1, <3>8 DEF IntactInv, Running
  <2>13. ASSUME NEW n \in Names, NEW s \in Slot, Maps(n, s)
         PROVE  IntactInv'
    <3>1. PICK seg, size, a :
            /\ Prepared(s, seg) /\ a \in Places(seg, size)
            /\ Changed(seglist, seglist', s, [seg EXCEPT !.start = a])
            /\ vm' = [p \in Pages |-> IF p \in PagesIn(a, seg.length)
                                      THEN [owner |-> s, prot |-> MapProt(seg)] ELSE vm[p]]
      BY <2>13 DEF Maps
    <3>2. /\ Running /\ UNCHANGED <<maps, phase>> /\ s \in Used(seglist) /\ ~IsMapped(s)
          /\ s \notin MappedIn(seglist)
      BY <2>13 DEF Maps, Means, IsMapped, MappedIn, Used
    <3>3. Intact(seglist, vm)
      BY <3>2 DEF IntactInv, Running, Alive
    <3>4. SegFacts(seg) /\ "maps" \notin seg.flags
      BY <3>1, <3>2, MapFacts
    <3>5. \A p \in PagesIn(a, seg.length) : vm[p] = Free
      <4>1. ~(seg.type = "anon" /\ seg.offset # 0)
        BY <3>4 DEF SegFacts
      <4> QED
        BY <3>1, <4>1 DEF Places
    <3> DEFINE new == [seg EXCEPT !.start = a]
    <3>6. /\ new.start = a /\ new.length = seg.length /\ new.flags = seg.flags
          /\ new.type = seg.type /\ new.prot = seg.prot
      BY <3>1 DEF Prepared, Segment
    <3>7. Changed(seglist, seglist', s, new)
      BY <3>1
    <3> HIDE DEF new
    <3>8. Holds(seglist', vm', s)
      <4>1. PagesOf(seglist', s) = PagesIn(a, seg.length) /\ seglist'[s] = new
        BY <3>6, <3>7 DEF Changed, PagesOf
      <4>2. \A p \in PagesIn(a, seg.length) : vm'[p] = [owner |-> s, prot |-> MapProt(seg)]
        BY <3>1 DEF PagesIn
      <4> QED
        BY <3>4, <3>6, <4>1, <4>2 DEF Holds, Owner, MapProt
    <3>9. ASSUME NEW t \in MappedIn(seglist'), t # s
          PROVE  Holds(seglist', vm', t)
      <4>1. t \in MappedIn(seglist) /\ seglist'[t] = seglist[t] /\ t \in Slot
        BY <2>1, <3>7, <3>9 DEF Changed, Same, MappedIn
      <4>2. \A p \in PagesOf(seglist, t) : vm[p].owner # Null
        BY <3>3, <4>1, MaxNat DEF Intact, Holds, Owner, Null, Task, Slot
      <4>3. \A p \in PagesOf(seglist, t) : vm'[p] = vm[p]
        BY <2>2, <3>1, <3>5, <4>2 DEF Free
      <4> QED
        BY <3>3, <4>1, <4>3 DEF Intact, Holds, PagesOf, Owner
    <3>10. Intact(seglist', vm')
      BY <3>8, <3>9 DEF Intact
    <3> QED
      BY <2>6, <3>2, <3>10 DEF IntactInv, Running
  <2>14. ASSUME NEW n \in Names, NEW s \in Slot, MapFails(n, s)
         PROVE  IntactInv'
    <3>1. PICK seg : Prepared(s, seg) /\ Changed(seglist, seglist', s, seg)
      BY <2>14 DEF MapFails
    <3>2. Running /\ UNCHANGED <<maps, phase, vm>> /\ s \in Used(seglist) /\ seglist[s].start = MAP_FAILED
      BY <2>14 DEF MapFails, kernel, Means, IsMapped, Used
    <3>3. seg.start = MAP_FAILED
      BY <3>1, <3>2 DEF Prepared, SameOwner
    <3>4. \A t \in MappedIn(seglist') : t \in MappedIn(seglist) /\ seglist'[t] = seglist[t]
      BY <3>1, <3>3 DEF Changed, Same, MappedIn
    <3>5. Intact(seglist', vm')
      BY <3>2, <3>4 DEF IntactInv, Running, Alive, Intact, Holds, PagesOf, Owner
    <3> QED
      BY <2>6, <3>2, <3>5 DEF IntactInv, Running
  <2>15. ASSUME NEW n \in Names, NEW s \in Slot, Protects(n, s)
         PROVE  IntactInv'
    <3>1. PICK prot : /\ Changed(seglist, seglist', s, [seglist[s] EXCEPT !.prot = prot])
                      /\ vm' = Protected(PagesIn(seglist[s].start, seglist[s].length), prot)
      BY <2>15 DEF Protects
    <3>2. /\ Running /\ UNCHANGED <<maps, phase>> /\ s \in MappedIn(seglist) /\ seglist[s] \in Segment
          /\ vm \in [Pages -> [owner : {Null, Task} \cup Slot, prot : SUBSET {"r", "w", "x"}]]
      BY <2>15, GoodTable DEF Protects, Means, MappedIn, TableInv, TypeOK
    <3>3. Intact(seglist, vm)
      BY <3>2 DEF IntactInv, Running, Alive
    <3> DEFINE new == [seglist[s] EXCEPT !.prot = prot]
    <3>4. /\ new.start = seglist[s].start /\ new.length = seglist[s].length
          /\ new.flags = seglist[s].flags /\ new.type = seglist[s].type /\ new.prot = prot
      BY <3>2 DEF Segment
    <3>5. Changed(seglist, seglist', s, new)
      BY <3>1
    <3> HIDE DEF new
    <3>6. \A p \in PagesOf(seglist, s) : vm'[p].owner = vm[p].owner /\ vm'[p].prot = prot
      <4>1. \A p \in PagesOf(seglist, s) : vm'[p] = [vm[p] EXCEPT !.prot = prot]
        BY <2>2, <3>1 DEF Protected, PagesOf
      <4> QED
        BY <2>2, <3>2, <4>1
    <3>7. \A p \in Pages \ PagesOf(seglist, s) : vm'[p] = vm[p]
      BY <3>1 DEF Protected, PagesOf
    <3>8. Holds(seglist', vm', s)
      BY <3>2, <3>3, <3>4, <3>5, <3>6 DEF Changed, Intact, Holds, PagesOf, Owner
    <3>9. ASSUME NEW t \in MappedIn(seglist'), t # s
          PROVE  Holds(seglist', vm', t)
      <4>1. t \in MappedIn(seglist) /\ seglist'[t] = seglist[t] /\ t \in Slot
        BY <2>1, <3>5, <3>9 DEF Changed, Same, MappedIn
      <4>2. \A p \in PagesOf(seglist, t) \cap PagesOf(seglist, s) : "maps" \in seglist[t].flags
        BY <3>2, <3>3, <3>9, <4>1, Disjoint
      <4>3. ASSUME NEW p \in PagesOf(seglist, t)
            PROVE  /\ vm'[p].owner = vm[p].owner
                   /\ "maps" \notin seglist[t].flags => vm'[p].prot = vm[p].prot
        BY <2>2, <3>6, <3>7, <4>2
      <4> QED
        BY <3>3, <4>1, <4>3 DEF Intact, Holds, PagesOf, Owner
    <3>10. Intact(seglist', vm')
      BY <3>8, <3>9 DEF Intact
    <3> QED
      BY <2>6, <3>2, <3>10 DEF IntactInv, Running
  <2>16. ASSUME NEW n \in Names, NEW s \in Slot, ProtectFails(n, s)
         PROVE  IntactInv'
    <3>1. PICK prot \in SUBSET {"r", "w", "x"}, S \in SUBSET PagesOf(seglist, s) :
            /\ S # {} => \E p \in PagesOf(seglist, s) : vm[p] = Free
            /\ vm' \in {vm, Protected(S, prot)}
      BY <2>16 DEF ProtectFails, PagesOf
    <3>2. /\ Running /\ UNCHANGED <<maps, phase>> /\ s \in Used(seglist) /\ Kept(seglist, seglist')
          /\ vm \in [Pages -> [owner : {Null, Task} \cup Slot, prot : SUBSET {"r", "w", "x"}]]
      BY <2>16 DEF ProtectFails, Means, TableInv, TypeOK
    <3>3. Intact(seglist, vm)
      BY <3>2 DEF IntactInv, Running, Alive
    <3>4. S = {}
      <4>1. CASE s \in MappedIn(seglist)
        <5>1. \A p \in PagesOf(seglist, s) : vm[p].owner # Null
          BY <2>16, <3>3, <4>1, MaxNat DEF Intact, Holds, Owner, Null, Task, Slot
        <5> QED
          BY <3>1, <5>1 DEF Free
      <4>2. CASE s \notin MappedIn(seglist)
        <5>1. seglist[s].start = Word - 1 /\ seglist[s] \in Segment
          BY <3>2, <4>2, GoodTable DEF MappedIn, MAP_FAILED
        <5>2. \A p \in Pages : p * PageSize \in Size /\ p * PageSize # Word - 1
          BY PageAddress DEF MAP_FAILED
        <5>3. PagesOf(seglist, s) = {}
          BY <5>1, <5>2, WordAssumption DEF PagesOf, PagesIn, Size
        <5> QED
          BY <5>3
      <4> QED
        BY <4>1, <4>2
    <3>5. Protected(S, prot) = vm
      BY <3>2, <3>4 DEF Protected
    <3> QED
      BY <2>3, <2>6, <3>1, <3>2, <3>3, <3>5 DEF IntactInv, Running
  <2>17. ASSUME NEW n \in Names, NEW s \in Slot, Uses(n, s)
         PROVE  IntactInv'
    BY <2>3, <2>6, <2>17 DEF Uses, Means, kernel, IntactInv, Running, Alive
  <2> QED
    BY <2>0, <2>7, <2>8, <2>9, <2>10, <2>11, <2>12, <2>13, <2>14, <2>15, <2>16, <2>17 DEF Effect
<1> QED
  BY <1>1, <1>2

\* The pages of the task's own image are the task's when the program starts.
LEMMA IntactInit == Init => IntactInv
<1> SUFFICES ASSUME Init PROVE IntactInv
  OBVIOUS
<1>1. Intact(seglist, vm)
  BY DEF Init, Intact, MappedIn, Used
<1>2. LinesOwned
  <2> SUFFICES ASSUME NEW i \in DOMAIN maps, NEW p \in PagesIn(maps[i].start, maps[i].length)
               PROVE  vm[p].owner = Task
    BY DEF LinesOwned
  <2>1. p \in Pages /\ p \in TaskPages
    BY DEF Init, TaskPages, PagesIn
  <2> QED
    BY <2>1 DEF Init
<1> QED
  BY <1>1, <1>2 DEF IntactInv

(***************************************************************************)
(* While nobody asks for fixed addresses, a mapped segment keeps every     *)
(* page it records, with the protection "show" prints, whatever is done to *)
(* the other segments: no operation takes or changes another's page.       *)
(***************************************************************************)
THEOREM MappingsIntact ==
    ASSUME NoFixed
    PROVE  Spec => []MappedIntact
<1>1. TableInv /\ ListFacts /\ [Next]_vars => ListFacts'
  BY FactsStep
<1>2. TableInv /\ ListFacts /\ IntactInv /\ [Next]_vars => IntactInv'
  BY IntactStep
<1>3. IntactInv => MappedIntact
  BY IntactIs DEF IntactInv
<1> QED
  BY <1>1, <1>2, <1>3, IntactInit, FactsInit, TableInit, TableStep, PTL DEF Spec

-----------------------------------------------------------------------------
(***************************************************************************)
(* Calls.                                                                  *)
(***************************************************************************)

\* The system's page sizes: a huge page is a whole number of pages.
HugeAligned == HugePageSize % PageSize = 0

\* The offset a range begins at is a whole number of pages.
LEMMA OffsetAligned ==
    ASSUME HugeAligned, NEW o \in Size, NEW ps \in {0, PageSize, HugePageSize}
    PROVE  ClipOffset(o, ps) % PageSize = 0
<1>1. o \in Nat /\ PageSize \in Nat \ {0} /\ HugePageSize \in Nat
  BY TableAssumption, WordAssumption DEF Size
<1>2. CASE ps = 0
  <2>1. (0 * PageSize) % PageSize = 0 /\ 0 * PageSize = 0
    BY <1>1, MultMod
  <2> QED
    BY <1>2, <2>1 DEF ClipOffset, round_down
<1>3. CASE ps = PageSize
  BY <1>1, <1>3, RoundMod DEF ClipOffset
<1>4. CASE ps = HugePageSize /\ ps # 0
  <2>1. round_down(o, ps) \in Nat /\ round_down(o, ps) % ps = 0 /\ ps \in Nat \ {0}
    BY <1>1, <1>4, RoundMod, RoundDown
  <2> QED
    BY <1>1, <1>4, <2>1, TransMod DEF ClipOffset, HugeAligned
<1> QED
  BY <1>2, <1>3, <1>4

\* A range of a mapped segment, clipped.
LEMMA ClippedInside ==
    ASSUME HugeAligned, LinesInside, TableInv, ListFacts,
           NEW s \in MappedIn(seglist), NEW o \in Offsets, NEW l \in Size, Accepted(s, o)
    PROVE  /\ CallLength(s, o, l) > 0 /\ CallStart(s, o) % PageSize = 0
           /\ CallStart(s, o) + CallLength(s, o, l) =< (NPages + 1) * PageSize
           /\ PagesIn(CallStart(s, o), CallLength(s, o, l)) \subseteq PagesOf(seglist, s)
<1> DEFINE seg == seglist[s]
           off == ClipOffset(o, seg.pagesize)
           len == ClipLength(o, l, seg.length, seg.pagesize)
           top == (NPages + 1) * PageSize
<1>1. seg \in Segment /\ SegFacts(seg) /\ seg.start # MAP_FAILED
  BY GoodTable DEF MappedIn, ListFacts
<1> HIDE DEF seg
<1>2. /\ seg.start \in Size /\ seg.length \in Size /\ seg.pagesize \in Size /\ o \in Size
      /\ seg.pagesize \in {0, PageSize, HugePageSize} /\ Inside(seg.start, seg.length)
  BY <1>1, TableAssumption DEF Segment, SegFacts
<1>3. RangeAccepted(o, seg.length, seg.pagesize)
  BY DEF Accepted, seg
<1>4. off \in Size /\ len \in Size /\ len > 0 /\ off + len =< seg.length
  BY <1>2, <1>3, ClipSize, ClipInSegment
<1>5. off % PageSize = 0
  BY <1>2, OffsetAligned
<1>6. top < Word /\ top \in Nat /\ seg.start + seg.length =< top /\ seg.start % PageSize = 0
      /\ PageSize \in Nat \ {0}
  BY <1>2, TableAssumption DEF Inside
<1> HIDE DEF off, len, top
<1>7. seg.start \in Nat /\ seg.length \in Nat /\ off \in Nat /\ len \in Nat /\ Word \in Nat
  BY <1>2, <1>4, WordAssumption DEF Size
<1>8. seg.start + off \in 0 .. Word - 1
  BY <1>4, <1>6, <1>7
<1>9. (seg.start + off) % Word = seg.start + off
  BY <1>8, WordAssumption
<1>10. (seg.start + off) % PageSize = 0
  BY <1>5, <1>6, <1>7, SumMod
<1>11. CallStart(s, o) = seg.start + off /\ CallLength(s, o, l) = len
  BY <1>9 DEF CallStart, CallLength, seg, off, len
<1>12. PagesIn(seg.start + off, len) \subseteq PagesIn(seg.start, seg.length)
  <2>1. \A p \in Pages : p * PageSize \in Nat
    BY <1>6 DEF Pages
  <2> QED
    BY <1>4, <1>7, <2>1 DEF PagesIn
<1>13. seg.start + off + len =< top
  BY <1>4, <1>6, <1>7
<1> QED
  BY <1>4, <1>10, <1>11, <1>12, <1>13 DEF PagesOf, seg, top

\* Every step keeps CallsInside.
LEMMA CallStep ==
    ASSUME NoFixed, HugeAligned, LinesInside, TableInv, ListFacts, IntactInv, CallsInside, [Next]_vars
    PROVE  CallsInside'
<1>1. CASE UNCHANGED <<seglist, vm, call>>
  BY <1>1 DEF CallsInside, IsMapped, OwnerOf, IsMaps
<1>2. CASE call' = NoCall
  BY <1>2 DEF CallsInside, NoCall
<1>3. CASE UNCHANGED vars
  BY <1>1, <1>3 DEF vars
<1>4. CASE Next
  <2>0. Effect
    BY <1>4, Effects
  <2>1. CASE Resizes
    BY <1>1, <2>1 DEF Resizes
  <2>2. CASE Loads \/ Spins \/ Dies \/ Exits
    BY <1>2, <2>2 DEF Loads, Spins, Dies, DieBySignal, Exits
  <2>3. ASSUME NEW n \in Names, Answers(n) \/ AddsAnon(n) \/ AddsFile(n) \/ AddsShm(n)
        PROVE  CallsInside'
    BY <1>2, <2>3 DEF Answers, AddsAnon, AddsFile, AddsShm
  <2>4. ASSUME NEW n \in Names, NEW s \in Slot,
               \/ Unmaps(n, s) \/ Removes(n, s) \/ Maps(n, s) \/ MapFails(n, s)
               \/ Protects(n, s) \/ ProtectFails(n, s)
        PROVE  CallsInside'
    BY <1>2, <2>4 DEF Unmaps, Removes, Maps, MapFails, Protects, ProtectFails
  <2>5. ASSUME NEW n \in Names, NEW s \in Slot, Uses(n, s)
        PROVE  CallsInside'
    <3>1. PICK op \in {"touch", "sys"}, o \in Offsets, l \in Size :
            /\ op = "sys" => IsMapped(s)
            /\ Accepted(s, o)
            /\ call' = [op |-> op, slot |-> s, start |-> CallStart(s, o),
                        length |-> CallLength(s, o, l)]
      BY <2>5 DEF Uses
    <3>2. /\ Running /\ s \in Used(seglist) /\ vm' = vm
          /\ seglist'[s] = seglist[s]
      BY <2>5 DEF Uses, Means, kernel, Kept, Same
    <3>3. Intact(seglist, vm)
      BY <3>2 DEF IntactInv, Running, Alive
    <3>4. /\ call'.op = op /\ call'.slot = s /\ call'.start = CallStart(s, o)
          /\ call'.length = CallLength(s, o, l)
      BY <3>1
    <3>5. CASE s \in MappedIn(seglist)
      <4>1. /\ call'.length > 0 /\ call'.start % PageSize = 0
            /\ call'.start + call'.length =< (NPages + 1) * PageSize
            /\ PagesIn(call'.start, call'.length) \subseteq PagesOf(seglist, s)
        BY <3>1, <3>4, <3>5, ClippedInside
      <4>2. \A p \in PagesOf(seglist, s) : vm'[p].owner = Owner(seglist, s)
        BY <3>2, <3>3, <3>5 DEF Intact, Holds
      <4>3. OwnerOf(s)' = Owner(seglist, s)
        BY <3>2 DEF OwnerOf, IsMaps, Owner
      <4> QED
        BY <3>4, <4>1, <4>2, <4>3 DEF CallsInside, OwnerOf, IsMaps
    <3>6. CASE s \notin MappedIn(seglist)
      <4>1. ~IsMapped(s) /\ ~(seglist'[s].type # "none" /\ seglist'[s].start # MAP_FAILED)
        BY <3>2, <3>6 DEF IsMapped, MappedIn, Used
      <4> QED
        BY <3>1, <3>4, <4>1 DEF CallsInside, IsMapped
    <3> QED
      BY <3>5, <3>6
  <2> QED
    BY <2>0, <2>1, <2>2, <2>3, <2>4, <2>5 DEF Effect
<1> QED
  BY <1>3, <1>4

(***************************************************************************)
(* A range given to mbind, mlock or get_mempolicy, or touched in a mapped  *)
(* segment, is not empty, begins on a page and is memory of that segment:  *)
(* provided that nobody asks for fixed addresses, that huge pages are      *)
(* whole pages and that so are the lines of the task's own maps.           *)
(***************************************************************************)
THEOREM CallsInSegment ==
    ASSUME NoFixed, HugeAligned, LinesInside
    PROVE  Spec => []CallsInside
<1>1. TableInv /\ ListFacts /\ [Next]_vars => ListFacts'
  BY FactsStep
<1>2. TableInv /\ ListFacts /\ IntactInv /\ [Next]_vars => IntactInv'
  BY IntactStep
<1>3. TableInv /\ ListFacts /\ IntactInv /\ CallsInside /\ [Next]_vars => CallsInside'
  BY CallStep
<1>4. Init => CallsInside
  BY DEF Init, CallsInside, NoCall
<1> QED
  BY <1>1, <1>2, <1>3, <1>4, IntactInit, FactsInit, TableInit, TableStep, PTL DEF Spec

-----------------------------------------------------------------------------
(***************************************************************************)
(* SegmentTable implements SegmentNames.  The abstract table is a function *)
(* of the slots in use; what each effect of a step does to it is a step of *)
(* SegmentNames, or nothing.                                               *)
(***************************************************************************)
\* The refinement mapping: the abstract segs and phase.
Segs  == [n \in InUseNames |-> Abstraction(Lowest(Named(seglist, n)))]
Stage == IF ~Alive THEN "ended" ELSE IF maps # <<>> THEN "loading" ELSE "open"

\* The same, said of a list: what a name stands for.
View(seg)  == [type |-> seg.type, task |-> "maps" \in seg.flags, mapped |-> seg.start # MAP_FAILED]
NamesIn(L) == {L[s].name : s \in Used(L)}
Views(L, f) ==
    /\ f = [n \in NamesIn(L) |-> f[n]]
    /\ \A s \in Used(L) : f[L[s].name] = View(L[s])

-----------------------------------------------------------------------------
\* When names are unique, a name stands for the one segment that has it.
LEMMA SegsAre ==
    ASSUME TableInv, Unique(seglist)
    PROVE  Views(seglist, Segs)
<1>1. InUseNames = NamesIn(seglist)
  BY DEF InUseNames, InUse, NamesIn, Used
<1>2. ASSUME NEW s \in Used(seglist)
      PROVE  Segs[seglist[s].name] = View(seglist[s])
  <2> DEFINE n == seglist[s].name
             S == Named(seglist, n)
  <2>1. S = {s}
    BY DEF Named, Unique, Used
  <2>2. S \subseteq Nat
    BY GoodTable DEF Named
  <2>3. Lowest(S) \in S
    BY <2>1, <2>2, LowestIs
  <2>4. Lowest(S) = s
    BY <2>1, <2>3
  <2>5. n \in InUseNames
    BY <1>1 DEF NamesIn
  <2>6. Abstraction(s) = View(seglist[s])
    BY DEF Abstraction, View, IsMaps, IsMapped, Used
  <2> QED
    BY <2>4, <2>5, <2>6 DEF Segs
<1> QED
  BY <1>1, <1>2 DEF Views, Segs

\* A list has one such function.
LEMMA ViewsUnique ==
    ASSUME NEW L, NEW f, NEW g, Views(L, f), Views(L, g)
    PROVE  f = g
<1>1. f = [n \in NamesIn(L) |-> f[n]] /\ g = [n \in NamesIn(L) |-> g[n]]
  BY DEF Views
<1>2. \A n \in NamesIn(L) : f[n] = g[n]
  BY DEF Views, NamesIn
<1> QED
  BY <1>1, <1>2

\* Segs is a function.
LEMMA SegsFunction == Segs = [n \in DOMAIN Segs |-> Segs[n]]
BY DEF Segs

\* The abstract table has the names of the list.
LEMMA ViewsDomain ==
    ASSUME NEW L, NEW f, Views(L, f)
    PROVE  DOMAIN f = NamesIn(L)
BY DEF Views

-----------------------------------------------------------------------------
(***************************************************************************)
(* What the five things an operation does to a list do to the names.       *)
(***************************************************************************)
LEMMA KeptViews ==
    ASSUME NEW L, NEW M, NEW f, Views(L, f), Kept(L, M)
    PROVE  Views(M, f)
<1>1. NamesIn(M) = NamesIn(L)
  BY DEF NamesIn, Kept, Same
<1>2. \A s \in Used(M) : f[M[s].name] = View(M[s])
  BY DEF Views, Kept, Same
<1> QED
  BY <1>1, <1>2 DEF Views

\* f with one more name.
Extended(f, n, v) == [m \in DOMAIN f \cup {n} |-> IF m = n THEN v ELSE f[m]]

\* Adding a segment to the list adds its name to the abstract table.
LEMMA AddedViews ==
    ASSUME NEW L, NEW M, NEW f, Views(L, f), NEW s, NEW seg, Added(L, M, s, seg)
    PROVE  seg.name \notin DOMAIN f /\ Views(M, Extended(f, seg.name, View(seg)))
<1> DEFINE g == [m \in DOMAIN f \cup {seg.name} |-> IF m = seg.name THEN View(seg) ELSE f[m]]
<1>1. DOMAIN f = NamesIn(L)
  BY ViewsDomain
<1>2. seg.name \notin NamesIn(L)
  BY DEF Added, NamesIn
<1>3. NamesIn(M) = NamesIn(L) \cup {seg.name}
  <2>1. Used(M) = Used(L) \cup {s} /\ M[s] = seg /\ \A t \in Used(L) : M[t] = L[t]
    BY DEF Added, Same
  <2> QED
    BY <2>1 DEF NamesIn
<1>4. ASSUME NEW t \in Used(M)
      PROVE  g[M[t].name] = View(M[t])
  <2>1. CASE t = s
    BY <2>1 DEF Added
  <2>2. CASE t # s
    <3>1. t \in Used(L) /\ M[t] = L[t]
      BY <2>2 DEF Added, Same
    <3>2. L[t].name \in NamesIn(L) /\ f[L[t].name] = View(L[t])
      BY <3>1 DEF NamesIn, Views
    <3> QED
      BY <1>1, <1>2, <3>1, <3>2
  <2> QED
    BY <2>1, <2>2
<1>5. g = [m \in NamesIn(M) |-> g[m]]
  BY <1>1, <1>3
<1> HIDE DEF g
<1>6. Views(M, g)
  BY <1>4, <1>5 DEF Views
<1> QED
  BY <1>1, <1>2, <1>6 DEF g, Extended

\* Changing a segment in place changes the entry of its name.
LEMMA ChangedViews ==
    ASSUME NEW L, NEW M, NEW f, Unique(L), Views(L, f), NEW s, NEW seg, Changed(L, M, s, seg)
    PROVE  /\ seg.name \in DOMAIN f /\ f[seg.name] = View(L[s])
           /\ Views(M, [f EXCEPT ![seg.name] = View(seg)])
<1> DEFINE g == [f EXCEPT ![seg.name] = View(seg)]
<1>1. DOMAIN f = NamesIn(L)
  BY ViewsDomain
<1>2. s \in Used(L) /\ Used(M) = Used(L) /\ M[s] = seg /\ seg.name = L[s].name
      /\ \A t \in Used(L) \ {s} : M[t] = L[t]
  BY DEF Changed, Same
<1>3. seg.name \in NamesIn(L) /\ f[seg.name] = View(L[s])
  BY <1>2 DEF NamesIn, Views
<1>4. NamesIn(M) = NamesIn(L)
  BY <1>2 DEF NamesIn
<1>5. ASSUME NEW t \in Used(M)
      PROVE  g[M[t].name] = View(M[t])
  <2>1. CASE t = s
    BY <1>1, <1>2, <1>3, <2>1
  <2>2. CASE t # s
    <3>1. t \in Used(L) /\ M[t] = L[t] /\ L[t].name # seg.name
      BY <1>2, <2>2 DEF Unique
    <3>2. L[t].name \in NamesIn(L) /\ f[L[t].name] = View(L[t])
      BY <3>1 DEF NamesIn, Views
    <3> QED
      BY <1>1, <3>1, <3>2
  <2> QED
    BY <2>1, <2>2
<1>6. g = [m \in NamesIn(M) |-> g[m]]
  BY <1>1, <1>4
<1> HIDE DEF g
<1>7. Views(M, g)
  BY <1>5, <1>6 DEF Views
<1> QED
  BY <1>1, <1>3, <1>7 DEF g

\* Some segments are left, and with unique names also their names.
LEMMA LeftViews ==
    ASSUME NEW L, NEW M, NEW f, Unique(L), Views(L, f), NEW S,
           Used(M) = Used(L) \cap S, Same(L, M, Used(M))
    PROVE  Views(M, Restrict(f, {L[s].name : s \in Used(L) \cap S}))
<1> DEFINE R == {L[s].name : s \in Used(L) \cap S}
           g == [m \in R |-> f[m]]
<1>1. NamesIn(M) = R
  BY DEF NamesIn, Same
<1>2. ASSUME NEW t \in Used(M)
      PROVE  g[M[t].name] = View(M[t])
  <2>1. M[t] = L[t] /\ t \in Used(L) /\ L[t].name \in R
    BY DEF Same
  <2> QED
    BY <2>1 DEF Views
<1>3. g = [m \in NamesIn(M) |-> g[m]]
  BY <1>1
<1>4. Restrict(f, R) = g
  BY DEF Restrict
<1> HIDE DEF g, R
<1>5. Views(M, g)
  BY <1>2, <1>3 DEF Views
<1> QED
  BY <1>4, <1>5 DEF R

-----------------------------------------------------------------------------
(***************************************************************************)
(* Room.  There are as many names as slots in use, so there is room for    *)
(* another name exactly when some slot is not in use.                      *)
(***************************************************************************)
LEMMA NamesCount ==
    ASSUME TableInv, Unique(seglist)
    PROVE  /\ Cardinality(NamesIn(seglist)) \in Nat
           /\ Full(seglist) => Cardinality(NamesIn(seglist)) = MaxSegments
           /\ Used(seglist) # Slot => Cardinality(NamesIn(seglist)) < MaxSegments
<1> DEFINE U == Used(seglist)
           N == NamesIn(seglist)
           f == [s \in U |-> seglist[s].name]
<1>1. IsFiniteSet(Slot) /\ Cardinality(Slot) = MaxSegments
  <2>1. 1 \in Int /\ MaxSegments \in Int /\ ~(1 > MaxSegments) /\ MaxSegments - 1 + 1 = MaxSegments
    BY MaxNat
  <2> QED
    BY <2>1, FS_Interval DEF Slot
<1>2. U \in SUBSET Slot
  BY GoodTable
<1>3. /\ IsFiniteSet(U) /\ Cardinality(U) =< MaxSegments
      /\ Cardinality(U) = MaxSegments => U = Slot
  BY <1>1, <1>2, FS_Subset
<1>4. f \in Surjection(U, N)
  BY DEF Surjection, NamesIn
<1>5. f \in Injection(U, N)
  <2>1. f \in [U -> N]
    BY DEF NamesIn
  <2>2. \A a, b \in U : f[a] = f[b] => a = b
    BY DEF Unique
  <2> QED
    BY <2>1, <2>2 DEF Injection, IsInjective
<1> HIDE DEF f
<1>6. Cardinality(N) = Cardinality(U)
  BY <1>3, <1>4, <1>5, FS_Surjection
<1>7. Cardinality(U) \in Nat
  BY <1>3, FS_CardinalityType
<1> HIDE DEF U, N
<1>8. U = Slot => Cardinality(U) = MaxSegments
  BY <1>1
<1>9. U # Slot => Cardinality(U) < MaxSegments
  BY <1>3, <1>7, MaxNat
<1> QED
  BY <1>6, <1>7, <1>8, <1>9 DEF U, N, Full

-----------------------------------------------------------------------------
(***************************************************************************)
(* The steps of SegmentNames, said of Segs and Stage.                      *)
(***************************************************************************)
Step == Promise!Next

\* The abstract table's room, in terms of Segs.
LEMMA RoomIs == Promise!Room <=> Cardinality(DOMAIN Segs) < MaxSegments
BY DEF Promise!Room, Promise!Cardinality, Cardinality, Segs

\* An operation that leaves the table alone.
LEMMA UseStep ==
    ASSUME NEW n \in Names, Stage = "open", Stage' = "open", Segs' = Segs,
           ret' = "err" \/ (ret' = "ok" /\ n \in DOMAIN Segs)
    PROVE  Step
<1>1. Promise!Use(n)
  BY DEF Promise!Use, Promise!Says, Promise!Known, Segs, Stage
<1> QED
  BY <1>1 DEF Step, Promise!Next

\* A registration that finds the table full.
LEMMA NoRoomStep ==
    ASSUME NEW n \in Names, Stage = "open", Stage' = "open", Segs' = Segs,
           ret' = "full", n \notin DOMAIN Segs, ~(Cardinality(DOMAIN Segs) < MaxSegments)
    PROVE  Step
<1>1. Promise!Register(n, "anon")
  BY RoomIs DEF Promise!Register, Promise!Says, Promise!Known, Segs, Stage
<1> QED
  BY <1>1 DEF Step, Promise!Next, Promise!Types

\* A registration.
LEMMA RegisterStep ==
    ASSUME NEW n \in Names, NEW type \in {"anon", "file", "shm"},
           Stage = "open", Stage' = "open", ret' = "ok",
           n \notin DOMAIN Segs, Cardinality(DOMAIN Segs) < MaxSegments,
           Segs' = Extended(Segs, n, [type |-> type, task |-> FALSE, mapped |-> FALSE])
    PROVE  Step
<1>1. Promise!Register(n, type)
  BY RoomIs DEF Promise!Register, Promise!Says, Promise!Known, Promise!With, Extended, Segs, Stage
<1> QED
  BY <1>1 DEF Step, Promise!Next, Promise!Types

\* A line of the task's maps.
LEMMA LoadStep ==
    ASSUME NEW n \in Names, NEW type \in {"anon", "file", "shm"},
           Stage = "loading", ret' = "ok",
           \/ Segs' = Segs
           \/ /\ n \notin DOMAIN Segs /\ Cardinality(DOMAIN Segs) < MaxSegments
              /\ Segs' = Extended(Segs, n, [type |-> type, task |-> TRUE, mapped |-> TRUE])
    PROVE  Step
<1>0. Stage' \in {"loading", "open", "ended"}
  BY DEF Stage
<1>1. Promise!Load(n, type)
  BY <1>0, RoomIs DEF Promise!Load, Promise!Known, Promise!With, Extended, Segs, Stage
<1> QED
  BY <1>1 DEF Step, Promise!Next, Promise!Types

\* map and unmap.
LEMMA MapStep ==
    ASSUME NEW n \in Names, Stage = "open", Stage' = "open", ret' = "ok", n \in DOMAIN Segs,
           Segs' = [Segs EXCEPT ![n].mapped = TRUE]
    PROVE  Step
<1>1. Promise!Map(n)
  BY DEF Promise!Map, Promise!Says, Promise!Known, Segs, Stage
<1> QED
  BY <1>1 DEF Step, Promise!Next

\* An unmapped segment is an abstract unmap.
LEMMA UnmapStep ==
    ASSUME NEW n \in Names, Stage = "open", Stage' = "open", ret' = "ok", n \in DOMAIN Segs,
           ~Segs[n].task, Segs' = [Segs EXCEPT ![n].mapped = FALSE]
    PROVE  Step
<1>1. Promise!Unmap(n)
  BY DEF Promise!Unmap, Promise!Says, Promise!Known, Segs, Stage
<1> QED
  BY <1>1 DEF Step, Promise!Next

\* remove.
LEMMA RemoveStep ==
    ASSUME NEW n \in Names, Stage = "open", Stage' = "open", ret' = "ok", n \in DOMAIN Segs,
           ~Segs[n].task, Segs' = Restrict(Segs, DOMAIN Segs \ {n})
    PROVE  Step
<1>1. Promise!Remove(n)
  BY DEF Promise!Remove, Promise!Says, Promise!Known, Promise!Restrict, Restrict, Segs, Stage
<1> QED
  BY <1>1 DEF Step, Promise!Next

\* The end of the program.
LEMMA EndStep ==
    ASSUME Stage = "open", Stage' = "ended", ret' \in {"ok", "err", ret},
           \/ Segs' = Segs
           \/ Segs' = Restrict(Segs, {n \in DOMAIN Segs : Segs[n].type # "shm"})
    PROVE  Step
<1>1. Promise!End
  BY DEF Promise!End, Promise!Restrict, Restrict, Segs, Stage
<1> QED
  BY <1>1 DEF Step, Promise!Next

-----------------------------------------------------------------------------
(***************************************************************************)
(* Every step maps to a step of SegmentNames or to nothing.                *)
(***************************************************************************)

\* The mapping, before and after a step.
LEMMA SegsNow == TableInv /\ Unique(seglist) => Views(seglist, Segs)
BY SegsAre

\* SegsNow, after a step.
LEMMA SegsNext == (TableInv /\ Unique(seglist))' => Views(seglist, Segs)'
BY SegsNow, PTL

\* What the proof of a step may assume: the invariants before it, and the
\* mapping before and after it.
Mapped ==
    /\ TableInv /\ Unique(seglist) /\ ListFacts
    /\ Views(seglist, Segs) /\ Views(seglist', Segs')

\* A running program's stage is open.
LEMMA StageOpen ==
    ASSUME Running
    PROVE  /\ Stage = "open"
           /\ UNCHANGED <<maps, phase>> => Stage' = "open"
BY DEF Running, Stage, Alive

\* What the slots in use say of the abstract table.
LEMMA SegsOf ==
    ASSUME Mapped
    PROVE  /\ \A n : n \in DOMAIN Segs <=> Known(seglist, n)
           /\ \A s \in Used(seglist) : /\ seglist[s].name \in DOMAIN Segs
                                       /\ Segs[seglist[s].name] = View(seglist[s])
           /\ Full(seglist) => ~(Cardinality(DOMAIN Segs) < MaxSegments)
           /\ Used(seglist) # Slot => Cardinality(DOMAIN Segs) < MaxSegments
<1>1. DOMAIN Segs = NamesIn(seglist)
  BY ViewsDomain DEF Mapped
<1>2. \A n : n \in NamesIn(seglist) <=> Known(seglist, n)
  BY DEF NamesIn, Known, Named, Used
<1>3. \A s \in Used(seglist) : /\ seglist[s].name \in NamesIn(seglist)
                               /\ Segs[seglist[s].name] = View(seglist[s])
  BY DEF Mapped, Views, NamesIn
<1>4. /\ Full(seglist) => ~(Cardinality(NamesIn(seglist)) < MaxSegments)
      /\ Used(seglist) # Slot => Cardinality(NamesIn(seglist)) < MaxSegments
  BY NamesCount, MaxNat DEF Mapped
<1> QED
  BY <1>1, <1>2, <1>3, <1>4

\* A step that keeps the segments in use keeps the abstract table.
LEMMA KeptStep ==
    ASSUME Mapped, Kept(seglist, seglist')
    PROVE  Segs' = Segs
BY KeptViews, ViewsUnique DEF Mapped

\* A step that adds a segment adds its name, and had room for it.
LEMMA AddedStep ==
    ASSUME Mapped, NEW s \in Slot, NEW seg, Added(seglist, seglist', s, seg)
    PROVE  /\ seg.name \notin DOMAIN Segs /\ Cardinality(DOMAIN Segs) < MaxSegments
           /\ Segs' = Extended(Segs, seg.name, View(seg))
<1>1. s \notin Used(seglist)
  BY DEF Added
<1>2. Cardinality(DOMAIN Segs) < MaxSegments
  BY <1>1, SegsOf
<1>3. seg.name \notin DOMAIN Segs /\ Views(seglist', Extended(Segs, seg.name, View(seg)))
  BY AddedViews DEF Mapped
<1> QED
  BY <1>2, <1>3, ViewsUnique DEF Mapped

\* A step that changes a segment changes what its name stands for.
LEMMA ChangedStep ==
    ASSUME Mapped, NEW s, NEW seg, Changed(seglist, seglist', s, seg)
    PROVE  /\ seg.name \in DOMAIN Segs /\ Segs[seg.name] = View(seglist[s])
           /\ Segs' = [Segs EXCEPT ![seg.name] = View(seg)]
<1> DEFINE g == [Segs EXCEPT ![seg.name] = View(seg)]
<1>1. seg.name \in DOMAIN Segs /\ Segs[seg.name] = View(seglist[s]) /\ Views(seglist', g)
  BY ChangedViews DEF Mapped
<1> HIDE DEF g
<1>2. Segs' = g
  BY <1>1, ViewsUnique DEF Mapped
<1> QED
  BY <1>1, <1>2 DEF g

\* A step that drops a segment drops its name.
LEMMA DroppedStep ==
    ASSUME Mapped, NEW s, Dropped(seglist, seglist', s)
    PROVE  Segs' = Restrict(Segs, DOMAIN Segs \ {seglist[s].name})
<1> DEFINE S == Used(seglist) \ {s}
           R == {seglist[t].name : t \in Used(seglist) \cap S}
<1>1. s \in Used(seglist) /\ Used(seglist') = Used(seglist) \cap S
      /\ Same(seglist, seglist', Used(seglist'))
  BY DEF Dropped
<1>2. Views(seglist', Restrict(Segs, R))
  <2> HIDE DEF S
  <2> QED
    BY <1>1, LeftViews DEF Mapped
<1>3. DOMAIN Segs = NamesIn(seglist)
  BY ViewsDomain DEF Mapped
<1>4. R = DOMAIN Segs \ {seglist[s].name}
  <2>1. Unique(seglist)
    BY DEF Mapped
  <2> QED
    BY <1>1, <1>3, <2>1 DEF NamesIn, Unique
<1> HIDE DEF R
<1>5. Segs' = Restrict(Segs, R)
  BY <1>2, ViewsUnique DEF Mapped
<1> QED
  BY <1>4, <1>5

\* The cleanup drops the names of the shared memory segments.
LEMMA CleanedStep ==
    ASSUME Mapped, Cleaned(seglist, seglist')
    PROVE  Segs' = Restrict(Segs, {n \in DOMAIN Segs : Segs[n].type # "shm"})
<1> DEFINE S == {s \in Used(seglist) : seglist[s].type # "shm"}
           R == {seglist[t].name : t \in Used(seglist) \cap S}
<1>1. Used(seglist') = Used(seglist) \cap S /\ Same(seglist, seglist', Used(seglist'))
  BY DEF Cleaned
<1>2. Views(seglist', Restrict(Segs, R))
  <2> HIDE DEF S
  <2> QED
    BY <1>1, LeftViews DEF Mapped
<1>3. DOMAIN Segs = NamesIn(seglist)
  BY ViewsDomain DEF Mapped
<1>4. R = {n \in DOMAIN Segs : Segs[n].type # "shm"}
  <2>1. ASSUME NEW s \in Used(seglist)
        PROVE  Segs[seglist[s].name].type = seglist[s].type
    <3>1. Segs[seglist[s].name] = View(seglist[s])
      BY SegsOf
    <3>2. View(seglist[s]).type = seglist[s].type
      BY DEF View
    <3> QED
      BY <3>1, <3>2
  <2> QED
    BY <1>3, <2>1 DEF NamesIn
<1> HIDE DEF R
<1>5. Segs' = Restrict(Segs, R)
  BY <1>2, ViewsUnique DEF Mapped
<1> QED
  BY <1>4, <1>5

-----------------------------------------------------------------------------
(***************************************************************************)
(* The effects, one by one.                                                *)
(***************************************************************************)

\* A line of the task's maps is read.
LEMMA LoadsStep ==
    ASSUME Mapped, Loads
    PROVE  Step
<1> DEFINE m   == Head(maps)
           seg == TaskSegment(m)
<1>1. m \in TaskLine /\ m.start # MAP_FAILED
  <2>1. maps \in Seq(TaskLine) /\ maps # <<>> /\ \A i \in DOMAIN maps : maps[i].start # MAP_FAILED
    BY DEF Mapped, TableInv, LinesOK, Loads
  <2>2. m = maps[1] /\ 1 \in DOMAIN maps
    BY <2>1
  <2>3. m \in TaskLine
    BY <2>1, HeadTailProperties
  <2> QED
    BY <2>1, <2>2, <2>3
<1>2. m.name \in Names /\ m.type \in {"anon", "file", "shm"}
  BY <1>1 DEF TaskLine
<1>3. Stage = "loading" /\ ret' = "ok"
  BY DEF Loads, Stage, Alive
<1>4. CASE Kept(seglist, seglist')
  BY <1>2, <1>3, <1>4, KeptStep, LoadStep
<1>5. ASSUME NEW s \in Slot, Added(seglist, seglist', s, seg)
      PROVE  Step
  <2> HIDE DEF m
  <2>1. seg.name = m.name /\ seg.type = m.type /\ seg.flags = {"private", "maps"} /\ seg.start = m.start
    BY <1>1, TaskSegmentIs
  <2> HIDE DEF seg
  <2>2. View(seg) = [type |-> m.type, task |-> TRUE, mapped |-> TRUE]
    BY <1>1, <2>1 DEF View
  <2>3. /\ m.name \notin DOMAIN Segs /\ Cardinality(DOMAIN Segs) < MaxSegments
        /\ Segs' = Extended(Segs, m.name, [type |-> m.type, task |-> TRUE, mapped |-> TRUE])
    BY <1>5, <2>1, <2>2, AddedStep
  <2> QED
    BY <1>2, <1>3, <2>3, LoadStep
<1> QED
  BY <1>4, <1>5 DEF Loads

\* An operation only reports.
LEMMA AnswersStep ==
    ASSUME Mapped, NEW n \in Names, Answers(n)
    PROVE  Step
<1>1. Stage = "open" /\ Stage' = "open" /\ Segs' = Segs
  BY StageOpen, KeptStep DEF Answers
<1>2. CASE ret' = "err"
  BY <1>1, <1>2, UseStep
<1>3. CASE ret' = "ok" /\ Named(seglist, n) # {}
  <2>1. n \in DOMAIN Segs
    BY <1>3, SegsOf DEF Known
  <2> QED
    BY <1>1, <1>3, <2>1, UseStep
<1>4. CASE ret' = "full" /\ Named(seglist, n) = {} /\ Used(seglist) = Slot
  <2>1. n \notin DOMAIN Segs /\ ~(Cardinality(DOMAIN Segs) < MaxSegments)
    BY <1>4, SegsOf DEF Known, Full
  <2> QED
    BY <1>1, <1>4, <2>1, NoRoomStep
<1> QED
  BY <1>2, <1>3, <1>4 DEF Answers

\* A segment is registered: it is not mapped, and not of the task's image.
LEMMA AddsStep ==
    ASSUME Mapped, NEW n \in Names, NEW s \in Slot, NEW seg, Running, ret' = "ok",
           UNCHANGED <<maps, phase>>, Added(seglist, seglist', s, seg),
           seg.name = n, seg.type \in {"anon", "file", "shm"}, "maps" \notin seg.flags,
           seg.start = MAP_FAILED
    PROVE  Step
<1>1. Stage = "open" /\ Stage' = "open"
  BY StageOpen
<1>2. View(seg) = [type |-> seg.type, task |-> FALSE, mapped |-> FALSE]
  <2>1. ("maps" \in seg.flags) = FALSE /\ (seg.start # MAP_FAILED) = FALSE
    OBVIOUS
  <2> QED
    BY <2>1, Zenon DEF View
<1>3. /\ n \notin DOMAIN Segs /\ Cardinality(DOMAIN Segs) < MaxSegments
      /\ Segs' = Extended(Segs, n, [type |-> seg.type, task |-> FALSE, mapped |-> FALSE])
  BY <1>2, AddedStep
<1> QED
  BY <1>1, <1>3, RegisterStep

\* anon, file and shmem are abstract registrations.
LEMMA RegistersStep ==
    ASSUME Mapped, NEW n \in Names, AddsAnon(n) \/ AddsFile(n) \/ AddsShm(n)
    PROVE  Step
<1>1. ASSUME AddsAnon(n)
      PROVE  Step
  <2>1. PICK s \in Slot, o \in Size, l \in Size, sh \in Shares :
             Added(seglist, seglist', s, NewSegment("anon", n, o, l, {sh}))
    BY <1>1 DEF AddsAnon
  <2> DEFINE seg == NewSegment("anon", n, o, l, {sh})
  <2>2. seg.name = n /\ seg.type = "anon" /\ "maps" \notin seg.flags /\ seg.start = MAP_FAILED
    BY ShareFlags, NewSegmentIs
  <2> HIDE DEF seg
  <2> QED
    BY <1>1, <2>1, <2>2, AddsStep DEF AddsAnon, seg
<1>2. ASSUME AddsFile(n)
      PROVE  Step
  <2>1. PICK s \in Slot, o \in Size, l \in Size, sh \in Shares, fd \in Fds \ fds, prot \in FileProts :
             Added(seglist, seglist', s, Opened(NewSegment("file", n, o, l, {sh}), fd, prot))
    BY <1>2 DEF AddsFile
  <2> DEFINE seg == Opened(NewSegment("file", n, o, l, {sh}), fd, prot)
  <2>2. seg.name = n /\ seg.type = "file" /\ "maps" \notin seg.flags /\ seg.start = MAP_FAILED
    BY ShareFlags, OpenedIs
  <2> HIDE DEF seg
  <2> QED
    BY <1>2, <2>1, <2>2, AddsStep DEF AddsFile, seg
<1>3. ASSUME AddsShm(n)
      PROVE  Step
  <2>1. PICK s \in Slot, l \in Size, huge \in BOOLEAN, id \in ShmIds \ shm :
             Added(seglist, seglist', s, Created(n, l, huge, id))
    BY <1>3 DEF AddsShm
  <2> DEFINE seg == Created(n, l, huge, id)
  <2>2. seg.name = n /\ seg.type = "shm" /\ "maps" \notin seg.flags /\ seg.start = MAP_FAILED
    BY ShmSegmentIs
  <2> HIDE DEF seg
  <2> QED
    BY <1>3, <2>1, <2>2, AddsStep DEF AddsShm, seg
<1> QED
  BY <1>1, <1>2, <1>3

\* The segment a name means, and what the abstract table says of it.
LEMMA MeansFacts ==
    ASSUME Mapped, NEW n, NEW s, Means(n, s)
    PROVE  /\ Stage = "open"
           /\ UNCHANGED <<maps, phase>> => Stage' = "open"
           /\ s \in Used(seglist) /\ seglist[s].name = n /\ seglist[s] \in Segment
           /\ n \in DOMAIN Segs /\ Segs[n] = View(seglist[s])
           /\ ~IsMaps(s) => ~Segs[n].task
<1>1. s \in Used(seglist) /\ seglist[s].name = n /\ Running
  BY DEF Means
<1>2. n \in DOMAIN Segs /\ Segs[n] = View(seglist[s])
  BY <1>1, SegsOf
<1>3. ~IsMaps(s) => ~Segs[n].task
  <2>1. View(seglist[s]).task = ("maps" \in seglist[s].flags)
    BY DEF View
  <2> QED
    BY <1>2, <2>1, Zenon DEF IsMaps
<1>4. seglist[s] \in Segment
  BY <1>1, GoodTable DEF Mapped
<1> QED
  BY <1>1, <1>2, <1>3, <1>4, StageOpen

\* What a segment looks like after its start has changed.
LEMMA ViewOf ==
    ASSUME NEW old, NEW seg, NEW b \in BOOLEAN, seg.type = old.type,
           ("maps" \in seg.flags) = ("maps" \in old.flags), (seg.start # MAP_FAILED) = b
    PROVE  View(seg) = [View(old) EXCEPT !.mapped = b]
<1> DEFINE x == "maps" \in old.flags
           y == old.start # MAP_FAILED
<1>1. View(seg) = [type |-> old.type, task |-> x, mapped |-> b]
  BY Zenon DEF View
<1>2. View(old) = [type |-> old.type, task |-> x, mapped |-> y]
  BY DEF View
<1> HIDE DEF x, y
<1> QED
  BY <1>1, <1>2

\* unmap is an abstract unmap.
LEMMA UnmapsStep ==
    ASSUME Mapped, NEW n \in Names, NEW s \in Slot, Unmaps(n, s)
    PROVE  Step
<1> DEFINE seg == [seglist[s] EXCEPT !.start = MAP_FAILED]
<1>1. Means(n, s) /\ ~IsMaps(s) /\ ret' = "ok" /\ UNCHANGED <<maps, phase>>
      /\ Changed(seglist, seglist', s, seg)
  BY DEF Unmaps
<1>2. /\ Stage = "open" /\ Stage' = "open" /\ n \in DOMAIN Segs /\ seglist[s] \in Segment
      /\ seglist[s].name = n /\ Segs[n] = View(seglist[s]) /\ ~Segs[n].task
  BY <1>1, MeansFacts
<1>3. seg.type = seglist[s].type /\ seg.flags = seglist[s].flags /\ seg.start = MAP_FAILED /\ seg.name = n
  BY <1>2 DEF Segment
<1> HIDE DEF seg
<1>4. View(seg) = [View(seglist[s]) EXCEPT !.mapped = FALSE]
  BY <1>3, ViewOf
<1>5. Segs' = [Segs EXCEPT ![n] = View(seg)]
  BY <1>1, <1>3, ChangedStep
<1>6. Segs' = [Segs EXCEPT ![n].mapped = FALSE]
  BY <1>2, <1>4, <1>5
<1> QED
  BY <1>1, <1>2, <1>6, UnmapStep

\* map is an abstract map.
LEMMA MapsStep ==
    ASSUME Mapped, NEW n \in Names, NEW s \in Slot, Maps(n, s)
    PROVE  Step
<1>1. Means(n, s) /\ ~IsMapped(s) /\ ret' = "ok" /\ UNCHANGED <<maps, phase>>
  BY DEF Maps
<1>2. /\ Stage = "open" /\ Stage' = "open" /\ n \in DOMAIN Segs /\ seglist[s] \in Segment
      /\ s \in Used(seglist) /\ seglist[s].name = n /\ Segs[n] = View(seglist[s])
  BY <1>1, MeansFacts
<1>3. PICK old, size, a : /\ Prepared(s, old) /\ a \in Places(old, size)
                          /\ Changed(seglist, seglist', s, [old EXCEPT !.start = a])
  BY DEF Maps
<1> DEFINE seg == [old EXCEPT !.start = a]
<1>4. a # MAP_FAILED
  <2>1. PICK p \in Pages : a = p * PageSize
    BY <1>3 DEF Places
  <2> QED
    BY <2>1, PageAddress
<1>5. old \in Segment /\ old.type = seglist[s].type /\ old.name = n
      /\ ("maps" \in old.flags => "maps" \in seglist[s].flags)
  BY <1>2, <1>3 DEF Prepared, SameOwner
<1>6. "maps" \notin seglist[s].flags
  BY <1>1, <1>2 DEF Mapped, ListFacts, SegFacts, IsMapped, Used
<1>7. seg.type = seglist[s].type /\ "maps" \notin seg.flags /\ seg.start # MAP_FAILED /\ seg.name = n
  BY <1>4, <1>5, <1>6 DEF Segment
<1>8. Changed(seglist, seglist', s, seg)
  BY <1>3
<1> HIDE DEF seg
<1>9. View(seg) = [View(seglist[s]) EXCEPT !.mapped = TRUE]
  <2>1. ("maps" \in seg.flags) = ("maps" \in seglist[s].flags) /\ (seg.start # MAP_FAILED) = TRUE
    BY <1>6, <1>7
  <2> QED
    BY <1>7, <2>1, ViewOf, Zenon
<1>10. Segs' = [Segs EXCEPT ![n] = View(seg)]
  BY <1>7, <1>8, ChangedStep
<1>11. Segs' = [Segs EXCEPT ![n].mapped = TRUE]
  BY <1>2, <1>9, <1>10
<1> QED
  BY <1>1, <1>2, <1>11, MapStep

\* The segment looks as before.
LEMMA SameView ==
    ASSUME Mapped, NEW n \in Names, NEW s, NEW seg, Means(n, s),
           Changed(seglist, seglist', s, seg), View(seg) = View(seglist[s])
    PROVE  Segs' = Segs
<1>1. seg.name = n
  BY DEF Changed, Means
<1>2. n \in DOMAIN Segs /\ Segs[n] = View(seg) /\ Segs' = [Segs EXCEPT ![n] = View(seg)]
  BY <1>1, ChangedStep
<1> QED
  BY <1>2, SegsFunction

\* A failed map records sizes only, and mprotect a protection.
LEMMA RecordsStep ==
    ASSUME Mapped, NEW n \in Names, NEW s \in Slot, MapFails(n, s) \/ Protects(n, s)
    PROVE  Step
<1>1. Means(n, s) /\ ret' \in {"ok", "err"} /\ UNCHANGED <<maps, phase>>
  BY DEF MapFails, Protects
<1>2. /\ Stage = "open" /\ Stage' = "open" /\ n \in DOMAIN Segs /\ seglist[s] \in Segment
      /\ s \in Used(seglist)
  BY <1>1, MeansFacts
<1>3. CASE MapFails(n, s)
  <2>1. PICK seg : Prepared(s, seg) /\ Changed(seglist, seglist', s, seg)
    BY <1>3 DEF MapFails
  <2>2. seg.type = seglist[s].type /\ seg.start = seglist[s].start
        /\ ("maps" \in seg.flags => "maps" \in seglist[s].flags)
    BY <2>1 DEF Prepared, SameOwner
  <2>3. "maps" \notin seglist[s].flags
    BY <1>2, <1>3 DEF MapFails, Mapped, ListFacts, SegFacts, IsMapped, Used
  <2>4. ("maps" \in seg.flags) = ("maps" \in seglist[s].flags)
    BY <2>2, <2>3
  <2>5. View(seg) = View(seglist[s])
    BY <2>2, <2>4, Zenon DEF View
  <2> QED
    BY <1>1, <1>2, <2>1, <2>5, SameView, UseStep
<1>4. CASE Protects(n, s)
  <2>1. PICK prot : Changed(seglist, seglist', s, [seglist[s] EXCEPT !.prot = prot])
    BY <1>4 DEF Protects
  <2> DEFINE seg == [seglist[s] EXCEPT !.prot = prot]
  <2>2. seg.type = seglist[s].type /\ seg.start = seglist[s].start /\ seg.flags = seglist[s].flags
    BY <1>2 DEF Segment
  <2>3. Changed(seglist, seglist', s, seg)
    BY <2>1
  <2> HIDE DEF seg
  <2>4. View(seg) = View(seglist[s])
    BY <2>2, Zenon DEF View
  <2> QED
    BY <1>1, <1>2, <2>3, <2>4, SameView, UseStep
<1> QED
  BY <1>3, <1>4

\* remove is an abstract remove.
LEMMA RemovesStep ==
    ASSUME Mapped, NEW n \in Names, NEW s \in Slot, Removes(n, s)
    PROVE  Step
<1>1. Means(n, s) /\ ~IsMaps(s) /\ ret' = "ok" /\ UNCHANGED <<maps, phase>>
      /\ Dropped(seglist, seglist', s)
  BY DEF Removes
<1>2. /\ Stage = "open" /\ Stage' = "open" /\ n \in DOMAIN Segs
      /\ seglist[s].name = n /\ ~Segs[n].task
  BY <1>1, MeansFacts
<1>3. Segs' = Restrict(Segs, DOMAIN Segs \ {n})
  BY <1>1, <1>2, DroppedStep
<1> QED
  BY <1>1, <1>2, <1>3, RemoveStep

\* A range is used, or mprotect stops at a hole.
LEMMA UsesStep ==
    ASSUME Mapped, NEW n \in Names, NEW s \in Slot, ProtectFails(n, s) \/ Uses(n, s)
    PROVE  Step
<1>1. Means(n, s) /\ ret' \in {"ok", "err"} /\ UNCHANGED <<maps, phase>>
      /\ Kept(seglist, seglist')
  BY DEF ProtectFails, Uses
<1>2. Stage = "open" /\ Stage' = "open" /\ n \in DOMAIN Segs
  BY <1>1, MeansFacts
<1> QED
  BY <1>1, <1>2, KeptStep, UseStep

\* The program ends.
LEMMA EndsStep ==
    ASSUME Mapped, Dies \/ Exits
    PROVE  Step
<1>1. Stage = "open"
  BY DEF Dies, Exits, Running, Stage, Alive
<1>2. Stage' = "ended"
  BY DEF Dies, DieBySignal, Exits, Stage, Alive
<1>3. ret' \in {"ok", "err", ret}
  BY DEF Dies, Exits
<1>4. CASE Dies
  <2>1. Kept(seglist, seglist')
    BY <1>4 DEF Dies, DieBySignal, Kept, Same
  <2> QED
    BY <1>1, <1>2, <1>3, <2>1, KeptStep, EndStep
<1>5. CASE Exits
  BY <1>1, <1>2, <1>3, <1>5, CleanedStep, EndStep DEF Exits
<1> QED
  BY <1>4, <1>5

\* Nothing that SegmentNames speaks of changes.
LEMMA SilentStep ==
    ASSUME Mapped, Spins \/ Resizes
    PROVE  Segs' = Segs /\ ret' = ret /\ Stage' = Stage
<1>1. Kept(seglist, seglist')
  BY DEF Spins, Resizes, Kept, Same
<1>2. ret' = ret /\ Stage' = Stage
  BY DEF Spins, Resizes, Running, Stage, Alive
<1> QED
  BY <1>1, <1>2, KeptStep

Silent == UNCHANGED <<Segs, ret, Stage>>

\* Every step is an abstract step or leaves the abstract state alone.
LEMMA PromiseStep ==
    ASSUME TableInv, Unique(seglist), ListFacts, TableInv', Unique(seglist'), [Next]_vars
    PROVE  Step \/ Silent
<1>1. CASE UNCHANGED vars
  BY <1>1 DEF vars, Silent, Segs, InUseNames, InUse, Abstraction, IsMaps, IsMapped, Stage, Alive
<1>2. CASE Next
  <2>1. Effect
    BY <1>2, Effects
  <2>2. Mapped
    BY SegsNow, SegsNext DEF Mapped
  <2>3. CASE Loads
    BY <2>2, <2>3, LoadsStep
  <2>4. CASE Dies \/ Exits
    BY <2>2, <2>4, EndsStep
  <2>5. CASE Spins \/ Resizes
    BY <2>2, <2>5, SilentStep DEF Silent
  <2>6. ASSUME NEW n \in Names, Answers(n) \/ AddsAnon(n) \/ AddsFile(n) \/ AddsShm(n)
        PROVE  Step
    BY <2>2, <2>6, AnswersStep, RegistersStep
  <2>7. ASSUME NEW n \in Names, NEW s \in Slot,
               \/ Unmaps(n, s) \/ Removes(n, s) \/ Maps(n, s) \/ MapFails(n, s)
               \/ Protects(n, s) \/ ProtectFails(n, s) \/ Uses(n, s)
        PROVE  Step
    BY <2>2, <2>7, UnmapsStep, RemovesStep, MapsStep, RecordsStep, UsesStep
  <2> QED
    BY <2>1, <2>3, <2>4, <2>5, <2>6, <2>7 DEF Effect
<1> QED
  BY <1>1, <1>2

\* At the start the table is empty.
LEMMA PromiseInit == Init => Promise!Init
<1> SUFFICES ASSUME Init
             PROVE  Promise!Init
  OBVIOUS
<1>1. Segs = <<>>
  <2>1. InUseNames = {}
    BY DEF Init, InUseNames
  <2> QED
    BY <2>1 DEF Segs
<1>2. Stage \in {"loading", "open"} /\ ret = "ok"
  BY DEF Init, Stage, Alive
<1> QED
  BY <1>1, <1>2 DEF Promise!Init, Segs, Stage

(***************************************************************************)
(* The segment table implements its promise: SegmentTable's Spec implies   *)
(* the specification of SegmentNames under the mapping that keeps of the   *)
(* slots only the names in use and what they stand for.                    *)
(***************************************************************************)
THEOREM TableImplementsNames == Spec => TableImplemented
<1>1. Init => TableInv /\ Unique(seglist) /\ ListFacts
  BY TableInit, FactsInit DEF Init, Unique, Used
<1>2. TableInv /\ Unique(seglist) /\ ListFacts /\ [Next]_vars
        => TableInv' /\ Unique(seglist)' /\ ListFacts'
  BY TableStep, UniqueStep, FactsStep
<1>3. TableInv /\ Unique(seglist) /\ ListFacts /\ TableInv' /\ Unique(seglist)' /\ [Next]_vars
        => [Promise!Next]_(Promise!vars)
  <2> SUFFICES ASSUME TableInv, Unique(seglist), ListFacts, TableInv', Unique(seglist'), [Next]_vars
               PROVE  [Promise!Next]_(Promise!vars)
    OBVIOUS
  <2>1. Silent => UNCHANGED Promise!vars
    BY DEF Silent, Promise!vars, Segs, Stage
  <2>2. Promise!Next \/ Silent
    BY PromiseStep DEF Step
  <2> QED
    BY <2>1, <2>2
<1> QED
  BY <1>1, <1>2, <1>3, PromiseInit, PTL DEF Spec, TableImplemented, Promise!Spec

=============================================================================
