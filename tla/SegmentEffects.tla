--------------------------- MODULE SegmentEffects ---------------------------
(***************************************************************************)
(* What each step of SegmentTable does, proved once and for any number of  *)
(* slots, names, pages, files and ids: lemmas about the operators on       *)
(* tables, sizes and segments, the effects a step can have on the segments *)
(* in use and on the kernel, and the lemma that every step has one of      *)
(* them.  The proofs in SegmentTableProofs are by cases on the effects,    *)
(* not on the actions.                                                     *)
(***************************************************************************)
EXTENDS SegmentTable, SegmentRangeProofs, SequenceTheorems, NaturalsInduction,
        WellFoundedInduction, TLAPS

-----------------------------------------------------------------------------
(***************************************************************************)
(* Tables.  What the operators on tables need and keep is said of any      *)
(* record T of a list and a saved slot: T is Good when it is well formed   *)
(* and the slot it saves is free.  What an operation does to a list is one *)
(* of five things, all said of the slots in use: the others hold nothing.  *)
(***************************************************************************)
Used(list) == {s \in DOMAIN list : list[s].type # "none"}

Good(T) ==
    /\ T \in [list : Seq(Segment), avail : Nat]
    /\ Len(T.list) =< MaxSegments
    /\ T.avail # Null => T.avail \in DOMAIN T.list /\ T.list[T.avail].type = "none"

Known(L, n) == Named(L, n) # {}
Full(L)     == Used(L) = Slot

Same(L, M, S) == \A t \in S : M[t] = L[t]

Kept(L, M) == Used(M) = Used(L) /\ Same(L, M, Used(L))

Added(L, M, s, seg) ==
    /\ s \notin Used(L) /\ seg.type # "none"
    /\ \A t \in Used(L) : L[t].name # seg.name
    /\ Used(M) = Used(L) \cup {s} /\ M[s] = seg /\ Same(L, M, Used(L))

Changed(L, M, s, seg) ==
    /\ s \in Used(L) /\ seg.type = L[s].type /\ seg.name = L[s].name
    /\ Used(M) = Used(L) /\ M[s] = seg /\ Same(L, M, Used(L) \ {s})

Dropped(L, M, s) ==
    /\ s \in Used(L)
    /\ Used(M) = Used(L) \ {s} /\ Same(L, M, Used(M))

Cleaned(L, M) ==
    /\ Used(M) = {s \in Used(L) : L[s].type # "shm"}
    /\ Same(L, M, Used(M))

-----------------------------------------------------------------------------
(***************************************************************************)
(* The operators on tables.                                                *)
(***************************************************************************)

\* The first element of a set of slots exists.
LEMMA LowestIs ==
    ASSUME NEW S, S \subseteq Nat, S # {}
    PROVE  Lowest(S) \in S /\ \A j \in S : Lowest(S) =< j
<1>1. \E i \in S : \A j \in S : i =< j
  BY LeastNumber
<1> QED
  BY <1>1 DEF Lowest

\* The slots are numbered from 1.
LEMMA MaxNat == MaxSegments \in Nat \ {0}
BY TableAssumption

\* A slot that was just allocated is a segment of type none.
LEMMA BlankType == Blank \in Segment /\ Blank.type = "none"
BY WordAssumption DEF Blank, Segment, SegType, Size, NoName, NONE

\* What a table's list is made of.
LEMMA GoodList ==
    ASSUME NEW T, Good(T)
    PROVE  /\ T.list \in Seq(Segment) /\ Len(T.list) \in Nat
           /\ DOMAIN T.list = 1 .. Len(T.list) /\ DOMAIN T.list \subseteq Slot
           /\ \A s \in DOMAIN T.list : T.list[s] \in Segment
           /\ T.avail \in {Null} \cup DOMAIN T.list
           /\ Null \notin DOMAIN T.list
<1>1. T.list \in Seq(Segment) /\ T.avail \in Nat
  BY DEF Good
<1>2. Len(T.list) \in Nat /\ DOMAIN T.list = 1 .. Len(T.list)
  BY <1>1, LenProperties
<1>3. \A s \in DOMAIN T.list : T.list[s] \in Segment
  BY <1>1, <1>2, ElementOfSeq
<1>4. DOMAIN T.list \subseteq Slot /\ Null \notin DOMAIN T.list
  BY <1>2, MaxNat DEF Good, Slot, Null
<1> QED
  BY <1>1, <1>2, <1>3, <1>4 DEF Good

\* A table with one more blank slot.
LEMMA NewSlot ==
    ASSUME NEW list \in Seq(Segment)
    PROVE  /\ new_slot(list) \in Seq(Segment)
           /\ Len(new_slot(list)) = Len(list) + 1
           /\ DOMAIN new_slot(list) = 1 .. Len(list) + 1 /\ DOMAIN list = 1 .. Len(list)
           /\ Len(list) \in Nat
           /\ new_slot(list)[Len(list) + 1] = Blank
           /\ Same(list, new_slot(list), DOMAIN list)
           /\ Kept(list, new_slot(list))
<1>1. /\ new_slot(list) \in Seq(Segment)
      /\ Len(new_slot(list)) = Len(list) + 1
      /\ \A s \in 1 .. Len(list) : new_slot(list)[s] = list[s]
      /\ new_slot(list)[Len(list) + 1] = Blank
  BY BlankType, AppendProperties DEF new_slot
<1>2. /\ Len(list) \in Nat
      /\ DOMAIN new_slot(list) = 1 .. Len(list) + 1 /\ DOMAIN list = 1 .. Len(list)
  BY <1>1, LenProperties
<1>3. Used(new_slot(list)) = Used(list) /\ Used(list) \subseteq DOMAIN list
  BY <1>1, <1>2, BlankType DEF Used
<1> QED
  BY <1>1, <1>2, <1>3 DEF Same, Kept

(***************************************************************************)
(* segment_get() keeps a table good and every segment in it, and a lookup  *)
(* that finds its name allocates nothing.                                  *)
(***************************************************************************)
LEMMA LookupGood ==
    ASSUME NEW T, Good(T), NEW name, NEW mem
    PROVE  /\ Good(segment_get(T, name, mem))
           /\ Kept(T.list, segment_get(T, name, mem).list)
           /\ Named(T.list, name) # {} => segment_get(T, name, mem).list = T.list
<1> DEFINE hits   == Named(T.list, name)
           passed == {s \in FreeSlots(T.list) : hits # {} => s < Lowest(hits)}
           G      == segment_get(T, name, mem)
<1>0. Kept(T.list, T.list)
  BY DEF Kept, Same
<1>1. CASE T.avail # Null
  BY <1>0, <1>1 DEF segment_get
<1>2. CASE T.avail = Null /\ passed # {}
  <2>0. passed \subseteq Nat
    BY GoodList DEF FreeSlots
  <2>1. Lowest(passed) \in passed
    BY <1>2, <2>0, LowestIs
  <2>2. G = [T EXCEPT !.avail = Lowest(passed)]
    BY <1>2 DEF segment_get
  <2>3. Lowest(passed) \in DOMAIN T.list /\ T.list[Lowest(passed)].type = "none"
    BY <2>1 DEF FreeSlots
  <2>4. Lowest(passed) \in Nat
    BY <2>3, GoodList
  <2> HIDE DEF passed, G
  <2>5. G.list = T.list /\ G.avail = Lowest(passed) /\ G \in [list : Seq(Segment), avail : Nat]
    BY <2>2, <2>4 DEF Good
  <2> QED
    BY <1>0, <2>3, <2>5 DEF Good, G
<1>3. CASE T.avail = Null /\ passed = {} /\ hits = {} /\ Len(T.list) < MaxSegments /\ mem
  <2>1. G = [list |-> new_slot(T.list), avail |-> Len(T.list) + 1]
    BY <1>3 DEF segment_get
  <2>2. T.list \in Seq(Segment) /\ Len(T.list) \in Nat
    BY GoodList
  <2> DEFINE N == new_slot(T.list)
  <2>3. /\ N \in Seq(Segment) /\ Len(N) = Len(T.list) + 1
        /\ Len(T.list) + 1 \in DOMAIN N /\ N[Len(T.list) + 1] = Blank
        /\ Kept(T.list, N)
    BY <2>2, NewSlot
  <2> HIDE DEF N, G
  <2>4. G.list = N /\ G.avail = Len(T.list) + 1 /\ G \in [list : Seq(Segment), avail : Nat]
    BY <2>1, <2>2, <2>3 DEF N
  <2>5. Good(G)
    BY <1>3, <2>2, <2>3, <2>4, BlankType, MaxNat DEF Good
  <2> QED
    BY <1>3, <2>3, <2>4, <2>5 DEF G
<1>4. CASE T.avail = Null /\ passed = {} /\ ~(hits = {} /\ Len(T.list) < MaxSegments /\ mem)
  <2>1. G = T
    BY <1>4 DEF segment_get
  <2> QED
    BY <1>0, <2>1
<1> QED
  BY <1>1, <1>2, <1>3, <1>4

(***************************************************************************)
(* get_seg_slot() hands out a slot that holds nothing and that is not, or  *)
(* no longer, the saved one; without a slot the table is full.             *)
(***************************************************************************)
LEMMA SlotGood ==
    ASSUME NEW T, Good(T), NEW mem, NEW t, t = get_seg_slot(T, mem)
    PROVE  /\ Good(t.table) /\ Kept(T.list, t.table.list)
           /\ t.slot \in {Null, Crash} \cup Slot
           /\ t.slot \in Slot => /\ t.slot \in DOMAIN t.table.list
                                 /\ t.slot \notin Used(t.table.list)
                                 /\ t.table.avail = Null
           /\ t.slot = Null => Used(T.list) = Slot /\ t.table = T
<1> DEFINE free == FreeSlots(T.list)
<1>0. Kept(T.list, T.list)
  BY DEF Kept, Same
<1>1. CASE T.avail # Null
  <2>1. t.slot = T.avail /\ t.table = [T EXCEPT !.avail = Null]
    BY <1>1 DEF get_seg_slot
  <2>2. t.table.list = T.list /\ t.table.avail = Null /\ t.table \in [list : Seq(Segment), avail : Nat]
    BY <2>1 DEF Good, Null
  <2>3. Good(t.table)
    BY <2>2 DEF Good
  <2> QED
    BY <1>0, <1>1, <2>1, <2>2, <2>3, GoodList DEF Good, Used
<1>2. CASE T.avail = Null /\ free # {}
  <2>1. t.slot = Lowest(free) /\ t.table = T
    BY <1>2 DEF get_seg_slot
  <2>0. free \subseteq Nat
    BY GoodList DEF FreeSlots
  <2>2. Lowest(free) \in free
    BY <1>2, <2>0, LowestIs
  <2>3. Lowest(free) \in DOMAIN T.list /\ T.list[Lowest(free)].type = "none"
    BY <2>2 DEF FreeSlots
  <2> HIDE DEF free
  <2> QED
    BY <1>0, <1>2, <2>1, <2>3, GoodList DEF Used
<1>3. CASE T.avail = Null /\ free = {} /\ Len(T.list) < MaxSegments /\ mem
  <2>1. t.slot = Len(T.list) + 1 /\ t.table = [T EXCEPT !.list = new_slot(T.list)]
    BY <1>3 DEF get_seg_slot
  <2>2. T.list \in Seq(Segment) /\ Len(T.list) \in Nat
    BY GoodList
  <2> DEFINE N == new_slot(T.list)
  <2>3. /\ N \in Seq(Segment) /\ Len(N) = Len(T.list) + 1
        /\ Len(T.list) + 1 \in DOMAIN N /\ N[Len(T.list) + 1] = Blank
        /\ Kept(T.list, N)
    BY <2>2, NewSlot
  <2> HIDE DEF N
  <2>4. t.table.list = N /\ t.table.avail = Null
        /\ t.table \in [list : Seq(Segment), avail : Nat]
    BY <1>3, <2>1, <2>3 DEF Good, N
  <2> DEFINE len == Len(T.list)
  <2> HIDE DEF len
  <2>a. len \in Nat /\ len < MaxSegments
    BY <1>3, <2>2 DEF len
  <2>b. t.slot = len + 1 /\ Len(t.table.list) = len + 1
    BY <2>1, <2>3, <2>4 DEF len
  <2>5. Good(t.table)
    BY <2>a, <2>b, <2>4, MaxNat DEF Good
  <2>6. t.slot \in Slot /\ t.slot # Null
    BY <2>a, <2>b, MaxNat DEF Slot, Null
  <2> QED
    BY <2>1, <2>3, <2>4, <2>5, <2>6, BlankType DEF Used
<1>4. CASE T.avail = Null /\ free = {} /\ Len(T.list) < MaxSegments /\ ~mem
  <2>1. t.slot = Crash /\ t.table = T
    BY <1>4 DEF get_seg_slot
  <2> QED
    BY <1>0, <2>1 DEF Crash, Null, Slot
<1>5. CASE T.avail = Null /\ free = {} /\ ~(Len(T.list) < MaxSegments)
  <2>1. t.slot = Null /\ t.table = T
    BY <1>5 DEF get_seg_slot
  <2>2. Len(T.list) = MaxSegments
    BY <1>5, GoodList, MaxNat DEF Good
  <2>3. Used(T.list) = Slot
    BY <1>5, <2>2, GoodList DEF Used, FreeSlots, Slot
  <2> QED
    BY <1>0, <2>1, <2>3 DEF Null, Slot
<1> QED
  BY <1>1, <1>2, <1>3, <1>4, <1>5

(***************************************************************************)
(* The part of segment_register() all types share: a slot is handed out    *)
(* only for a name no segment has, and it holds nothing.                   *)
(***************************************************************************)
LEMMA ClaimGood ==
    ASSUME NEW T, Good(T), NEW name, NEW mem1, NEW mem2,
           NEW t, t = ClaimSlot(T, name, mem1, mem2)
    PROVE  /\ Good(t.table) /\ Kept(T.list, t.table.list)
           /\ t.slot \in {Taken, Null, Crash} \cup Slot
           /\ t.slot \in Slot => /\ t.slot \in DOMAIN t.table.list
                                 /\ t.slot \notin Used(t.table.list)
                                 /\ t.table.avail = Null
           /\ Known(T.list, name) => t.slot = Taken
           /\ t.slot = Null => Full(T.list)
<1> DEFINE g == segment_get(T, name, mem1)
<1>1. Good(g) /\ Kept(T.list, g.list)
  BY LookupGood
<1>2. CASE Named(T.list, name) # {}
  <2>1. t.slot = Taken /\ t.table = g
    BY <1>2 DEF ClaimSlot
  <2> HIDE DEF g
  <2> QED
    BY <1>1, <1>2, <2>1 DEF Taken, Null, Slot, Known
<1>3. CASE Named(T.list, name) = {}
  <2>1. t = get_seg_slot(g, mem2)
    BY <1>3 DEF ClaimSlot
  <2> HIDE DEF g
  <2>2. /\ Good(t.table) /\ Kept(g.list, t.table.list)
        /\ t.slot \in {Null, Crash} \cup Slot
        /\ t.slot \in Slot => /\ t.slot \in DOMAIN t.table.list
                              /\ t.slot \notin Used(t.table.list)
                              /\ t.table.avail = Null
        /\ t.slot = Null => Used(g.list) = Slot
    BY <1>1, <2>1, SlotGood
  <2>3. t.slot # Taken
    BY <2>2 DEF Taken, Null, Crash, Slot
  <2>4. Kept(T.list, t.table.list)
    BY <1>1, <2>2 DEF Kept, Same
  <2>5. Used(g.list) = Used(T.list)
    BY <1>1 DEF Kept
  <2> QED
    BY <1>3, <2>2, <2>3, <2>4, <2>5 DEF Known, Full
<1> QED
  BY <1>2, <1>3

\* A segment put into a slot of a list, and the slots that are then in use.
LEMMA PutList ==
    ASSUME NEW L \in Seq(Segment), NEW s \in DOMAIN L, NEW seg \in Segment,
           NEW M, M = [L EXCEPT ![s] = seg]
    PROVE  /\ M \in Seq(Segment) /\ Len(M) = Len(L) /\ DOMAIN M = DOMAIN L
           /\ M[s] = seg /\ \A t \in DOMAIN L \ {s} : M[t] = L[t]
           /\ Used(M) = IF seg.type = "none" THEN Used(L) \ {s} ELSE Used(L) \cup {s}
<1>1. s \in 1 .. Len(L) /\ DOMAIN L = 1 .. Len(L)
  BY LenProperties
<1>2. M \in Seq(Segment) /\ Len(M) = Len(L) /\ \A i \in 1 .. Len(L) : M[i] = IF i = s THEN seg ELSE L[i]
  BY <1>1, ExceptSeq
<1>3. DOMAIN M = DOMAIN L
  OBVIOUS
<1>4. M[s] = seg /\ \A t \in DOMAIN L \ {s} : M[t] = L[t]
  BY <1>1, <1>2
<1>5. Used(M) = IF seg.type = "none" THEN Used(L) \ {s} ELSE Used(L) \cup {s}
  BY <1>3, <1>4 DEF Used
<1> QED
  BY <1>2, <1>3, <1>4, <1>5

\* What Put leaves in the table.
LEMMA PutTable ==
    ASSUME NEW T, Good(T), NEW s \in DOMAIN T.list, NEW seg \in Segment, T.avail # s
    PROVE  /\ Put(T, s, seg).list = [T.list EXCEPT ![s] = seg]
           /\ Good(Put(T, s, seg))
<1> DEFINE P == Put(T, s, seg)
           M == [T.list EXCEPT ![s] = seg]
<1>1. T.list \in Seq(Segment) /\ T.avail \in Nat
  BY DEF Good
<1>2. /\ M \in Seq(Segment) /\ Len(M) = Len(T.list) /\ DOMAIN M = DOMAIN T.list
      /\ \A t \in DOMAIN T.list \ {s} : M[t] = T.list[t]
  BY <1>1, PutList
<1>3. P.list = M /\ P.avail = T.avail
  BY DEF Put, Good
<1>4. P \in [list : Seq(Segment), avail : Nat]
  BY <1>1, <1>2 DEF Put, Good
<1> HIDE DEF P, M
<1>5. Good(P)
  BY <1>2, <1>3, <1>4 DEF Good
<1> QED
  BY <1>3, <1>5 DEF P, M

\* A segment is put into a slot that holds nothing: it is added.
LEMMA PutAdds ==
    ASSUME NEW T, Good(T), NEW s \in DOMAIN T.list, s \notin Used(T.list), T.avail = Null,
           NEW seg \in Segment, seg.type # "none", \A t \in Used(T.list) : T.list[t].name # seg.name
    PROVE  Good(Put(T, s, seg)) /\ Added(T.list, Put(T, s, seg).list, s, seg)
<1>1. s # Null
  BY GoodList
<1>2. Good(Put(T, s, seg)) /\ Put(T, s, seg).list = [T.list EXCEPT ![s] = seg]
  BY <1>1, PutTable
<1>3. T.list \in Seq(Segment) /\ Used(T.list) \subseteq DOMAIN T.list \ {s}
  BY DEF Good, Used
<1> DEFINE M == Put(T, s, seg).list
<1> HIDE DEF M
<1>4. M[s] = seg /\ (\A t \in DOMAIN T.list \ {s} : M[t] = T.list[t]) /\ Used(M) = Used(T.list) \cup {s}
  BY <1>2, <1>3, PutList DEF M
<1> QED
  BY <1>2, <1>3, <1>4 DEF Added, Same, M

\* A segment is put into its own slot: it is changed.
LEMMA PutChanges ==
    ASSUME NEW T, Good(T), NEW s \in Used(T.list), NEW seg \in Segment,
           seg.type = T.list[s].type, seg.name = T.list[s].name
    PROVE  Good(Put(T, s, seg)) /\ Changed(T.list, Put(T, s, seg).list, s, seg)
<1>1. s \in DOMAIN T.list /\ seg.type # "none" /\ s # T.avail
  <2>1. s \in DOMAIN T.list /\ T.list[s].type # "none" /\ s # Null
    BY GoodList DEF Used
  <2>2. T.avail # Null => T.list[T.avail].type = "none"
    BY DEF Good
  <2> QED
    BY <2>1, <2>2
<1>2. Good(Put(T, s, seg)) /\ Put(T, s, seg).list = [T.list EXCEPT ![s] = seg]
  BY <1>1, PutTable
<1>3. T.list \in Seq(Segment) /\ Used(T.list) \subseteq DOMAIN T.list
  BY DEF Good, Used
<1> DEFINE M == Put(T, s, seg).list
<1> HIDE DEF M
<1>4. M[s] = seg /\ (\A t \in DOMAIN T.list \ {s} : M[t] = T.list[t]) /\ Used(M) = Used(T.list) \cup {s}
  BY <1>1, <1>2, <1>3, PutList DEF M
<1> QED
  BY <1>2, <1>3, <1>4 DEF Changed, Same, M

\* free_seg_slot() drops the segment its slot held, if any.
LEMMA FreeGood ==
    ASSUME NEW T, Good(T), NEW s \in DOMAIN T.list
    PROVE  /\ Good(free_seg_slot(T, s))
           /\ s \in Used(T.list) => Dropped(T.list, free_seg_slot(T, s).list, s)
           /\ s \notin Used(T.list) => Kept(T.list, free_seg_slot(T, s).list)
<1> DEFINE F == free_seg_slot(T, s)
           M == [T.list EXCEPT ![s] = Blank]
<1>1. F.list = M /\ F.avail = IF T.avail = Null THEN s ELSE T.avail
  BY DEF free_seg_slot
<1>2. T.list \in Seq(Segment) /\ T.avail \in Nat /\ Used(T.list) \subseteq DOMAIN T.list
      /\ s \in Nat
  BY GoodList DEF Good, Used
<1>3. /\ M \in Seq(Segment) /\ Len(M) = Len(T.list) /\ DOMAIN M = DOMAIN T.list
      /\ M[s] = Blank /\ \A t \in DOMAIN T.list \ {s} : M[t] = T.list[t]
      /\ Used(M) = Used(T.list) \ {s}
  BY <1>2, BlankType, PutList
<1>4. F \in [list : Seq(Segment), avail : Nat]
  BY <1>2, <1>3 DEF free_seg_slot
<1> HIDE DEF F, M
<1>5. Good(F)
  BY <1>1, <1>2, <1>3, <1>4, BlankType DEF Good
<1> QED
  BY <1>1, <1>2, <1>3, <1>5 DEF Kept, Dropped, Same, F

\* segment_cleanup() drops the shared memory segments.
LEMMA CleanGood ==
    ASSUME NEW T, Good(T)
    PROVE  Good(segment_cleanup(T)) /\ Cleaned(T.list, segment_cleanup(T).list)
<1> DEFINE ids == {s \in DOMAIN T.list : T.list[s].type = "shm"}
           C   == segment_cleanup(T)
           M   == [s \in DOMAIN T.list |-> IF s \in ids THEN Blank ELSE T.list[s]]
<1>1. C.list = M /\ C.avail = IF T.avail = Null /\ ids # {} THEN Lowest(ids) ELSE T.avail
  BY DEF segment_cleanup
<1>2. /\ T.avail \in Nat /\ Len(T.list) \in Nat /\ DOMAIN T.list = 1 .. Len(T.list)
      /\ \A s \in DOMAIN T.list : T.list[s] \in Segment
  BY GoodList DEF Good
<1>3. M \in [1 .. Len(T.list) -> Segment]
  BY <1>2, BlankType
<1>4. M \in Seq(Segment) /\ Len(M) = Len(T.list) /\ DOMAIN M = DOMAIN T.list
  <2>1. M \in Seq(Segment)
    BY <1>2, <1>3, SeqDef
  <2> QED
    BY <1>2, <1>3, <2>1, LenProperties
<1>5. ids # {} => Lowest(ids) \in ids
  <2>1. ids \subseteq Nat
    BY <1>2
  <2> QED
    BY <2>1, LowestIs
<1>6. C \in [list : Seq(Segment), avail : Nat]
  BY <1>2, <1>4, <1>5 DEF segment_cleanup
<1>7. \A s \in DOMAIN T.list : M[s] = IF s \in ids THEN Blank ELSE T.list[s]
  OBVIOUS
<1> HIDE DEF C, M
<1>8. C.avail # Null => C.avail \in DOMAIN M /\ M[C.avail].type = "none"
  BY <1>1, <1>4, <1>5, <1>7, BlankType DEF Good
<1>9. Good(C)
  BY <1>1, <1>4, <1>6, <1>8 DEF Good
<1>10. Used(M) = {s \in Used(T.list) : T.list[s].type # "shm"}
  BY <1>4, <1>7, BlankType DEF Used
<1>11. Same(T.list, M, Used(M))
  BY <1>7, <1>10 DEF Same, Used
<1> QED
  BY <1>1, <1>9, <1>10, <1>11 DEF Cleaned, C

-----------------------------------------------------------------------------
(***************************************************************************)
(* Sizes and segments.                                                     *)
(***************************************************************************)

\* The page size, and where a page starts, are sizes, and no page is MAP_FAILED.
LEMMA PageAddress ==
    /\ PageSize \in Size \ {0} /\ NPages \in Nat
    /\ \A p \in Pages : p * PageSize \in Size \ {MAP_FAILED}
<1>1. PageSize \in Nat \ {0} /\ NPages \in Nat /\ (NPages + 1) * PageSize < Word
  BY TableAssumption
<1>2. Word \in Nat
  BY WordAssumption
<1>3. (NPages + 1) * PageSize = NPages * PageSize + PageSize /\ NPages * PageSize \in Nat
  BY <1>1
<1>4. PageSize \in Size
  BY <1>1, <1>2, <1>3 DEF Size
<1>5. ASSUME NEW p \in Pages
      PROVE  p * PageSize \in Size \ {MAP_FAILED}
  <2>1. p \in Nat /\ NPages - p \in Nat
    BY <1>1 DEF Pages
  <2>2. p * PageSize \in Nat /\ (NPages - p) * PageSize \in Nat
    BY <2>1, <1>1
  <2>3. (NPages - p) * PageSize + p * PageSize = NPages * PageSize
    BY <2>1, <1>1
  <2> QED
    BY <1>1, <1>2, <1>3, <2>2, <2>3 DEF Size, MAP_FAILED
<1> QED
  BY <1>1, <1>4, <1>5

\* Rounding a size gives a size.
LEMMA RoundSize ==
    ASSUME NEW size \in Size, NEW ps \in Size
    PROVE  round_down(size, ps) \in Size /\ round_up(size, ps) \in Size
<1>0. Word \in Nat \ {0} /\ size \in Nat /\ ps \in Nat
  BY WordAssumption DEF Size
<1>1. ASSUME NEW z \in Size PROVE round_down(z, ps) \in Size
  <2>1. z \in Nat
    BY <1>0 DEF Size
  <2>2. CASE ps = 0
    BY <1>0, <2>2 DEF round_down, Size
  <2>3. CASE ps # 0
    BY <1>0, <2>1, <2>3, RoundDown DEF Size
  <2> QED
    BY <2>2, <2>3
<1>2. ps # 0 => (size + ps - 1) % Word \in Size
  BY <1>0 DEF Size
<1> QED
  BY <1>0, <1>1, <1>2 DEF round_up, Size

\* A call's range is made of sizes.
LEMMA ClipSize ==
    ASSUME NEW offset \in Size, NEW length \in Size, NEW seglen \in Size, NEW ps \in Size,
           RangeAccepted(offset, seglen, ps)
    PROVE  ClipOffset(offset, ps) \in Size /\ ClipLength(offset, length, seglen, ps) \in Size
<1>1. round_down(offset, ps) \in Size /\ round_up(length, ps) \in Size
  BY RoundSize
<1> QED
  BY <1>1, WordAssumption DEF ClipOffset, ClipLength, RangeAccepted, Size

\* The fields segment_register() sets.
LEMMA NewSegmentIs ==
    ASSUME NEW type \in {"anon", "file", "shm"}, NEW name \in Names,
           NEW offset \in Size, NEW length \in Size, NEW flags \in SUBSET SegFlag,
           NEW seg, seg = NewSegment(type, name, offset, length, flags)
    PROVE  /\ seg \in Segment
           /\ seg.name = name /\ seg.start = MAP_FAILED /\ seg.length = length
           /\ seg.offset = offset /\ seg.pagesize = 0 /\ seg.type = type /\ seg.flags = flags
           /\ seg.prot = {"r", "w"} /\ seg.fd = NONE /\ seg.shmid = NONE
<1>1. MAP_FAILED \in Size /\ 0 \in Size
  BY WordAssumption DEF Size, MAP_FAILED
<1>2. seg = [name |-> name, start |-> MAP_FAILED, length |-> length, offset |-> offset,
             pagesize |-> 0, type |-> type, flags |-> flags, prot |-> {"r", "w"},
             fd |-> NONE, shmid |-> NONE]
  BY DEF NewSegment, Blank
<1> QED
  BY <1>1, <1>2 DEF Segment, SegType

\* A sharing the user asks for is a flag.
LEMMA ShareFlags == \A sh \in Shares : {sh} \in SUBSET SegFlag /\ "maps" \notin {sh}
BY TableAssumption DEF SegFlag

\* A file segment after open_file().
LEMMA OpenedIs ==
    ASSUME NEW name \in Names, NEW offset \in Size, NEW length \in Size, NEW sh \in Shares,
           NEW fd \in Fds, NEW prot \in FileProts,
           NEW seg, seg = Opened(NewSegment("file", name, offset, length, {sh}), fd, prot)
    PROVE  /\ seg \in Segment /\ seg.name = name /\ seg.type = "file" /\ seg.flags = {sh}
           /\ seg.start = MAP_FAILED /\ seg.fd = fd /\ seg.length = length /\ seg.pagesize = 0
<1> DEFINE new == NewSegment("file", name, offset, length, {sh})
<1>1. /\ new \in Segment /\ new.name = name /\ new.type = "file" /\ new.flags = {sh}
      /\ new.start = MAP_FAILED /\ new.length = length /\ new.pagesize = 0
  BY ShareFlags, NewSegmentIs
<1>2. prot \in SUBSET {"r", "w", "x"}
  BY TableAssumption
<1> HIDE DEF new
<1>3. seg = [new EXCEPT !.fd = fd, !.prot = prot]
  BY DEF Opened, new
<1> QED
  BY <1>1, <1>2, <1>3 DEF Segment

\* A shared memory segment after get_shm_segment().
Created(name, length, huge, id) == [ShmSegment(name, length, huge) EXCEPT !.shmid = id]

\* The fields of a segment that shmget() made.
LEMMA ShmSegmentIs ==
    ASSUME NEW name \in Names, NEW length \in Size, NEW huge \in BOOLEAN, NEW id \in ShmIds,
           NEW seg, seg = Created(name, length, huge, id)
    PROVE  /\ seg \in Segment /\ seg.name = name /\ seg.type = "shm" /\ "maps" \notin seg.flags
           /\ seg.start = MAP_FAILED /\ seg.shmid = id
           /\ seg.pagesize = (IF huge THEN HugePageSize ELSE PageSize)
           /\ seg.length = round_up(length, seg.pagesize)
<1> DEFINE ps    == IF huge THEN HugePageSize ELSE PageSize
           flags == {"shared"} \cup (IF huge THEN {"huge"} ELSE {})
           new   == NewSegment("shm", name, 0, round_up(length, ps), flags)
<1>1. ps \in Size /\ 0 \in Size /\ flags \in SUBSET SegFlag /\ "maps" \notin flags
  BY PageAddress, TableAssumption, WordAssumption DEF Size, SegFlag
<1>2. round_up(length, ps) \in Size
  BY <1>1, RoundSize
<1>3. seg = [[new EXCEPT !.pagesize = ps] EXCEPT !.shmid = id]
  BY DEF Created, ShmSegment
<1> HIDE DEF ps, flags
<1>4. /\ new \in Segment /\ new.name = name /\ new.type = "shm" /\ new.flags = flags
      /\ new.start = MAP_FAILED /\ new.length = round_up(length, ps)
  BY <1>1, <1>2, NewSegmentIs
<1> HIDE DEF new
<1>5. /\ seg \in Segment /\ seg.name = name /\ seg.type = "shm" /\ seg.flags = flags
      /\ seg.start = MAP_FAILED /\ seg.shmid = id /\ seg.pagesize = ps /\ seg.length = new.length
  BY <1>1, <1>3, <1>4 DEF Segment
<1> QED
  BY <1>1, <1>4, <1>5 DEF ps

\* A segment read from a line of /proc/<mypid>/maps.
TaskLine == [name : Names, type : {"anon", "file"}, start : Size, length : Size, offset : Size]

\* The fields of a segment read from a line of the task's maps.
LEMMA TaskSegmentIs ==
    ASSUME NEW m \in TaskLine, NEW seg, seg = TaskSegment(m)
    PROVE  /\ seg \in Segment /\ seg.name = m.name /\ seg.type = m.type
           /\ seg.flags = {"private", "maps"} /\ seg.start = m.start /\ seg.length = m.length
           /\ seg.pagesize = 0
<1> DEFINE flags == {"private", "maps"}
           prot  == IF m.type = "file" THEN {"r", "w", "x"} ELSE {"r", "w"}
           new   == NewSegment(m.type, m.name, m.offset, m.length, flags)
<1>1. /\ m.type \in {"anon", "file", "shm"} /\ m.name \in Names /\ m.start \in Size
      /\ m.offset \in Size /\ m.length \in Size
      /\ flags \in SUBSET SegFlag /\ prot \in SUBSET {"r", "w", "x"}
  BY DEF TaskLine, SegFlag
<1>2. seg = [new EXCEPT !.start = m.start, !.prot = prot]
  BY DEF TaskSegment
<1> HIDE DEF flags, prot
<1>3. /\ new \in Segment /\ new.name = m.name /\ new.type = m.type /\ new.flags = flags
      /\ new.length = m.length /\ new.pagesize = 0
  BY <1>1, NewSegmentIs
<1> HIDE DEF new
<1>4. /\ seg \in Segment /\ seg.name = m.name /\ seg.type = m.type /\ seg.flags = flags
      /\ seg.start = m.start /\ seg.length = m.length /\ seg.pagesize = 0
  BY <1>1, <1>2, <1>3 DEF Segment
<1> QED
  BY <1>4 DEF flags

\* What the map command records before it calls the kernel.
SameOwner(seg, old) ==
    /\ seg.name = old.name /\ seg.type = old.type /\ seg.start = old.start
    /\ seg.prot = old.prot /\ seg.fd = old.fd /\ seg.shmid = old.shmid

\* The fields of a segment that map_seg() is about to map.
LEMMA ReadyIs ==
    ASSUME NEW old \in Segment, NEW range \in Ranges, NEW size \in Size,
           NEW share \in {{}} \cup {{x} : x \in Shares},
           NEW seg, seg = ReadyToMap(old, range, share, size)
    PROVE  /\ seg \in Segment /\ SameOwner(seg, old)
           /\ "maps" \in seg.flags => "maps" \in old.flags
           /\ old.type = "anon" => seg.offset = round_down(old.offset, PageSize)
           /\ old.type \in {"anon", "file"} => seg.pagesize = PageSize
           /\ old.type = "shm" => seg = old
<1> DEFINE sh == Shared(old, share)
           ra == Ranged(sh, range)
<1>0. PageSize \in Size
  BY PageAddress
<1>1. /\ sh \in Segment /\ SameOwner(sh, old) /\ sh.offset = old.offset
      /\ "maps" \in sh.flags => "maps" \in old.flags
  <2>1. share # {} => share \in SUBSET SegFlag /\ "maps" \notin share
    BY ShareFlags
  <2> QED
    BY <2>1 DEF Shared, Segment, SameOwner
<1>2. ra \in Segment /\ SameOwner(ra, old) /\ ("maps" \in ra.flags => "maps" \in old.flags)
  <2>1. range # <<>> => range[1] \in Size /\ range[2] \in Size
    BY TableAssumption DEF Ranges
  <2> HIDE DEF sh
  <2> QED
    BY <1>1, <2>1 DEF Ranged, Segment, SameOwner
<1>3. ASSUME NEW z \in Segment
      PROVE  /\ Sized(z) \in Segment /\ SameOwner(Sized(z), z) /\ Sized(z).flags = z.flags
             /\ Sized(z).offset = round_down(z.offset, PageSize) /\ Sized(z).pagesize = PageSize
  <2>1. round_up(z.length, PageSize) \in Size /\ round_down(z.offset, PageSize) \in Size
    BY <1>0, RoundSize DEF Segment
  <2> QED
    BY <1>0, <2>1 DEF Sized, Segment, SameOwner
<1>4. ASSUME NEW z \in Segment
      PROVE  /\ ToEndOfFile(z, size) \in Segment /\ SameOwner(ToEndOfFile(z, size), z)
             /\ ToEndOfFile(z, size).flags = z.flags /\ ToEndOfFile(z, size).pagesize = z.pagesize
  <2>1. round_up(size, PageSize) \in Size
    BY <1>0, RoundSize
  <2>2. (round_up(size, PageSize) - z.offset) % Word \in Size
    BY <2>1, WordAssumption DEF Segment, Size
  <2> QED
    BY <2>2 DEF ToEndOfFile, Segment, SameOwner
<1> HIDE DEF sh, ra
<1>5. CASE old.type = "anon"
  <2>1. seg = Sized(sh)
    BY <1>5 DEF ReadyToMap, sh
  <2> QED
    BY <1>1, <1>3, <1>5, <2>1 DEF SameOwner
<1>6. CASE old.type = "file"
  <2>1. seg = ToEndOfFile(Sized(ra), size)
    BY <1>6 DEF ReadyToMap, sh, ra
  <2>2. /\ Sized(ra) \in Segment /\ SameOwner(Sized(ra), ra) /\ Sized(ra).flags = ra.flags
        /\ Sized(ra).pagesize = PageSize
    BY <1>2, <1>3
  <2>3. /\ seg \in Segment /\ SameOwner(seg, Sized(ra)) /\ seg.flags = Sized(ra).flags
        /\ seg.pagesize = Sized(ra).pagesize
    BY <2>1, <2>2, <1>4
  <2> QED
    BY <1>2, <1>6, <2>2, <2>3 DEF SameOwner
<1>7. CASE old.type \notin {"anon", "file"}
  <2>1. seg = old
    BY <1>7 DEF ReadyToMap
  <2> QED
    BY <1>7, <2>1 DEF SameOwner
<1> QED
  BY <1>5, <1>6, <1>7

-----------------------------------------------------------------------------
(***************************************************************************)
(* The steps of the program, by what they do to the segments in use and to *)
(* the kernel.  Every proof about the table or the kernel is by cases on   *)
(* these effects; that every step has one of them is the lemma Effects.    *)
(***************************************************************************)
Loads ==
    /\ phase = "run" /\ maps # <<>> /\ maps' = Tail(maps)
    /\ ret' = "ok" /\ call' = NoCall /\ UNCHANGED kernel
    /\ \/ Kept(seglist, seglist') /\ phase' \in {"run", "killed"}
       \/ \E s \in Slot :
             Added(seglist, seglist', s, TaskSegment(Head(maps))) /\ phase' = "run"

\* only a report, which is true of the names
Answers(n) ==
    /\ Running /\ Kept(seglist, seglist') /\ call' = NoCall
    /\ \/ ret' = "err"
       \/ ret' = "ok" /\ Named(seglist, n) # {}
       \/ ret' = "full" /\ Named(seglist, n) = {} /\ Used(seglist) = Slot
    /\ UNCHANGED <<maps, kernel, phase>>

AddsAnon(n) ==
    /\ Running /\ ret' = "ok" /\ call' = NoCall
    /\ \E s \in Slot, o \in Size, l \in Size, sh \in Shares :
          /\ o \in Addrs \/ Anchors # {}
          /\ Added(seglist, seglist', s, NewSegment("anon", n, o, l, {sh}))
    /\ UNCHANGED <<maps, kernel, phase>>

AddsFile(n) ==
    /\ Running /\ ret' = "ok" /\ call' = NoCall
    /\ \E s \in Slot, o \in Size, l \in Size, sh \in Shares, fd \in Fds \ fds, prot \in FileProts :
          /\ Added(seglist, seglist', s, Opened(NewSegment("file", n, o, l, {sh}), fd, prot))
          /\ fds' = fds \cup {fd}
    /\ UNCHANGED <<maps, vm, shm, fsize, phase>>

AddsShm(n) ==
    /\ Running /\ ret' = "ok" /\ call' = NoCall
    /\ \E s \in Slot, l \in Size, huge \in BOOLEAN, id \in ShmIds \ shm :
          /\ Added(seglist, seglist', s, Created(n, l, huge, id))
          /\ ShmSegment(n, l, huge).length > 0
          /\ shm' = shm \cup {id}
    /\ UNCHANGED <<maps, vm, fds, fsize, phase>>

\* s is the segment that the name n means.
Means(n, s) ==
    /\ Running /\ s \in Used(seglist) /\ seglist[s].name = n
    /\ s = Lowest(Named(seglist, n))

Unmaps(n, s) ==
    /\ Means(n, s) /\ ~IsMaps(s) /\ ret' = "ok" /\ call' = NoCall
    /\ Changed(seglist, seglist', s, [seglist[s] EXCEPT !.start = MAP_FAILED])
    /\ vm' = Unmapped(s)
    /\ UNCHANGED <<maps, shm, fds, fsize, phase>>

Removes(n, s) ==
    /\ Means(n, s) /\ ~IsMaps(s) /\ ret' = "ok" /\ call' = NoCall
    /\ Dropped(seglist, seglist', s)
    /\ vm' = Unmapped(s)
    /\ fds' = fds \ ClosedBy(seglist[s]) /\ shm' = shm \ RemovedBy(seglist[s])
    /\ UNCHANGED <<maps, fsize, phase>>

\* seg is what the map command records for slot s before it calls the kernel.
Prepared(s, seg) ==
    /\ seg \in Segment /\ SameOwner(seg, seglist[s])
    /\ "maps" \in seg.flags => "maps" \in seglist[s].flags
    /\ seglist[s].type = "anon" => seg.offset = round_down(seglist[s].offset, PageSize)
    /\ seglist[s].type \in {"anon", "file"} => seg.pagesize = PageSize
    /\ seglist[s].type = "shm" => seg = seglist[s]

Maps(n, s) ==
    /\ Means(n, s) /\ ~IsMapped(s) /\ ret' = "ok" /\ call' = NoCall
    /\ \E seg, size, a :
          /\ Prepared(s, seg) /\ a \in Places(seg, size)
          /\ Changed(seglist, seglist', s, [seg EXCEPT !.start = a])
          /\ vm' = [p \in Pages |-> IF p \in PagesIn(a, seg.length)
                                    THEN [owner |-> s, prot |-> MapProt(seg)] ELSE vm[p]]
    /\ UNCHANGED <<maps, shm, fds, fsize, phase>>

MapFails(n, s) ==
    /\ Means(n, s) /\ ~IsMapped(s) /\ ret' = "err" /\ call' = NoCall
    /\ \E seg : Prepared(s, seg) /\ Changed(seglist, seglist', s, seg)
    /\ UNCHANGED <<maps, kernel, phase>>

Protects(n, s) ==
    /\ Means(n, s) /\ seglist[s].start # MAP_FAILED /\ ret' = "ok" /\ call' = NoCall
    /\ \E prot \in SUBSET {"r", "w", "x"} :
          /\ Changed(seglist, seglist', s, [seglist[s] EXCEPT !.prot = prot])
          /\ \A p \in PagesIn(seglist[s].start, seglist[s].length) : vm[p] # Free
          /\ vm' = Protected(PagesIn(seglist[s].start, seglist[s].length), prot)
    /\ UNCHANGED <<maps, shm, fds, fsize, phase>>

ProtectFails(n, s) ==
    /\ Means(n, s) /\ Kept(seglist, seglist') /\ ret' = "err" /\ call' = NoCall
    /\ \E prot \in SUBSET {"r", "w", "x"}, S \in SUBSET PagesIn(seglist[s].start, seglist[s].length) :
          /\ \A p \in S : vm[p] # Free
          /\ S # {} => \E p \in PagesIn(seglist[s].start, seglist[s].length) : vm[p] = Free
          /\ vm' \in {vm, Protected(S, prot)}
    /\ UNCHANGED <<maps, shm, fds, fsize, phase>>

Uses(n, s) ==
    /\ Means(n, s) /\ Kept(seglist, seglist') /\ ret' \in {"ok", "err"}
    /\ \E op \in {"touch", "sys"}, o \in Offsets, l \in Size :
          /\ op = "sys" => IsMapped(s)
          /\ Accepted(s, o)
          /\ call' = [op |-> op, slot |-> s, start |-> CallStart(s, o),
                      length |-> CallLength(s, o, l)]
    /\ UNCHANGED <<maps, kernel, phase>>

Spins ==
    /\ Running /\ Kept(seglist, seglist') /\ call' = NoCall
    /\ phase' = "spin" /\ UNCHANGED <<maps, kernel, ret>>

Dies == Alive /\ maps = <<>> /\ DieBySignal /\ UNCHANGED <<seg_avail, ret>>

Exits ==
    /\ Running /\ Cleaned(seglist, seglist') /\ ret' \in {"ok", "err"} /\ call' = NoCall
    /\ shm' = shm \ UNION {RemovedBy(seglist[s]) : s \in Used(seglist)}
    /\ fds' = {} /\ vm' = [p \in Pages |-> Free] /\ phase' = "exited"
    /\ UNCHANGED <<maps, fsize>>

Resizes ==
    /\ Running /\ fsize' \in [FileNames -> FileSizes]
    /\ UNCHANGED <<seglist, seg_avail, maps, vm, shm, fds, ret, call, phase>>

Effect ==
    \/ Loads \/ Spins \/ Dies \/ Exits \/ Resizes
    \/ \E n \in Names : Answers(n) \/ AddsAnon(n) \/ AddsFile(n) \/ AddsShm(n)
    \/ \E n \in Names, s \in Slot :
          \/ Unmaps(n, s) \/ Removes(n, s) \/ Maps(n, s) \/ MapFails(n, s)
          \/ Protects(n, s) \/ ProtectFails(n, s) \/ Uses(n, s)

-----------------------------------------------------------------------------
(***************************************************************************)
(* The invariant that the effects rest on: the values have their types,    *)
(* the saved slot is free, the lines still to be read have their type, and *)
(* a touch spins only after they have been read.                           *)
(***************************************************************************)
LinesOK ==
    /\ maps \in Seq(TaskLine) /\ \A i \in DOMAIN maps : maps[i].start # MAP_FAILED
    /\ phase = "spin" => maps = <<>>

TableInv == TypeOK /\ AvailFree /\ LinesOK

\* What TableInv says, in the form the operators on a table take it.
LEMMA GoodTable ==
    ASSUME TableInv
    PROVE  /\ Good(Table) /\ Table.list = seglist
           /\ seglist \in Seq(Segment) /\ Len(seglist) \in Nat
           /\ DOMAIN seglist = 1 .. Len(seglist) /\ DOMAIN seglist \subseteq Slot
           /\ Used(seglist) \subseteq DOMAIN seglist
           /\ \A s \in DOMAIN seglist : seglist[s] \in Segment
<1>1. seglist \in Seq(Segment) /\ Len(seglist) =< MaxSegments
      /\ seg_avail \in {Null} \cup DOMAIN seglist
  BY DEF TableInv, TypeOK
<1>2. seg_avail \in Nat
  BY <1>1, LenProperties DEF Null
<1>3. Good(Table)
  BY <1>1, <1>2 DEF TableInv, AvailFree, InUse, Good, Table
<1>4. Table.list = seglist
  BY DEF Table
<1>5. Used(seglist) \subseteq DOMAIN seglist
  BY DEF Used
<1> QED
  BY <1>3, <1>4, <1>5, GoodList

\* The table an operation leaves behind.
LEMMA BecomeGood ==
    ASSUME NEW T, Good(T), Become(T)
    PROVE  Good(Table') /\ seglist' = T.list
BY DEF Become, Good, Table

\* Names look only at the slots in use.
LEMMA KeptNamed ==
    ASSUME NEW L, NEW M, NEW n, Kept(L, M)
    PROVE  Named(M, n) = Named(L, n)
<1>1. Named(L, n) = {s \in Used(L) : L[s].name = n} /\ Named(M, n) = {s \in Used(M) : M[s].name = n}
  BY DEF Named, Used
<1> QED
  BY <1>1 DEF Kept, Same

\* A new segment is put into the slot that was claimed for it.
LEMMA PlaceEffect ==
    ASSUME NEW T, Good(T), Kept(seglist, T.list), NEW name, NEW mem1, NEW mem2,
           NEW t, t = ClaimSlot(T, name, mem1, mem2), t.slot \in Slot,
           NEW seg \in Segment, seg.type # "none", seg.name = name,
           Become(Put(t.table, t.slot, seg))
    PROVE  Good(Table') /\ Added(seglist, seglist', t.slot, seg)
<1>1. /\ Good(t.table) /\ Kept(T.list, t.table.list)
      /\ t.slot \in DOMAIN t.table.list /\ t.slot \notin Used(t.table.list) /\ t.table.avail = Null
      /\ t.slot # Taken
  BY ClaimGood DEF Taken, Slot
<1>2. Named(T.list, name) = {}
  <2>1. Known(T.list, name) => t.slot = Taken
    BY ClaimGood
  <2> QED
    BY <1>1, <2>1 DEF Known
<1>3. Kept(seglist, t.table.list)
  BY <1>1 DEF Kept, Same
<1>4. Named(t.table.list, name) = {}
  BY <1>1, <1>2, KeptNamed
<1>5. \A u \in Used(t.table.list) : t.table.list[u].name # seg.name
  BY <1>4 DEF Named, Used
<1> DEFINE P == Put(t.table, t.slot, seg)
<1>6. Good(P) /\ Added(t.table.list, P.list, t.slot, seg)
  BY <1>1, <1>5, PutAdds
<1> HIDE DEF P
<1>7. Good(Table') /\ seglist' = P.list
  BY <1>6, BecomeGood DEF P
<1> QED
  BY <1>3, <1>6, <1>7 DEF Added, Kept, Same

\* The slot that was claimed is freed again.
LEMMA GiveUpEffect ==
    ASSUME NEW T, Good(T), Kept(seglist, T.list), NEW name, NEW mem1, NEW mem2,
           NEW t, t = ClaimSlot(T, name, mem1, mem2), t.slot \in Slot,
           Become(free_seg_slot(t.table, t.slot))
    PROVE  Good(Table') /\ Kept(seglist, seglist')
<1>1. /\ Good(t.table) /\ Kept(T.list, t.table.list)
      /\ t.slot \in DOMAIN t.table.list /\ t.slot \notin Used(t.table.list)
  BY ClaimGood
<1> DEFINE F == free_seg_slot(t.table, t.slot)
<1>2. Good(F) /\ Kept(t.table.list, F.list)
  BY <1>1, FreeGood
<1> HIDE DEF F
<1>3. Good(Table') /\ seglist' = F.list
  BY <1>2, BecomeGood DEF F
<1> QED
  BY <1>1, <1>2, <1>3 DEF Kept, Same

\* exit() and what its handler does to a table that holds the same segments.
LEMMA ExitEffect ==
    ASSUME NEW T, Good(T), Kept(seglist, T.list), Running, ret' \in {"ok", "err"}, ExitWith(T)
    PROVE  Good(Table') /\ Exits
<1> DEFINE C == segment_cleanup(T)
<1>1. Good(C) /\ Cleaned(T.list, C.list)
  BY CleanGood
<1>2. Become(C)
  BY DEF ExitWith
<1> HIDE DEF C
<1>3. Good(Table') /\ seglist' = C.list
  BY <1>1, <1>2, BecomeGood
<1>4. Cleaned(seglist, seglist')
  BY <1>1, <1>3 DEF Kept, Cleaned, Same
<1>5. UNION {RemovedBy(T.list[s]) : s \in DOMAIN T.list} = UNION {RemovedBy(seglist[s]) : s \in Used(seglist)}
  <2>1. \A s \in DOMAIN T.list : RemovedBy(T.list[s]) # {} => s \in Used(T.list)
    BY DEF RemovedBy, Used
  <2>2. Used(T.list) = Used(seglist) /\ \A s \in Used(seglist) : T.list[s] = seglist[s]
    BY DEF Kept, Same
  <2>3. Used(T.list) \subseteq DOMAIN T.list
    BY DEF Used
  <2> QED
    BY <2>1, <2>2, <2>3
<1> QED
  BY <1>3, <1>4, <1>5 DEF ExitWith, Exits

\* A registration that does not get a slot.
LEMMA RefusedEffect ==
    ASSUME NEW T, Good(T), Kept(seglist, T.list), Running, UNCHANGED maps,
           NEW name, NEW mem1, NEW mem2,
           NEW t, t = ClaimSlot(T, name, mem1, mem2), NotRegistered(t)
    PROVE  Good(Table') /\ (Answers(name) \/ Exits)
<1>1. Good(t.table) /\ Kept(T.list, t.table.list)
      /\ (Known(T.list, name) => t.slot = Taken)
      /\ (t.slot = Null => Full(T.list))
  BY ClaimGood
<1>2. Kept(seglist, t.table.list)
  BY <1>1 DEF Kept, Same
<1>3. CASE t.slot = Taken /\ ret' = "err" /\ Become(t.table) /\ call' = NoCall /\ UNCHANGED <<kernel, phase>>
  <2>1. Good(Table') /\ seglist' = t.table.list
    BY <1>1, <1>3, BecomeGood
  <2> QED
    BY <1>2, <1>3, <2>1 DEF Answers
<1>4. CASE t.slot = Null /\ ret' = "full" /\ Become(t.table) /\ call' = NoCall /\ UNCHANGED <<kernel, phase>>
  <2>1. Good(Table') /\ seglist' = t.table.list
    BY <1>1, <1>4, BecomeGood
  <2>2. Named(T.list, name) = {} /\ Used(T.list) = Slot
    BY <1>1, <1>4 DEF Taken, Null, Known, Full
  <2>3. Named(seglist, name) = {}
    BY <2>2, KeptNamed
  <2>4. Used(seglist) = Slot
    BY <2>2 DEF Kept
  <2> QED
    BY <1>2, <1>4, <2>1, <2>3, <2>4 DEF Answers
<1>5. CASE t.slot = Crash /\ ret' = "err" /\ ExitWith(t.table)
  BY <1>1, <1>2, <1>5, ExitEffect
<1> QED
  BY <1>3, <1>4, <1>5 DEF NotRegistered

\* get_task_segments()
LEMMA LoadEffect ==
    ASSUME TableInv, get_task_segments
    PROVE  Good(Table') /\ Loads
<1>1. PICK mem1 \in Calloc, mem2 \in Calloc :
         LET m == Head(maps)
             t == ClaimSlot(Table, m.name, mem1, mem2)
         IN  \/ /\ t.slot \in {Taken, Null}
                /\ Become(t.table) /\ UNCHANGED phase
             \/ /\ t.slot = Crash
                /\ Become(t.table) /\ phase' = "killed"
             \/ /\ t.slot \in Slot
                /\ Become(Put(t.table, t.slot, TaskSegment(m))) /\ UNCHANGED phase
  BY DEF get_task_segments
<1> DEFINE m == Head(maps)
           t == ClaimSlot(Table, m.name, mem1, mem2)
<1>2. /\ phase = "run" /\ maps # <<>> /\ maps' = Tail(maps)
      /\ ret' = "ok" /\ call' = NoCall /\ UNCHANGED kernel
  BY DEF get_task_segments
<1>3. Good(Table) /\ Table.list = seglist /\ Kept(seglist, seglist)
  BY GoodTable DEF Kept, Same
<1>4. m \in TaskLine
  BY <1>2, HeadTailProperties DEF TableInv, LinesOK
<1>5. Good(t.table) /\ Kept(seglist, t.table.list)
  BY <1>3, ClaimGood
<1>6. CASE t.slot \in {Taken, Null, Crash} /\ Become(t.table) /\ phase' \in {"run", "killed"}
  <2> HIDE DEF t
  <2>1. Good(Table') /\ seglist' = t.table.list
    BY <1>5, <1>6, BecomeGood
  <2> QED
    BY <1>2, <1>5, <1>6, <2>1 DEF Loads
<1>7. CASE /\ t.slot \in Slot
           /\ Become(Put(t.table, t.slot, TaskSegment(m))) /\ phase' = "run"
  <2> DEFINE seg == TaskSegment(m)
  <2>1. seg \in Segment /\ seg.type # "none" /\ seg.name = m.name
    BY <1>4, TaskSegmentIs DEF TaskLine
  <2> HIDE DEF seg, m
  <2>2. Good(Table') /\ Added(seglist, seglist', t.slot, seg)
    BY <1>3, <1>7, <2>1, PlaceEffect DEF seg
  <2> HIDE DEF t
  <2> QED
    BY <1>2, <1>7, <2>2 DEF Loads, seg, m
<1> QED
  BY <1>1, <1>2, <1>6, <1>7

\* An anonymous segment, registered after some lookup.
LEMMA AnonAtEffect ==
    ASSUME NEW T, Good(T), Kept(seglist, T.list), Running, UNCHANGED maps,
           NEW n \in Names, NEW o \in Size, NEW l \in Size, NEW sh \in Shares,
           o \in Addrs \/ Anchors # {}, RegisterAnonAt(T, n, o, l, sh)
    PROVE  Good(Table') /\ (Answers(n) \/ AddsAnon(n) \/ Exits)
<1> DEFINE seg == NewSegment("anon", n, o, l, {sh})
<1>1. PICK mem1 \in Calloc, mem2 \in Calloc :
         LET t == ClaimSlot(T, n, mem1, mem2)
         IN  \/ NotRegistered(t)
             \/ /\ t.slot \in Slot /\ Become(Put(t.table, t.slot, seg))
                /\ ret' = "ok" /\ call' = NoCall /\ UNCHANGED <<kernel, phase>>
  BY DEF RegisterAnonAt
<1> DEFINE t == ClaimSlot(T, n, mem1, mem2)
<1>2. CASE NotRegistered(t)
  BY <1>2, RefusedEffect
<1>3. CASE /\ t.slot \in Slot /\ Become(Put(t.table, t.slot, seg))
           /\ ret' = "ok" /\ call' = NoCall /\ UNCHANGED <<kernel, phase>>
  <2>1. seg \in Segment /\ seg.type # "none" /\ seg.name = n
    BY ShareFlags, NewSegmentIs
  <2> HIDE DEF seg
  <2>2. Good(Table') /\ Added(seglist, seglist', t.slot, seg)
    BY <1>3, <2>1, PlaceEffect
  <2> HIDE DEF t
  <2> QED
    BY <1>3, <2>2 DEF AddsAnon, seg
<1> QED
  BY <1>1, <1>2, <1>3

\* anon: a segment is added, or the request is answered.
LEMMA AnonEffect ==
    ASSUME TableInv, NEW n \in Names, NEW o \in Addrs, NEW l \in Lengths, NEW sh \in Shares,
           RegisterAnon(n, o, l, sh)
    PROVE  Good(Table') /\ (Answers(n) \/ AddsAnon(n) \/ Exits)
<1>1. Good(Table) /\ Kept(seglist, Table.list)
  BY GoodTable DEF Kept, Same
<1>2. o \in Size /\ l \in Size
  BY TableAssumption
<1> QED
  BY <1>1, <1>2, AnonAtEffect DEF RegisterAnon

\* anon offset=<segment>: as anon, when the anchor is known.
LEMMA AfterEffect ==
    ASSUME TableInv, NEW n \in Names, NEW after \in Anchors, NEW l \in Lengths, NEW sh \in Shares,
           RegisterAnonAfter(n, after, l, sh)
    PROVE  Good(Table') /\ (Answers(n) \/ AddsAnon(n) \/ Exits)
<1> DEFINE prev == seglist[Lowest(Named(seglist, after))]
           o    == (prev.offset + prev.length) % Word
<1>1. PICK mem \in Calloc :
         LET g == segment_get(Table, after, mem)
         IN  \/ /\ Named(seglist, after) = {} /\ ret' = "err"
                /\ Become(g) /\ call' = NoCall /\ UNCHANGED <<kernel, phase>>
             \/ /\ Named(seglist, after) # {}
                /\ RegisterAnonAt(g, n, o, l, sh)
  BY DEF RegisterAnonAfter
<1> DEFINE g == segment_get(Table, after, mem)
<1>2. Running /\ UNCHANGED maps
  BY DEF RegisterAnonAfter
<1>3. Good(g) /\ Kept(seglist, g.list)
  BY GoodTable, LookupGood
<1>4. CASE ret' = "err" /\ Become(g) /\ call' = NoCall /\ UNCHANGED <<kernel, phase>>
  <2> HIDE DEF g
  <2>1. Good(Table') /\ seglist' = g.list
    BY <1>3, <1>4, BecomeGood
  <2> QED
    BY <1>2, <1>3, <1>4, <2>1 DEF Answers
<1>5. CASE Named(seglist, after) # {} /\ RegisterAnonAt(g, n, o, l, sh)
  <2>1. Named(seglist, after) \subseteq DOMAIN seglist /\ Named(seglist, after) \subseteq Nat
    BY GoodTable DEF Named
  <2>2. Lowest(Named(seglist, after)) \in DOMAIN seglist
    BY <1>5, <2>1, LowestIs
  <2>3. prev \in Segment
    BY <2>2, GoodTable
  <2> HIDE DEF prev
  <2>4. prev.offset \in Nat /\ prev.length \in Nat
    BY <2>3, WordAssumption DEF Segment, Size
  <2>5. o \in Size
    BY <2>4, WordAssumption DEF Size
  <2>6. l \in Size /\ Anchors # {}
    BY TableAssumption
  <2> HIDE DEF g, o
  <2> QED
    BY <1>2, <1>3, <1>5, <2>5, <2>6, AnonAtEffect
<1> QED
  BY <1>1, <1>4, <1>5

\* A file segment.
LEMMA FileEffect ==
    ASSUME TableInv, NEW n \in FileNames, NEW o \in Offsets, NEW l \in Lengths, NEW sh \in Shares,
           RegisterFile(n, o, l, sh)
    PROVE  Good(Table') /\ n \in Names /\ (Answers(n) \/ AddsFile(n) \/ Exits)
<1> DEFINE new == NewSegment("file", n, o, l, {sh})
<1>1. PICK mem1 \in Calloc, mem2 \in Calloc :
         LET t == ClaimSlot(Table, n, mem1, mem2)
         IN  \/ NotRegistered(t)
             \/ /\ t.slot \in Slot
                /\ \E fd \in Fds \ fds, prot \in FileProts :
                      /\ Become(Put(t.table, t.slot, Opened(new, fd, prot)))
                      /\ fds' = fds \cup {fd}
                /\ ret' = "ok" /\ call' = NoCall
                /\ UNCHANGED <<vm, shm, fsize, phase>>
             \/ /\ t.slot \in Slot
                /\ Become(free_seg_slot(t.table, t.slot))
                /\ ret' = "err" /\ call' = NoCall
                /\ UNCHANGED <<kernel, phase>>
  BY DEF RegisterFile
<1> DEFINE t == ClaimSlot(Table, n, mem1, mem2)
<1>2. Running /\ UNCHANGED maps
  BY DEF RegisterFile
<1>3. Good(Table) /\ Kept(seglist, Table.list)
  BY GoodTable DEF Kept, Same
<1>4. n \in Names /\ o \in Size /\ l \in Size
  BY TableAssumption
<1>5. CASE NotRegistered(t)
  BY <1>2, <1>3, <1>4, <1>5, RefusedEffect
<1>6. ASSUME t.slot \in Slot, NEW fd \in Fds \ fds, NEW prot \in FileProts,
             Become(Put(t.table, t.slot, Opened(new, fd, prot))), fds' = fds \cup {fd},
             ret' = "ok", call' = NoCall, UNCHANGED <<vm, shm, fsize, phase>>
      PROVE  Good(Table') /\ AddsFile(n)
  <2> DEFINE seg == Opened(new, fd, prot)
  <2>1. seg \in Segment /\ seg.type # "none" /\ seg.name = n
    BY <1>4, OpenedIs
  <2> HIDE DEF seg
  <2>2. Good(Table') /\ Added(seglist, seglist', t.slot, seg)
    BY <1>3, <1>6, <2>1, PlaceEffect DEF seg
  <2> HIDE DEF t
  <2> QED
    BY <1>2, <1>4, <1>6, <2>2 DEF AddsFile, seg
<1>7. CASE /\ t.slot \in Slot /\ Become(free_seg_slot(t.table, t.slot))
           /\ ret' = "err" /\ call' = NoCall /\ UNCHANGED <<kernel, phase>>
  <2>1. Good(Table') /\ Kept(seglist, seglist')
    BY <1>3, <1>7, GiveUpEffect
  <2> HIDE DEF t
  <2> QED
    BY <1>2, <1>4, <1>7, <2>1 DEF Answers
<1> QED
  BY <1>1, <1>4, <1>5, <1>6, <1>7

\* A shared memory segment.
LEMMA ShmEffect ==
    ASSUME TableInv, NEW n \in Names, NEW l \in Lengths, NEW huge \in BOOLEAN,
           RegisterShm(n, l, huge)
    PROVE  Good(Table') /\ (Answers(n) \/ AddsShm(n) \/ Exits)
<1> DEFINE new == ShmSegment(n, l, huge)
<1>1. PICK mem1 \in Calloc, mem2 \in Calloc :
         LET t == ClaimSlot(Table, n, mem1, mem2)
         IN  \/ NotRegistered(t)
             \/ /\ t.slot \in Slot /\ new.length > 0
                /\ \E id \in ShmIds \ shm :
                      /\ Become(Put(t.table, t.slot, [new EXCEPT !.shmid = id]))
                      /\ shm' = shm \cup {id}
                /\ ret' = "ok" /\ call' = NoCall
                /\ UNCHANGED <<vm, fds, fsize, phase>>
             \/ /\ t.slot \in Slot
                /\ Become(free_seg_slot(t.table, t.slot))
                /\ ret' = "err" /\ call' = NoCall
                /\ UNCHANGED <<kernel, phase>>
  BY DEF RegisterShm
<1> DEFINE t == ClaimSlot(Table, n, mem1, mem2)
<1>2. Running /\ UNCHANGED maps
  BY DEF RegisterShm
<1>3. Good(Table) /\ Kept(seglist, Table.list)
  BY GoodTable DEF Kept, Same
<1>4. l \in Size
  BY TableAssumption
<1>5. CASE NotRegistered(t)
  BY <1>2, <1>3, <1>5, RefusedEffect
<1>6. ASSUME t.slot \in Slot, NEW id \in ShmIds \ shm, new.length > 0,
             Become(Put(t.table, t.slot, [new EXCEPT !.shmid = id])), shm' = shm \cup {id},
             ret' = "ok", call' = NoCall, UNCHANGED <<vm, fds, fsize, phase>>
      PROVE  Good(Table') /\ AddsShm(n)
  <2> DEFINE seg == Created(n, l, huge, id)
  <2>0. seg = [new EXCEPT !.shmid = id]
    BY DEF Created
  <2> HIDE DEF new
  <2>1. seg \in Segment /\ seg.type = "shm" /\ seg.name = n
    BY <1>4, ShmSegmentIs
  <2> HIDE DEF seg
  <2>2. Good(Table') /\ Added(seglist, seglist', t.slot, seg)
    <3>1. Become(Put(t.table, t.slot, seg))
      BY <1>6, <2>0, Zenon
    <3> QED
      BY <1>3, <1>6, <2>1, <3>1, PlaceEffect
  <2> HIDE DEF t
  <2> QED
    BY <1>2, <1>4, <1>6, <2>2 DEF AddsShm, seg, new
<1>7. CASE /\ t.slot \in Slot /\ Become(free_seg_slot(t.table, t.slot))
           /\ ret' = "err" /\ call' = NoCall /\ UNCHANGED <<kernel, phase>>
  <2>1. Good(Table') /\ Kept(seglist, seglist')
    BY <1>3, <1>7, GiveUpEffect
  <2> HIDE DEF t
  <2> QED
    BY <1>2, <1>7, <2>1 DEF Answers
<1> QED
  BY <1>1, <1>5, <1>6, <1>7

\* A lookup that finds its name.
LEMMA HitFacts ==
    ASSUME TableInv, NEW n, NEW s, Hit(n, s)
    PROVE  /\ Means(n, s) /\ s \in Slot /\ seglist[s] \in Segment
           /\ Good(Found(n)) /\ Found(n).list = seglist
           /\ Named(seglist, n) # {} /\ Running
<1>1. Named(seglist, n) # {} /\ s = Lowest(Named(seglist, n)) /\ Running
  BY DEF Hit
<1>2. Named(seglist, n) \subseteq Nat
  BY GoodTable DEF Named
<1>3. s \in Named(seglist, n)
  BY <1>1, <1>2, LowestIs
<1>4. s \in Used(seglist) /\ seglist[s].name = n
  BY <1>3 DEF Named, Used
<1>5. Good(Table) /\ Table.list = seglist
  BY GoodTable
<1>6. Good(Found(n)) /\ Found(n).list = seglist
  BY <1>1, <1>5, LookupGood DEF Found
<1> QED
  BY <1>1, <1>4, <1>6, GoodTable DEF Means

\* An operation that leaves the table as the lookup left it.
LEMMA FoundEffect ==
    ASSUME TableInv, NEW n, NEW s, Hit(n, s), Become(Found(n))
    PROVE  Good(Table') /\ seglist' = seglist /\ Kept(seglist, seglist')
<1>1. Good(Found(n)) /\ Found(n).list = seglist
  BY HitFacts
<1>2. Good(Table') /\ seglist' = seglist
  BY <1>1, BecomeGood
<1> QED
  BY <1>2 DEF Kept, Same

\* An operation on a segment it found only reports.
LEMMA ReportEffect ==
    ASSUME TableInv, NEW n, NEW s, Hit(n, s), NEW r \in {"ok", "err"}, Report(n, r)
    PROVE  Good(Table') /\ Answers(n)
<1>1. Good(Table') /\ Kept(seglist, seglist')
  BY FoundEffect DEF Report
<1> QED
  BY <1>1, HitFacts DEF Report, Answers

\* An operation that records something new about its segment.
LEMMA ChangeEffect ==
    ASSUME TableInv, NEW n, NEW s, Hit(n, s), NEW seg \in Segment,
           seg.type = seglist[s].type, seg.name = seglist[s].name,
           Become(Put(Found(n), s, seg))
    PROVE  Good(Table') /\ Changed(seglist, seglist', s, seg)
<1>1. Good(Found(n)) /\ Found(n).list = seglist /\ s \in Used(seglist)
  BY HitFacts DEF Means
<1>2. /\ Good(Put(Found(n), s, seg))
      /\ Changed(seglist, Put(Found(n), s, seg).list, s, seg)
  BY <1>1, PutChanges
<1> QED
  BY <1>2, BecomeGood

\* An operation on a name that no segment has only reports.
LEMMA MissEffect ==
    ASSUME TableInv, NEW n \in Names, Miss(n)
    PROVE  Good(Table') /\ Answers(n)
<1>1. PICK mem \in Calloc : Become(segment_get(Table, n, mem))
  BY DEF Miss
<1>2. Good(segment_get(Table, n, mem)) /\ Kept(seglist, segment_get(Table, n, mem).list)
  BY GoodTable, LookupGood
<1>3. Good(Table') /\ Kept(seglist, seglist')
  BY <1>1, <1>2, BecomeGood
<1> QED
  BY <1>3 DEF Miss, Answers

\* unmap: a mapping is taken back, or the request is answered.
LEMMA UnmapEffect ==
    ASSUME TableInv, NEW n \in Names, segment_unmap(n)
    PROVE  Good(Table') /\ (Answers(n) \/ \E s \in Slot : Unmaps(n, s))
<1>1. PICK s \in Slot :
        /\ Hit(n, s)
        /\ \/ IsMaps(s) /\ Report(n, "err")
           \/ /\ ~IsMaps(s)
              /\ Become(Put(Found(n), s, [seglist[s] EXCEPT !.start = MAP_FAILED]))
              /\ vm' = Unmapped(s)
              /\ ret' = "ok" /\ call' = NoCall
              /\ UNCHANGED <<maps, shm, fds, fsize, phase>>
  BY DEF segment_unmap
<1>2. CASE Report(n, "err")
  BY <1>1, <1>2, ReportEffect
<1>3. CASE ~Report(n, "err")
  <2> DEFINE seg == [seglist[s] EXCEPT !.start = MAP_FAILED]
  <2>1. MAP_FAILED \in Size
    BY WordAssumption DEF MAP_FAILED, Size
  <2>2. seg \in Segment /\ seg.type = seglist[s].type /\ seg.name = seglist[s].name
    BY <1>1, <2>1, HitFacts DEF Segment
  <2>3. Become(Put(Found(n), s, seg))
    BY <1>1, <1>3
  <2>4. /\ ~IsMaps(s) /\ vm' = Unmapped(s) /\ ret' = "ok" /\ call' = NoCall
        /\ UNCHANGED <<maps, shm, fds, fsize, phase>>
    BY <1>1, <1>3
  <2> HIDE DEF seg
  <2>5. Good(Table') /\ Changed(seglist, seglist', s, seg)
    BY <1>1, <2>2, <2>3, ChangeEffect
  <2>6. Means(n, s)
    BY <1>1, HitFacts
  <2>7. Unmaps(n, s)
    BY <2>4, <2>5, <2>6 DEF Unmaps, seg
  <2> QED
    BY <2>5, <2>7
<1> QED
  BY <1>2, <1>3

\* remove: a segment is dropped, or the request is answered.
LEMMA RemoveEffect ==
    ASSUME TableInv, NEW n \in Names, segment_remove(n)
    PROVE  Good(Table') /\ (Answers(n) \/ \E s \in Slot : Removes(n, s))
<1>1. PICK s \in Slot :
        /\ Hit(n, s)
        /\ \/ IsMaps(s) /\ Report(n, "err")
           \/ /\ ~IsMaps(s)
              /\ Become(free_seg_slot(Found(n), s))
              /\ vm' = Unmapped(s)
              /\ fds' = fds \ ClosedBy(seglist[s])
              /\ shm' = shm \ RemovedBy(seglist[s])
              /\ ret' = "ok" /\ call' = NoCall
              /\ UNCHANGED <<maps, fsize, phase>>
  BY DEF segment_remove
<1>2. CASE Report(n, "err")
  BY <1>1, <1>2, ReportEffect
<1>3. CASE ~Report(n, "err")
  <2>1. Good(Found(n)) /\ Found(n).list = seglist /\ s \in Used(seglist) /\ Means(n, s)
    BY <1>1, HitFacts DEF Means
  <2>2. s \in DOMAIN seglist
    BY <2>1 DEF Used
  <2> DEFINE F == free_seg_slot(Found(n), s)
  <2>3. Good(F) /\ Dropped(seglist, F.list, s)
    BY <2>1, <2>2, FreeGood
  <2>4. Become(F)
    BY <1>1, <1>3
  <2> HIDE DEF F
  <2>5. Good(Table') /\ Dropped(seglist, seglist', s)
    BY <2>3, <2>4, BecomeGood
  <2>6. Removes(n, s)
    BY <1>1, <1>3, <2>1, <2>5 DEF Removes
  <2> QED
    BY <2>5, <2>6
<1> QED
  BY <1>2, <1>3

\* map: a mapping is made, recorded as failed, or refused.
LEMMA MapEffect ==
    ASSUME TableInv, NEW n \in Names, NEW range \in Ranges,
           NEW share \in {{}} \cup {{x} : x \in Shares}, segment_map(n, range, share)
    PROVE  Good(Table') /\ (Answers(n) \/ \E s \in Slot : Maps(n, s) \/ MapFails(n, s))
<1> DEFINE sizes == {BOGUS_SIZE} \cup (IF n \in FileNames THEN {fsize[n]} ELSE {})
           ready(s, size) == ReadyToMap(seglist[s], range, share, size)
<1>1. PICK s \in Slot :
        /\ Hit(n, s)
        /\ \/ IsMapped(s) /\ Report(n, "ok")
           \/ /\ ~IsMapped(s)
              /\ \E size \in sizes :
                    \/ /\ \E a \in Places(ready(s, size), size) :
                             /\ Become(Put(Found(n), s, [ready(s, size) EXCEPT !.start = a]))
                             /\ vm' = [p \in Pages |->
                                         IF p \in PagesIn(a, ready(s, size).length)
                                         THEN [owner |-> s, prot |-> MapProt(ready(s, size))]
                                         ELSE vm[p]]
                       /\ ret' = "ok"
                    \/ /\ Become(Put(Found(n), s, ready(s, size)))
                       /\ ret' = "err" /\ UNCHANGED vm
              /\ call' = NoCall
              /\ UNCHANGED <<maps, shm, fds, fsize, phase>>
  BY DEF segment_map
<1>2. CASE Report(n, "ok")
  BY <1>1, <1>2, ReportEffect
<1>3. CASE ~Report(n, "ok")
  <2> HIDE DEF sizes, ready
  <2>1. PICK size \in sizes :
          \/ /\ \E a \in Places(ready(s, size), size) :
                   /\ Become(Put(Found(n), s, [ready(s, size) EXCEPT !.start = a]))
                   /\ vm' = [p \in Pages |->
                               IF p \in PagesIn(a, ready(s, size).length)
                               THEN [owner |-> s, prot |-> MapProt(ready(s, size))]
                               ELSE vm[p]]
             /\ ret' = "ok"
          \/ /\ Become(Put(Found(n), s, ready(s, size)))
             /\ ret' = "err" /\ UNCHANGED vm
    BY <1>1, <1>3
  <2>2. /\ Means(n, s) /\ ~IsMapped(s) /\ call' = NoCall
        /\ UNCHANGED <<maps, shm, fds, fsize, phase>> /\ seglist[s] \in Segment
    BY <1>1, <1>3, HitFacts
  <2>3. size \in Size
    <3>1. BOGUS_SIZE \in Size
      BY WordAssumption DEF BOGUS_SIZE, Size
    <3>2. n \in FileNames => fsize[n] \in Size
      BY TableAssumption DEF TableInv, TypeOK
    <3> QED
      BY <3>1, <3>2 DEF sizes
  <2> DEFINE seg == ready(s, size)
  <2>4. Prepared(s, seg)
    BY <2>2, <2>3, ReadyIs DEF Prepared, ready
  <2>5. seg \in Segment /\ seg.type = seglist[s].type /\ seg.name = seglist[s].name
    BY <2>4 DEF Prepared, SameOwner
  <2> HIDE DEF seg
  <2>6. ASSUME NEW a \in Places(seg, size), Become(Put(Found(n), s, [seg EXCEPT !.start = a])),
               vm' = [p \in Pages |-> IF p \in PagesIn(a, seg.length)
                                      THEN [owner |-> s, prot |-> MapProt(seg)] ELSE vm[p]],
               ret' = "ok"
        PROVE  Good(Table') /\ Maps(n, s)
    <3> DEFINE new == [seg EXCEPT !.start = a]
    <3>1. a \in {p * PageSize : p \in Pages}
      BY <2>6 DEF Places
    <3>2. a \in Size
      BY <3>1, PageAddress
    <3>3. new \in Segment /\ new.type = seglist[s].type /\ new.name = seglist[s].name
      BY <2>5, <3>2 DEF Segment
    <3> HIDE DEF new
    <3>4. Good(Table') /\ Changed(seglist, seglist', s, new)
      BY <1>1, <2>6, <3>3, ChangeEffect DEF new
    <3> QED
      BY <2>2, <2>4, <2>6, <3>4 DEF Maps, new
  <2>7. CASE Become(Put(Found(n), s, seg)) /\ ret' = "err" /\ UNCHANGED vm
    <3>1. Good(Table') /\ Changed(seglist, seglist', s, seg)
      BY <1>1, <2>5, <2>7, ChangeEffect
    <3>2. MapFails(n, s)
      BY <2>2, <2>4, <2>7, <3>1 DEF MapFails, kernel
    <3> QED
      BY <3>1, <3>2
  <2> QED
    BY <2>1, <2>6, <2>7 DEF seg
<1> QED
  BY <1>2, <1>3

\* mprotect: the protection asked for is recorded.
LEMMA ProtectEffect ==
    ASSUME TableInv, NEW n \in Names, NEW prot \in Prots, segment_mprotect(n, prot)
    PROVE  Good(Table') /\ \E s \in Slot : Protects(n, s) \/ ProtectFails(n, s)
<1> DEFINE range(s)  == PagesIn(seglist[s].start, seglist[s].length)
           prefix(s) == {p \in range(s) : \A q \in range(s) : q =< p => vm[q] # Free}
           gone(s)   == IF prefix(s) = range(s) THEN {} ELSE prefix(s)
<1>1. PICK s \in Slot :
        /\ Hit(n, s)
        /\ \/ /\ seglist[s].start # MAP_FAILED /\ prefix(s) = range(s)
              /\ Become(Put(Found(n), s, [seglist[s] EXCEPT !.prot = prot]))
              /\ vm' = Protected(range(s), prot)
              /\ ret' = "ok" /\ call' = NoCall
              /\ UNCHANGED <<maps, shm, fds, fsize, phase>>
           \/ /\ Become(Found(n))
              /\ vm' \in {vm, Protected(gone(s), prot)}
              /\ ret' = "err" /\ call' = NoCall
              /\ UNCHANGED <<maps, shm, fds, fsize, phase>>
  BY DEF segment_mprotect
<1>2. prot \in SUBSET {"r", "w", "x"}
  BY TableAssumption
<1>3. Means(n, s) /\ seglist[s] \in Segment
  BY <1>1, HitFacts
<1>4. range(s) \subseteq Nat /\ prefix(s) \subseteq range(s)
  BY DEF PagesIn, Pages
<1>5. \A p \in prefix(s) : vm[p] # Free
  BY <1>4
<1>6. CASE /\ seglist[s].start # MAP_FAILED /\ prefix(s) = range(s)
           /\ Become(Put(Found(n), s, [seglist[s] EXCEPT !.prot = prot]))
           /\ vm' = Protected(range(s), prot)
           /\ ret' = "ok" /\ call' = NoCall
           /\ UNCHANGED <<maps, shm, fds, fsize, phase>>
  <2> DEFINE seg == [seglist[s] EXCEPT !.prot = prot]
  <2>1. seg \in Segment /\ seg.type = seglist[s].type /\ seg.name = seglist[s].name
    BY <1>2, <1>3 DEF Segment
  <2> HIDE DEF seg, range, prefix
  <2>2. Good(Table') /\ Changed(seglist, seglist', s, seg)
    BY <1>1, <1>6, <2>1, ChangeEffect DEF seg
  <2>3. \A p \in range(s) : vm[p] # Free
    BY <1>5, <1>6
  <2>4. Protects(n, s)
    BY <1>2, <1>3, <1>6, <2>2, <2>3 DEF Protects, seg, range
  <2> QED
    BY <2>2, <2>4
<1>7. CASE /\ Become(Found(n))
           /\ vm' \in {vm, Protected(gone(s), prot)}
           /\ ret' = "err" /\ call' = NoCall
           /\ UNCHANGED <<maps, shm, fds, fsize, phase>>
  <2>1. Good(Table') /\ Kept(seglist, seglist')
    BY <1>1, <1>7, FoundEffect
  <2>2. gone(s) \in SUBSET range(s) /\ \A p \in gone(s) : vm[p] # Free
    BY <1>4, <1>5
  <2>3. gone(s) # {} => \E p \in range(s) : vm[p] = Free
    BY <1>4
  <2> HIDE DEF gone, range, prefix
  <2>4. ProtectFails(n, s)
    BY <1>2, <1>3, <1>7, <2>1, <2>2, <2>3 DEF ProtectFails, range
  <2> QED
    BY <2>1, <2>4
<1> QED
  BY <1>1, <1>6, <1>7

\* A range that is used.
LEMMA UseEffect ==
    ASSUME TableInv, NEW n \in Names, NEW s \in Slot, Hit(n, s),
           NEW op \in {"touch", "sys"}, NEW o \in Offsets, NEW l \in Size, NEW r \in {"ok", "err"},
           op = "sys" => IsMapped(s), Accepted(s, o), UseRange(n, op, s, o, l, r)
    PROVE  Good(Table') /\ Uses(n, s)
<1>1. Good(Table') /\ Kept(seglist, seglist')
  BY FoundEffect DEF UseRange
<1> QED
  BY <1>1, HitFacts DEF UseRange, Uses

\* A fatal division.
LEMMA DieEffect ==
    ASSUME TableInv, Alive, maps = <<>>, DieBySignal, UNCHANGED <<seg_avail, ret>>
    PROVE  Good(Table') /\ Dies
<1>1. Table' = Table
  BY DEF DieBySignal, Table
<1> QED
  BY <1>1, GoodTable DEF Dies

\* touch: a call on the range, or an answer.
LEMMA TouchEffect ==
    ASSUME TableInv, NEW n \in Names, NEW o \in Offsets, NEW l \in Lengths, NEW rw \in BOOLEAN,
           segment_touch(n, o, l, rw)
    PROVE  Good(Table') /\ (Answers(n) \/ Spins \/ Dies \/ \E s \in Slot : Uses(n, s))
<1>1. PICK s \in Slot :
        LET refused == (rw /\ IsMaps(s)) \/ ~Accepted(s, o)
            prot    == UNION {vm[p].prot : p \in PagesIn(seglist[s].start, PageSize)}
        IN  /\ Hit(n, s)
            /\ \/ refused /\ Report(n, "err")
               \/ /\ ~refused /\ seglist[s].pagesize # 0
                  /\ UseRange(n, "touch", s, o, l, "ok")
               \/ /\ ~refused /\ seglist[s].pagesize = 0 /\ prot # {}
                  /\ Become(Found(n)) /\ phase' = "spin" /\ call' = NoCall
                  /\ UNCHANGED <<maps, kernel, ret>>
               \/ /\ ~refused /\ seglist[s].pagesize = 0 /\ "r" \notin prot
                  /\ DieBySignal /\ UNCHANGED <<seg_avail, ret>>
  BY DEF segment_touch
<1>2. Hit(n, s) /\ l \in Size /\ Running /\ Alive /\ maps = <<>>
  BY <1>1, HitFacts, TableAssumption DEF Running, Alive
<1>3. CASE Report(n, "err")
  BY <1>2, <1>3, ReportEffect
<1>4. CASE Accepted(s, o) /\ UseRange(n, "touch", s, o, l, "ok")
  <2>1. Good(Table') /\ Uses(n, s)
    BY <1>2, <1>4, UseEffect
  <2> QED
    BY <2>1
<1>5. CASE Become(Found(n)) /\ phase' = "spin" /\ call' = NoCall /\ UNCHANGED <<maps, kernel, ret>>
  <2>1. Good(Table') /\ Kept(seglist, seglist')
    BY <1>2, <1>5, FoundEffect
  <2> QED
    BY <1>2, <1>5, <2>1 DEF Spins
<1>6. CASE DieBySignal /\ UNCHANGED <<seg_avail, ret>>
  BY <1>2, <1>6, DieEffect
<1> QED
  BY <1>1, <1>3, <1>4, <1>5, <1>6

\* mbind: a call on the range, or an answer.
LEMMA MbindEffect ==
    ASSUME TableInv, NEW n \in Names, NEW o \in Offsets, NEW l \in Lengths, segment_mbind(n, o, l)
    PROVE  Good(Table') /\ (Answers(n) \/ \E s \in Slot : Uses(n, s))
<1>1. PICK s \in Slot :
        LET refused == ~IsMapped(s) \/ ~Accepted(s, o)
        IN  /\ Hit(n, s)
            /\ \/ refused /\ Report(n, "err")
               \/ ~refused /\ \E r \in {"ok", "err"} : UseRange(n, "sys", s, o, l, r)
  BY DEF segment_mbind
<1>2. l \in Size
  BY TableAssumption
<1>3. CASE Report(n, "err")
  BY <1>1, <1>3, ReportEffect
<1>4. CASE ~Report(n, "err")
  <2>1. PICK r \in {"ok", "err"} : UseRange(n, "sys", s, o, l, r)
    BY <1>1, <1>4
  <2>2. Hit(n, s) /\ IsMapped(s) /\ Accepted(s, o)
    BY <1>1, <1>4
  <2>3. Good(Table') /\ Uses(n, s)
    BY <1>2, <2>1, <2>2, UseEffect
  <2> QED
    BY <2>3
<1> QED
  BY <1>3, <1>4

\* where: a call on the range, or an answer.
LEMMA LocationEffect ==
    ASSUME TableInv, NEW n \in Names, NEW o \in Offsets, NEW l \in Lengths \cup {DEFAULT_LENGTH},
           segment_location(n, o, l)
    PROVE  Good(Table') /\ (Answers(n) \/ Dies \/ \E s \in Slot : Uses(n, s))
<1> DEFINE len(s) == IF l = DEFAULT_LENGTH THEN (64 * seglist[s].pagesize) % Word ELSE l
<1>1. PICK s \in Slot :
        LET refused == ~IsMapped(s) \/ ~Accepted(s, o)
            ps      == seglist[s].pagesize
        IN  /\ Hit(n, s)
            /\ \/ refused /\ Report(n, "err")
               \/ ~refused /\ ps # 0 /\ \E r \in {"ok", "err"} : UseRange(n, "sys", s, o, len(s), r)
               \/ /\ ~refused /\ ps = 0
                  /\ DieBySignal /\ UNCHANGED <<seg_avail, ret>>
  BY DEF segment_location
<1>2. Hit(n, s) /\ Running /\ Alive /\ maps = <<>> /\ seglist[s] \in Segment
  BY <1>1, HitFacts DEF Running, Alive
<1>3. len(s) \in Size
  <2>1. seglist[s].pagesize \in Nat
    BY <1>2, WordAssumption DEF Segment, Size
  <2>2. (64 * seglist[s].pagesize) % Word \in Size
    BY <2>1, WordAssumption DEF Size
  <2> QED
    BY <2>2, TableAssumption
<1> HIDE DEF len
<1>4. CASE Report(n, "err")
  BY <1>2, <1>4, ReportEffect
<1>5. ASSUME IsMapped(s), Accepted(s, o), NEW r \in {"ok", "err"}, UseRange(n, "sys", s, o, len(s), r)
      PROVE  Good(Table') /\ Uses(n, s)
  BY <1>2, <1>3, <1>5, UseEffect
<1>6. CASE DieBySignal /\ UNCHANGED <<seg_avail, ret>>
  BY <1>2, <1>6, DieEffect
<1> QED
  BY <1>1, <1>4, <1>5, <1>6

\* lock, unlock, slock, sunlock: a call on the range, or an answer.
LEMMA LockEffect ==
    ASSUME TableInv, NEW n \in Names, NEW o \in Offsets, NEW l \in Lengths, NEW whole \in BOOLEAN,
           segment_lock_unlock(n, o, l, whole)
    PROVE  Good(Table') /\ (Answers(n) \/ \E s \in Slot : Uses(n, s))
<1>1. PICK s \in Slot :
        LET refused == \/ ~IsMapped(s)
                       \/ IF whole THEN seglist[s].type # "shm" ELSE ~Accepted(s, o)
        IN  /\ Hit(n, s)
            /\ \/ refused /\ Report(n, "err")
               \/ ~refused /\ whole /\ \E r \in {"ok", "err"} : Report(n, r)
               \/ ~refused /\ ~whole /\ \E r \in {"ok", "err"} : UseRange(n, "sys", s, o, l, r)
  BY DEF segment_lock_unlock
<1>2. l \in Size /\ Hit(n, s)
  BY <1>1, TableAssumption
<1>3. ASSUME NEW r \in {"ok", "err"}, Report(n, r)
      PROVE  Good(Table') /\ Answers(n)
  BY <1>2, <1>3, ReportEffect
<1>4. ASSUME IsMapped(s), Accepted(s, o), NEW r \in {"ok", "err"}, UseRange(n, "sys", s, o, l, r)
      PROVE  Good(Table') /\ Uses(n, s)
  BY <1>2, <1>4, UseEffect
<1> QED
  BY <1>1, <1>3, <1>4

(***************************************************************************)
(* Every step of the program has one of the effects, and leaves a table    *)
(* whose saved slot is free.                                               *)
(***************************************************************************)
LEMMA Effects ==
    ASSUME TableInv, Next
    PROVE  Good(Table') /\ Effect
<1>1. CASE get_task_segments
  BY <1>1, LoadEffect DEF Effect
<1>2. CASE Register
  <2>1. ASSUME NEW n \in Names, NEW o \in Addrs, NEW l \in Lengths, NEW sh \in Shares,
               RegisterAnon(n, o, l, sh)
        PROVE  Good(Table') /\ Effect
    BY <2>1, AnonEffect DEF Effect
  <2>2. ASSUME NEW n \in Names, NEW m \in Anchors, NEW l \in Lengths, NEW sh \in Shares,
               RegisterAnonAfter(n, m, l, sh)
        PROVE  Good(Table') /\ Effect
    BY <2>2, AfterEffect DEF Effect
  <2>3. ASSUME NEW n \in FileNames, NEW o \in Offsets, NEW l \in Lengths, NEW sh \in Shares,
               RegisterFile(n, o, l, sh)
        PROVE  Good(Table') /\ Effect
    BY <2>3, FileEffect DEF Effect
  <2>4. ASSUME NEW n \in Names, NEW l \in Lengths, NEW huge \in BOOLEAN, RegisterShm(n, l, huge)
        PROVE  Good(Table') /\ Effect
    BY <2>4, ShmEffect DEF Effect
  <2> QED
    BY <1>2, <2>1, <2>2, <2>3, <2>4 DEF Register
<1>3. CASE Operate
  <2>1. PICK n \in Names :
          \/ Miss(n) \/ segment_show(n) \/ segment_remove(n) \/ segment_unmap(n)
          \/ \E r \in Ranges, sh \in {{}} \cup {{x} : x \in Shares} : segment_map(n, r, sh)
          \/ \E prot \in Prots : segment_mprotect(n, prot)
          \/ \E o \in Offsets, l \in Lengths \cup {DEFAULT_LENGTH} : segment_location(n, o, l)
          \/ \E o \in Offsets, l \in Lengths :
                \/ \E rw \in BOOLEAN : segment_touch(n, o, l, rw)
                \/ segment_mbind(n, o, l)
                \/ \E wholeShm \in BOOLEAN : segment_lock_unlock(n, o, l, wholeShm)
    BY <1>3 DEF Operate
  <2>2. CASE Miss(n)
    BY <2>2, MissEffect DEF Effect
  <2>3. CASE segment_show(n)
    BY <2>3, ReportEffect DEF segment_show, Effect
  <2>4. CASE segment_remove(n)
    BY <2>4, RemoveEffect DEF Effect
  <2>5. CASE segment_unmap(n)
    BY <2>5, UnmapEffect DEF Effect
  <2>6. CASE \E r \in Ranges, sh \in {{}} \cup {{x} : x \in Shares} : segment_map(n, r, sh)
    BY <2>6, MapEffect DEF Effect
  <2>7. CASE \E prot \in Prots : segment_mprotect(n, prot)
    BY <2>7, ProtectEffect DEF Effect
  <2>8. CASE \E o \in Offsets, l \in Lengths \cup {DEFAULT_LENGTH} : segment_location(n, o, l)
    BY <2>8, LocationEffect DEF Effect
  <2>9. CASE \E o \in Offsets, l \in Lengths, rw \in BOOLEAN : segment_touch(n, o, l, rw)
    BY <2>9, TouchEffect DEF Effect
  <2>10. CASE \E o \in Offsets, l \in Lengths : segment_mbind(n, o, l)
    BY <2>10, MbindEffect DEF Effect
  <2>11. CASE \E o \in Offsets, l \in Lengths, wholeShm \in BOOLEAN :
                 segment_lock_unlock(n, o, l, wholeShm)
    BY <2>11, LockEffect DEF Effect
  <2> QED
    BY <2>1, <2>2, <2>3, <2>4, <2>5, <2>6, <2>7, <2>8, <2>9, <2>10, <2>11
<1>4. CASE Interrupt
  <2>1. Alive /\ maps = <<>> /\ DieBySignal /\ UNCHANGED <<seg_avail, ret>>
    BY <1>4 DEF Interrupt, Alive, TableInv, LinesOK
  <2> QED
    BY <2>1, DieEffect DEF Effect
<1>5. CASE Exit
  <2>1. Good(Table) /\ Kept(seglist, Table.list)
    BY GoodTable DEF Kept, Same
  <2> QED
    BY <1>5, <2>1, ExitEffect DEF Exit, Effect
<1>6. CASE \E n \in FileNames, z \in FileSizes : Resize(n, z)
  <2>1. Table' = Table
    BY <1>6 DEF Resize, Table
  <2>2. fsize' \in [FileNames -> FileSizes]
    BY <1>6 DEF Resize, TableInv, TypeOK
  <2>3. Resizes
    BY <1>6, <2>2 DEF Resize, Resizes
  <2> QED
    BY <2>1, <2>3, GoodTable DEF Effect
<1> QED
  BY <1>1, <1>2, <1>3, <1>4, <1>5, <1>6 DEF Next

=============================================================================
