-------------------------- MODULE FrontEndsProofs ---------------------------
(***************************************************************************)
(* Proofs about the command front ends: every property of FrontEnds holds  *)
(* for every machine, every width of an int and of a chunk of a cpu mask,  *)
(* and every line a user may type, of any length.                          *)
(***************************************************************************)
EXTENDS FrontEnds, SegmentRangeProofs, SequenceTheorems, TLAPS

-----------------------------------------------------------------------------
(***************************************************************************)
(* Commands that ask nothing of the properties: they neither die nor hand  *)
(* nodes to the kernel or to the user, and leave the policy and the cache  *)
(* of allowed nodes alone.                                                 *)
(***************************************************************************)
Watched == {"mems", "numa", "migrate", "policy", "mbind", "mpol"}

Plain ==
    /\ pc' # "dead" /\ call'.op \notin Watched /\ typed'.cmd # "migrate"
    /\ UNCHANGED <<machine, task, mems_allowed>>

\* A command refused for its arguments.
LEMMA RefusePlain == Refuse /\ UNCHANGED machine /\ typed'.cmd # "migrate" => Plain
BY DEF Refuse, Plain, NoCall, Watched, kernel, cached

\* A call of the segment layer about one segment.
LEMMA CallsPlain ==
    ASSUME NEW c, NEW n, c.op \notin Watched, Calls(c, n), UNCHANGED machine, typed'.cmd # "migrate"
    PROVE  Plain
BY DEF Calls, Makes, Plain, kernel, cached

\* A call of segment_register().
LEMMA RegistersPlain ==
    ASSUME NEW c, NEW n, c.op \notin Watched, Registers(c, n), UNCHANGED machine,
           typed'.cmd # "migrate"
    PROVE  Plain
BY DEF Registers, Makes, Plain, kernel, cached

\* anon, unless it ends the program
LEMMA AnonPlain ==
    ASSUME NEW args, anon_seg(args)
    PROVE  Plain \/ (AnonStops(args) # {} /\ args[First(AnonStops(args))] = Equals /\ Fault)
BY RefusePlain, RegistersPlain DEF anon_seg, Typed, Makes, Plain, NoCall, Watched, kernel, cached

\* remove
LEMMA RemovePlain == ASSUME NEW args, remove_seg(args) PROVE Plain
BY RefusePlain DEF remove_seg, Typed, Makes, Plain, Watched, kernel, cached

\* mprotect
LEMMA ProtectPlain == ASSUME NEW args, mprotect_seg(args) PROVE Plain
BY RefusePlain DEF mprotect_seg, Typed, Makes, Plain, Watched, kernel, cached

\* shmem
LEMMA ShmemPlain == ASSUME NEW args, shmem_seg(args) PROVE Plain
BY RefusePlain, RegistersPlain DEF shmem_seg, Typed, Watched

\* file
LEMMA FilePlain == ASSUME NEW args, file_seg(args) PROVE Plain
BY RefusePlain, RegistersPlain DEF file_seg, Typed, Watched

\* map
LEMMA MapPlain == ASSUME NEW args, map_seg(args) PROVE Plain
BY RefusePlain, CallsPlain DEF map_seg, Typed, Watched

\* show and unmap
LEMMA ShowPlain == ASSUME NEW args, show_seg(args) \/ unmap_seg(args) PROVE Plain
BY RefusePlain, CallsPlain
   DEF show_seg, unmap_seg, Typed, Makes, Plain, Watched, kernel, cached

\* touch
LEMMA TouchPlain == ASSUME NEW args, touch_seg(args) PROVE Plain
BY RefusePlain, CallsPlain DEF touch_seg, Typed, Watched

\* lock, unlock, slock and sunlock
LEMMA LockPlain ==
    ASSUME NEW args, NEW lock \in BOOLEAN, NEW shm \in BOOLEAN, lock_unlock(lock, shm, args)
    PROVE  Plain
BY RefusePlain, CallsPlain DEF lock_unlock, Typed, Watched

\* where
LEMMA WherePlain == ASSUME NEW args, where_seg(args) PROVE Plain
BY RefusePlain, CallsPlain DEF where_seg, Typed, Watched

\* cpus
LEMMA CpusPlain == ASSUME NEW args, cpus(args) PROVE Plain
BY RefusePlain DEF cpus, Typed, Makes, Plain, Watched, kernel, cached

\* kick
LEMMA KickPlain == ASSUME NEW args, child_kick(args) PROVE Plain
BY RefusePlain DEF child_kick, Typed, Makes, Plain, Watched, kernel, cached

\* snooze
LEMMA SnoozePlain == ASSUME NEW args, snooze(args) PROVE Plain
BY RefusePlain DEF snooze, Typed, Makes, Plain, Watched, kernel, cached

\* the next line
LEMMA LinePlain == NextLine => Plain
BY DEF NextLine, Plain, NoCall, NoCommand, Watched, kernel, cached

-----------------------------------------------------------------------------
(***************************************************************************)
(* The steps that ask something, as the rest of the proof sees them.       *)
(***************************************************************************)
Telling ==
    \/ \E args \in Args(SegNames, SizeArgs(OptionArgs)) : anon_seg(args)
    \/ \E args \in Args(SegNames, Ranged(PolicyArgs)) : mbind_seg(args)
    \/ \E args \in PolicyArgs : mpol(args)
    \/ show_task_policy
    \/ numa_info
    \/ \E args \in NodeArgs : migrate_process(args)
    \/ \E args \in MemArgs : mems(args)

\* Every step is plain or one of those.
LEMMA PlainOrTelling == Next => Plain \/ Telling
<1> SUFFICES ASSUME Next PROVE Plain \/ Telling
    OBVIOUS
<1>1. CASE Segment
    BY <1>1, ShmemPlain, FilePlain, MapPlain, RemovePlain, ShowPlain, TouchPlain,
       LockPlain, WherePlain, ProtectPlain DEF Segment, Telling
<1>2. CASE Task
    BY <1>2, CpusPlain, KickPlain, SnoozePlain DEF Task, Telling
<1>3. CASE NextLine
    BY <1>3, LinePlain
<1>4. QED
    BY <1>1, <1>2, <1>3 DEF Next

-----------------------------------------------------------------------------
(***************************************************************************)
(* What the words read as.                                                 *)
(***************************************************************************)

\* A remainder is at most the number, and a small number is its remainder.
LEMMA RemainderAtMost ==
    ASSUME NEW a \in Nat, NEW n \in Nat \ {0}
    PROVE  /\ a % n \in Nat /\ a % n < n /\ a % n =< a
           /\ a < n => a % n = a
OBVIOUS

\* An id that fits in an int is read as it stands, a longer one as less.
LEMMA ToIntReads ==
    ASSUME NEW n \in Nat
    PROVE  /\ ToInt(n) \in Int /\ ToInt(n) =< n
           /\ n < IntWord \div 2 => ToInt(n) = n
<1> DEFINE ul == strtoul(Num(n, ""))
           low == ul % IntWord
<1>1. ul \in Nat /\ ul =< n /\ (n < Word => ul = n)
    BY WordAssumption DEF strtoul, Num
<1>2. IntWord \in Nat \ {0} /\ IntWord \div 2 \in Nat /\ IntWord \div 2 < IntWord /\ IntWord =< Word
    BY ArgumentsAssumption, WordAssumption
<1>3. low \in Nat /\ low =< ul /\ (ul < IntWord => low = ul)
    <2> HIDE DEF ul
    <2> QED
        BY <1>1, <1>2, RemainderAtMost
<1>4. ToInt(n) = IF low >= IntWord \div 2 THEN low - IntWord ELSE low
    BY DEF ToInt
<1> HIDE DEF ul, low
<1> QED
    BY <1>1, <1>2, <1>3, <1>4, WordAssumption

\* The ids of a word are numbers; only numbers and lists have any.
LEMMA IdsAreNumbers ==
    ASSUME NEW w \in UserWord
    PROVE  Ids(w) \in Seq(Nat) /\ (Ids(w) # <<>> => w.k \in {"num", "list"})
BY DEF Ids, UserWord, Star

\* What get_nodemask() accepts is what was typed; what it refuses is no
\* list of nodes; and it writes outside the mask only for too long an id.
LEMMA NodemaskReads ==
    ASSUME NEW args \in Seq(UserWord), max \in Int
    PROVE  LET m == get_nodemask(args, max) IN
           /\ m.ok \in BOOLEAN /\ m.wild \in BOOLEAN
           /\ m.wild => args # <<>> /\ TooLong(args[1])
           /\ m.ok => Len(args) = 1 /\ args[1].k \in {"num", "list"}
           /\ m.ok /\ ~m.wild => Exactly(m.mask, args[1])
           /\ Len(args) = 1 /\ NodeList(args[1]) => m.ok
<1> DEFINE m == get_nodemask(args, max)
           ids == Ids(args[1])
           above == {i \in DOMAIN ids : ToInt(ids[i]) > max}
           read == {i \in DOMAIN ids : \A j \in above : i < j}
<1>1. CASE args = <<>> \/ ids = <<>>
    <2>1. m = [ok |-> FALSE, wild |-> FALSE, mask |-> {}]
        BY <1>1 DEF get_nodemask, IdList
    <2>2. CASE args = <<>>
        BY <2>1, <2>2
    <2>3. CASE ids = <<>>
        BY <2>1, <2>3 DEF NodeList
    <2> QED
        BY <1>1, <2>2, <2>3
<1>2. CASE args # <<>> /\ ids # <<>>
    <2>1. args[1] \in UserWord
        BY <1>2
    <2>2. ids \in Seq(Nat) /\ args[1].k \in {"num", "list"}
        BY <2>1, <1>2, IdsAreNumbers
    <2> DEFINE ok == above = {} /\ Len(args) = 1 /\ EndOfIds(args[1]) = ""
               set == {ToInt(ids[i]) : i \in read}
               wild == \E n \in set : n < 0
    <2>3. m = [ok |-> ok, wild |-> wild, mask |-> set]
        BY <1>2 DEF get_nodemask, IdList
    <2>i. Ids(args[1]) = ids
        OBVIOUS
    <2>t. TooLong(args[1]) <=> \E i \in DOMAIN ids : ids[i] >= IntWord \div 2
        BY DEF TooLong
    <2>n. NodeList(args[1]) <=> /\ EndOfIds(args[1]) = ""
                                /\ \A i \in DOMAIN ids : ids[i] \in 0 .. max
        BY <1>2 DEF NodeList, Nodes
    <2>e. Exactly(set, args[1])
            <=> TooLong(args[1]) \/ (NodeList(args[1]) /\ set = {ids[i] : i \in DOMAIN ids})
        BY DEF Exactly
    <2> HIDE DEF m, ids
    <2>4. \A i \in DOMAIN ids : /\ ids[i] \in Nat /\ ToInt(ids[i]) \in Int /\ ToInt(ids[i]) =< ids[i]
                                /\ ids[i] < IntWord \div 2 => ToInt(ids[i]) = ids[i]
        BY <2>2, ToIntReads
    <2>5. IntWord \div 2 \in Nat
        BY ArgumentsAssumption
    <2>6. wild => TooLong(args[1])
        BY <2>t, <2>4, <2>5
    <2>7. ASSUME ok, ~wild, ~TooLong(args[1])
          PROVE  NodeList(args[1]) /\ set = {ids[i] : i \in DOMAIN ids}
        <3>1. read = DOMAIN ids
            BY <2>7
        <3>2. ASSUME NEW i \in DOMAIN ids PROVE ToInt(ids[i]) = ids[i]
            <4>1. ~(ids[i] >= IntWord \div 2)
                <5> HIDE DEF ok, wild
                <5> QED
                    BY <2>7, <2>t
            <4> HIDE DEF ok, wild, set
            <4> QED
                BY <4>1, <2>4, <2>5
        <3>3. set = {ids[i] : i \in DOMAIN ids}
            BY <3>1, <3>2
        <3>4. ASSUME NEW i \in DOMAIN ids PROVE ids[i] \in 0 .. max
            <4>1. ~(ToInt(ids[i]) > max) /\ ~(ToInt(ids[i]) < 0)
                BY <2>7, <3>1
            <4> HIDE DEF ok, wild, set
            <4> QED
                BY <4>1, <3>2, <2>4
        <3> QED
            BY <3>3, <3>4, <2>7, <2>n
    <2>8. Len(args) = 1 /\ NodeList(args[1]) => ok
        <3> SUFFICES ASSUME Len(args) = 1, NodeList(args[1]) PROVE ok
            OBVIOUS
        <3>1. ASSUME NEW i \in DOMAIN ids PROVE ~(ToInt(ids[i]) > max)
            <4>1. ids[i] \in 0 .. max
                BY <2>n
            <4> HIDE DEF ok, wild, set
            <4> QED
                BY <4>1, <2>4
        <3> QED
            BY <3>1, <2>n
    <2>9. ok => Len(args) = 1
        OBVIOUS
    <2> HIDE DEF ok, set, wild
    <2>10. m.ok = ok /\ m.wild = wild /\ m.mask = set
        BY <2>3
    <2>11. ok \in BOOLEAN /\ wild \in BOOLEAN
        BY DEF ok, wild
    <2> QED
        BY <2>2, <2>6, <2>7, <2>8, <2>9, <2>10, <2>11, <2>e, <1>2 DEF m
<1> QED
    BY <1>1, <1>2

\* The same for the nodes of a policy, which may be left out or '*'.
LEMMA ArgNodemaskReads ==
    ASSUME NEW args \in Seq(UserWord), NEW policy \in 0 .. 4, max \in Int
    PROVE  LET m == get_arg_nodemask(args, policy, max) IN
           /\ m.wild => args # <<>> /\ TooLong(args[1])
           /\ m.ok /\ ~m.wild => m.mask = NULL \/ (Len(args) = 1 /\ Exactly(m.mask, args[1]))
           /\ m.ok /\ policy = MPOL_PREFERRED
                 => args # <<>> /\ args[1].k \in {"num", "list", "star"}
<1> DEFINE m == get_arg_nodemask(args, policy, max)
<1>1. CASE policy \in {MPOL_DEFAULT, MPOL_NOOP}
    BY <1>1 DEF get_arg_nodemask, MPOL_DEFAULT, MPOL_NOOP, MPOL_PREFERRED
<1>2. CASE policy \notin {MPOL_DEFAULT, MPOL_NOOP} /\ args = <<>>
    BY <1>2 DEF get_arg_nodemask
<1>3. CASE policy \notin {MPOL_DEFAULT, MPOL_NOOP} /\ args # <<>> /\ args[1].k = "star"
    BY <1>3 DEF get_arg_nodemask
<1>4. CASE policy \notin {MPOL_DEFAULT, MPOL_NOOP} /\ args # <<>> /\ args[1].k # "star"
    <2>1. m = get_nodemask(args, max)
        BY <1>4 DEF get_arg_nodemask
    <2> QED
        BY <2>1, <1>4, NodemaskReads
<1> QED
    BY <1>1, <1>2, <1>3, <1>4

\* The five policies and their numbers.
LEMMA PolicyTable ==
    /\ DOMAIN policies = 1 .. 5
    /\ \A i \in 1 .. 5 : policies[i].pol_flag = i - 1
    /\ policies[1].pol_name = "default" /\ policies[2].pol_name = "preferred"
    /\ policies[3].pol_name = "bind" /\ policies[4].pol_name = "interleaved"
    /\ policies[5].pol_name = "noop"
BY DEF policies, Row, MPOL_DEFAULT, MPOL_PREFERRED, MPOL_BIND, MPOL_INTERLEAVE, MPOL_NOOP

\* A name of the table is found in its own row only.
LEMMA PolicyFound ==
    ASSUME NEW i \in 1 .. 5
    PROVE  First(RowsOf(policies[i].pol_name)) = i /\ RowsOf(policies[i].pol_name) # {}
<1>1. RowsOf(policies[i].pol_name) = {i}
    <2>1. \A j \in 1 .. 5 : j \in {1, 2, 3, 4, 5}
        OBVIOUS
    <2>2. \A j \in 1 .. 5 : /\ policies[j].pol_name # ""
                            /\ policies[i].pol_name = policies[j].pol_name => i = j
        BY <2>1, PolicyTable
    <2> QED
        BY <2>2, PolicyTable DEF RowsOf
<1> QED
    BY <1>1 DEF First

\* get_mbind_policy() finds the number of every policy it knows.
LEMMA PolicyReads ==
    ASSUME NEW w \in UserWord
    PROVE  /\ get_mbind_policy(w) \in 0 .. 4
           /\ PolicyRead(w) <=> w.k = "pol" /\ w.pol \in {""} \cup DOMAIN PolicyNumber
           /\ PolicyRead(w) /\ w.pol # "" => get_mbind_policy(w) = PolicyNumber[w.pol]
           /\ ~PolicyRead(w) => get_mbind_policy(w) = MPOL_PREFERRED
<1>1. DOMAIN PolicyNumber = {policies[i].pol_name : i \in 1 .. 5}
    <2>1. DOMAIN PolicyNumber = {"default", "preferred", "bind", "interleaved", "noop"}
        BY DEF PolicyNumber
    <2>2. \A p \in {policies[i].pol_name : i \in 1 .. 5} : p \in DOMAIN PolicyNumber
        <3>1. \A i \in 1 .. 5 : i \in {1, 2, 3, 4, 5}
            OBVIOUS
        <3> QED
            BY <2>1, <3>1, PolicyTable
    <2> QED
        BY <2>1, <2>2, PolicyTable
<1>2. ASSUME NEW i \in 1 .. 5 PROVE PolicyNumber[policies[i].pol_name] = i - 1
    <2>1. i \in {1, 2, 3, 4, 5}
        OBVIOUS
    <2> QED
        BY <2>1, PolicyTable
        DEF PolicyNumber, MPOL_DEFAULT, MPOL_PREFERRED, MPOL_BIND, MPOL_INTERLEAVE, MPOL_NOOP
<1>3. CASE ~PolicyRead(w)
    <2>1. get_mbind_policy(w) = MPOL_PREFERRED /\ MPOL_PREFERRED \in 0 .. 4
        BY <1>3 DEF PolicyRead, get_mbind_policy, CMD_ERROR, MPOL_PREFERRED
    <2>2. w.k = "pol" => w.pol # "" /\ \A i \in 1 .. 5 : w.pol # policies[i].pol_name
        <3> SUFFICES ASSUME w.k = "pol" PROVE w.pol # "" /\ \A i \in 1 .. 5 : w.pol # policies[i].pol_name
            OBVIOUS
        <3>1. RowsOf(w.pol) = {}
            BY <1>3 DEF PolicyRead
        <3>2. \A i \in 1 .. 5 : ~(w.pol \in {"", policies[i].pol_name})
            BY <3>1, PolicyTable DEF RowsOf
        <3>3. 1 \in 1 .. 5
            OBVIOUS
        <3> QED
            BY <3>2, <3>3
    <2> QED
        BY <1>1, <1>3, <2>1, <2>2
<1>4. CASE w.k = "pol" /\ w.pol = ""
    <2>1. RowsOf(w.pol) = 1 .. 5
        BY <1>4, PolicyTable DEF RowsOf
    <2>2. First(RowsOf(w.pol)) = 1
        BY <2>1 DEF First
    <2>3. RowsOf(w.pol) # {}
        BY <2>1
    <2>4. policies[1].pol_flag = 0
        BY PolicyTable
    <2>5. PolicyRead(w) /\ get_mbind_policy(w) = 0
        BY <1>4, <2>2, <2>3, <2>4 DEF PolicyRead, get_mbind_policy
    <2>6. w.pol \in {""} \cup DOMAIN PolicyNumber
        BY <1>4
    <2>7. get_mbind_policy(w) \in 0 .. 4
        BY <2>5
    <2> QED
        BY <1>4, <2>5, <2>6, <2>7, Zenon
<1>5. ASSUME NEW i \in 1 .. 5, w.k = "pol", w.pol = policies[i].pol_name
      PROVE  /\ PolicyRead(w) /\ w.pol \in DOMAIN PolicyNumber
             /\ get_mbind_policy(w) = i - 1 /\ PolicyNumber[w.pol] = i - 1
    BY <1>1, <1>2, <1>5, PolicyFound, PolicyTable DEF PolicyRead, get_mbind_policy
<1>6. ASSUME PolicyRead(w), w.pol # "" PROVE \E i \in 1 .. 5 : w.pol = policies[i].pol_name
    BY <1>6, PolicyTable DEF PolicyRead, RowsOf
<1>7. PolicyRead(w) => w.k = "pol"
    BY DEF PolicyRead
<1>8. CASE PolicyRead(w) /\ w.pol # ""
    <2>1. PICK i \in 1 .. 5 : w.pol = policies[i].pol_name
        BY <1>6, <1>8
    <2>2. /\ w.k = "pol" /\ w.pol \in DOMAIN PolicyNumber
          /\ get_mbind_policy(w) = i - 1 /\ PolicyNumber[w.pol] = i - 1
        BY <2>1, <1>5, <1>7, <1>8
    <2>3. i - 1 \in 0 .. 4
        OBVIOUS
    <2> QED
        BY <2>2, <2>3, <1>8
<1> QED
    BY <1>3, <1>4, <1>7, <1>8

\* What get_range() leaves over is the end of the words it was given.
LEMMA RangeRest ==
    ASSUME NEW args \in Seq(UserWord)
    PROVE  LET rest == get_range(args).rest IN
           /\ rest \in Seq(UserWord) /\ Len(rest) =< Len(args)
           /\ rest # <<>> => \A i \in 1 .. Len(rest) : rest[i] = args[i + Len(args) - Len(rest)]
           /\ rest # <<>> => Len(args) - Len(rest) = IF StartsWithDigit(args) THEN 2 ELSE 0
<1> DEFINE rest == get_range(args).rest
<1>1. CASE rest = args /\ ~StartsWithDigit(args)
    BY <1>1
<1>2. CASE rest = <<>>
    BY <1>2
<1>3. CASE rest = SubSeq(args, 3, Len(args)) /\ StartsWithDigit(args) /\ rest # <<>>
    <2>1. Len(args) >= 3
        BY <1>3
    <2>2. rest \in Seq(UserWord) /\ Len(rest) = Len(args) - 2
        BY <1>3, <2>1
    <2>3. \A i \in 1 .. Len(rest) : rest[i] = args[i + 2]
        BY <1>3, <2>1
    <2> QED
        BY <2>1, <2>2, <2>3, <1>3
<1> QED
    BY <1>1, <1>2, <1>3 DEF get_range, RangeError

-----------------------------------------------------------------------------
(***************************************************************************)
(* The invariant: the machine and the policy are proper ones, and without  *)
(* NUMA nothing was ever allocated for mems_allowed.                       *)
(***************************************************************************)
Settled ==
    /\ machine \in Machines
    /\ task.mode \in 0 .. 4 /\ task.nodes \in SUBSET Nodes
    /\ ~numa_supported => mems_allowed = NULL

Told == NodesAsTyped /\ AllowedFresh /\ PolicyRoundTrip /\ MbindAsTyped /\ FaultsKnown

\* What the assumptions say of the machine at hand.
LEMMA MachineFacts ==
    ASSUME Settled
    PROVE  max \in Int /\ (machine.stubs => ~numa_supported) /\ NULL \notin SUBSET Nodes
BY FrontEndsAssumption DEF Settled, max, Nodes, numa_supported

\* A plain step keeps the invariant, and there is nothing to tell.
LEMMA PlainStep == ASSUME Settled, Plain PROVE Settled' /\ Told'
<1>1. Settled'
    BY DEF Settled, Plain, Nodes, max, numa_supported
<1>2. NodesAsTyped'
    BY DEF Plain, Watched, NodesAsTyped
<1>3. AllowedFresh' /\ PolicyRoundTrip'
    BY DEF Plain, Watched, AllowedFresh, PolicyRoundTrip
<1>4. MbindAsTyped'
    BY DEF Plain, Watched, MbindAsTyped
<1>5. FaultsKnown'
    BY DEF Plain, FaultsKnown
<1> QED
    BY <1>1, <1>2, <1>3, <1>4, <1>5 DEF Told

\* A step that ends the program for a reason that is known.
LEMMA FaultStep ==
    ASSUME Settled, Fault, UNCHANGED machine, FaultsKnown'
    PROVE  Settled' /\ Told'
<1>1. Settled'
    BY DEF Settled, Fault, Nodes, max, numa_supported, kernel, cached
<1>2. NodesAsTyped'
    BY DEF Fault, NoCall, NodesAsTyped
<1>3. AllowedFresh' /\ PolicyRoundTrip'
    BY DEF Fault, NoCall, AllowedFresh, PolicyRoundTrip
<1>4. MbindAsTyped'
    BY DEF Fault, NoCall, MbindAsTyped
<1> QED
    BY <1>1, <1>2, <1>3, <1>4 DEF Told

\* anon ends the program only at an option that is just '='.
LEMMA AnonStep ==
    ASSUME Settled, NEW T, NEW args \in Seq(T), anon_seg(args)
    PROVE  Settled' /\ Told'
<1>1. CASE Plain
    BY <1>1, PlainStep
<1>2. CASE AnonStops(args) # {} /\ args[First(AnonStops(args))] = Equals /\ Fault
    <2>1. typed' = [cmd |-> "anon", args |-> args] /\ UNCHANGED machine
        BY DEF anon_seg, Typed
    <2> DEFINE S == AnonStops(args)
    <2>2. S \subseteq DOMAIN args /\ S \subseteq Nat
        BY LenProperties DEF AnonStops
    <2> HIDE DEF S
    <2>3. First(S) \in S
        <3>1. \E i \in S : \A j \in S : i =< j
            BY <1>2, <2>2, LeastNumber DEF S
        <3> QED
            BY <3>1 DEF First
    <2>4. First(S) \in DOMAIN args /\ args[First(S)] = Equals
        BY <1>2, <2>2, <2>3 DEF S
    <2>5. typed'.cmd = "anon" /\ \E i \in DOMAIN typed'.args : typed'.args[i] = Equals
        BY <2>1, <2>4
    <2>6. FaultsKnown'
        BY <2>5 DEF FaultsKnown
    <2> QED
        BY <1>2, <2>1, <2>6, FaultStep
<1> QED
    BY <1>1, <1>2, AnonPlain

\* numa shows the nodes allowed now.
LEMMA NumaStep == ASSUME Settled, numa_info PROVE Settled' /\ Told'
<1>1. CASE ~numa_supported
    BY <1>1, RefusePlain, PlainStep DEF numa_info, Typed
<1>2. CASE numa_supported /\ Overruns /\ Fault
    <2>1. typed'.cmd = "numa" /\ UNCHANGED <<machine, task>>
        BY <1>2 DEF numa_info, Typed, Fault, kernel
    <2>2. numa_get_membind(task)' = Nodes' /\ ~machine'.room /\ numa_supported'
        BY <1>2, <2>1
        DEF Overruns, get_current_nodemask, refresh_mems_allowed, numa_get_membind, Nodes, max,
            numa_supported
    <2>3. FaultsKnown'
        BY <2>1, <2>2 DEF FaultsKnown
    <2> QED
        BY <1>2, <2>1, <2>3, FaultStep
<1>3. CASE numa_supported /\ ~(Overruns /\ Fault)
    <2>1. PICK r \in {CMD_SUCCESS, CMD_ERROR} : Makes([op |-> "numa", nodes |-> get_current_nodemask], r)
        BY <1>3 DEF numa_info
    <2>2. /\ call' = [op |-> "numa", nodes |-> numa_get_membind(task)] /\ pc' = "done"
          /\ UNCHANGED <<machine, task>> /\ typed'.cmd = "numa"
        BY <1>3, <2>1
        DEF numa_info, Typed, Makes, get_current_nodemask, refresh_mems_allowed, kernel
    <2>3. Settled'
        BY <1>3, <2>2 DEF Settled, Nodes, max, numa_supported
    <2>4. NodesAsTyped' /\ PolicyRoundTrip' /\ FaultsKnown'
        BY <2>2 DEF NodesAsTyped, PolicyRoundTrip, FaultsKnown
    <2>5. MbindAsTyped'
        BY <2>2 DEF MbindAsTyped
    <2>6. numa_get_membind(task)' = numa_get_membind(task)
        BY <2>2 DEF numa_get_membind, Nodes, max
    <2>7. AllowedFresh'
        BY <2>2, <2>6 DEF AllowedFresh
    <2> QED
        BY <2>3, <2>4, <2>5, <2>7 DEF Told
<1> QED
    BY <1>1, <1>2, <1>3

\* mpol shows the name of the policy in force.
LEMMA ShowPolicyStep == ASSUME Settled, show_task_policy PROVE Settled' /\ Told'
<1>0. typed' = [cmd |-> "mpol", args |-> <<>>] /\ UNCHANGED machine
    BY DEF show_task_policy, Typed
<1>1. CASE Refuse
    BY <1>0, <1>1, RefusePlain, PlainStep
<1>2. CASE machine.stubs /\ Fault
    <2>1. FaultsKnown'
        BY <1>0, <1>2 DEF FaultsKnown
    <2> QED
        BY <1>0, <1>2, <2>1, FaultStep
<1>3. ASSUME NEW name, NEW nodes, Makes([op |-> "policy", name |-> name, nodes |-> nodes], CMD_SUCCESS),
             UNCHANGED <<segs, kernel, cached>>,
             ~machine.stubs => name = policies[task.mode + 1].pol_name
      PROVE  Settled' /\ Told'
    <2>1. call' = [op |-> "policy", name |-> name, nodes |-> nodes] /\ pc' = "done"
        BY <1>3 DEF Makes
    <2>2. Settled'
        BY <1>0, <1>3 DEF Settled, Nodes, max, numa_supported, kernel, cached
    <2>3. NodesAsTyped' /\ AllowedFresh' /\ FaultsKnown'
        BY <1>0, <2>1 DEF NodesAsTyped, AllowedFresh, FaultsKnown
    <2>4. MbindAsTyped'
        BY <2>1 DEF MbindAsTyped
    <2>5. ASSUME ~machine.stubs PROVE get_mbind_policy(Pol(name, <<>>)) = task.mode
        <3>1. task.mode + 1 \in 1 .. 5 /\ name = policies[task.mode + 1].pol_name
            BY <1>3, <2>5 DEF Settled
        <3>2. /\ First(RowsOf(name)) = task.mode + 1 /\ RowsOf(name) # {}
              /\ policies[task.mode + 1].pol_flag = task.mode
            BY <3>1, PolicyFound, PolicyTable DEF Settled
        <3> QED
            BY <3>2 DEF get_mbind_policy, Pol
    <2>6. PolicyRoundTrip'
        BY <1>0, <1>3, <2>1, <2>5 DEF PolicyRoundTrip, kernel
    <2> QED
        BY <2>2, <2>3, <2>4, <2>6 DEF Told
<1> QED
    BY <1>0, <1>1, <1>2, <1>3 DEF show_task_policy

\* mems shows the nodes allowed after it set them, and dies without NUMA.
LEMMA ShowMemsStep ==
    ASSUME Settled, NEW args, typed' = [cmd |-> "mems", args |-> args], UNCHANGED machine,
           ShowMems(task'), task'.mode \in 0 .. 4, task'.nodes \in SUBSET Nodes
    PROVE  Settled' /\ Told'
<1>1. Nodes' = Nodes /\ (numa_supported' <=> numa_supported)
    BY DEF Nodes, max, numa_supported
<1>2. numa_get_membind(task)' = numa_get_membind(task') /\ numa_get_membind(task') \in SUBSET Nodes
    BY <1>1 DEF numa_get_membind
<1>3. mems_allowed' = IF numa_supported THEN numa_get_membind(task') ELSE NULL
    BY DEF ShowMems, refresh_mems_allowed, Settled
<1>4. Settled'
    BY <1>1, <1>3 DEF Settled
<1>5. CASE numa_supported
    <2>1. mems_allowed' # NULL
        BY <1>2, <1>3, <1>5, MachineFacts
    <2>2. call' = [op |-> "mems", nodes |-> numa_get_membind(task')] /\ pc' = "done"
        BY <2>1, <1>3, <1>5 DEF ShowMems, Makes
    <2>3. NodesAsTyped' /\ PolicyRoundTrip' /\ FaultsKnown'
        BY <2>2 DEF NodesAsTyped, PolicyRoundTrip, FaultsKnown
    <2>4. MbindAsTyped'
        BY <2>2 DEF MbindAsTyped
    <2>5. AllowedFresh'
        BY <2>2, <1>2 DEF AllowedFresh
    <2> QED
        BY <1>4, <2>3, <2>4, <2>5 DEF Told
<1>6. CASE ~numa_supported
    <2>1. call' = NoCall /\ pc' = "dead"
        BY <1>3, <1>6 DEF ShowMems
    <2>2. NodesAsTyped' /\ PolicyRoundTrip' /\ AllowedFresh'
        BY <2>1 DEF NodesAsTyped, PolicyRoundTrip, AllowedFresh, NoCall
    <2>3. MbindAsTyped'
        BY <2>1 DEF MbindAsTyped, NoCall
    <2>4. FaultsKnown'
        BY <1>1, <1>6, <2>1 DEF FaultsKnown
    <2> QED
        BY <1>4, <2>2, <2>3, <2>4 DEF Told
<1> QED
    BY <1>5, <1>6

\* set_mempolicy() leaves a proper policy.
LEMMA PolicySet ==
    ASSUME Settled, NEW mode \in 0 .. 4, NEW nodes, NEW r, set_mempolicy(mode, nodes, r)
    PROVE  task'.mode \in 0 .. 4 /\ task'.nodes \in SUBSET Nodes
BY DEF set_mempolicy, Settled, Policy, NodesOf

\* mems: a refusal, a node id that is too long, or the new nodes shown.
LEMMA MemsStep ==
    ASSUME Settled, NEW args \in Seq(UserWord), mems(args)
    PROVE  Settled' /\ Told'
<1>0. typed' = [cmd |-> "mems", args |-> args] /\ UNCHANGED machine
    BY DEF mems, Typed
<1>1. CASE Refuse
    BY <1>0, <1>1, RefusePlain, PlainStep
<1>2. CASE args # <<>> /\ get_nodemask(args, max).wild /\ Fault
    <2>1. TooLong(args[1]) /\ 1 \in DOMAIN args
        BY <1>2, NodemaskReads, MachineFacts
    <2>2. FaultsKnown'
        BY <1>0, <2>1 DEF FaultsKnown, TooLong
    <2> QED
        BY <1>0, <1>2, <2>2, FaultStep
<1>3. CASE UNCHANGED task /\ ShowMems(task)
    <2>1. task'.mode \in 0 .. 4 /\ task'.nodes \in SUBSET Nodes /\ ShowMems(task')
        BY <1>3 DEF Settled
    <2> QED
        BY <1>0, <2>1, ShowMemsStep
<1>4. ASSUME NEW nodes, NEW r, set_mempolicy(MPOL_BIND, nodes, r), ShowMems(task')
      PROVE  Settled' /\ Told'
    <2>1. task'.mode \in 0 .. 4 /\ task'.nodes \in SUBSET Nodes
        BY <1>4, PolicySet DEF MPOL_BIND
    <2> QED
        BY <1>0, <1>4, <2>1, ShowMemsStep
<1> QED
    BY <1>1, <1>2, <1>3, <1>4 DEF mems

\* The words of a line that one argument of migrate is read from.
LEMMA OneWord ==
    ASSUME NEW args \in Seq(UserWord), NEW i \in 1 .. Len(args)
    PROVE  /\ SubSeq(args, i, i) \in Seq(UserWord) /\ Len(SubSeq(args, i, i)) = 1
           /\ SubSeq(args, i, i)[1] = args[i]
OBVIOUS

\* Unchanged on the same machine: what a word says of nodes.
LEMMA SameWords ==
    ASSUME UNCHANGED machine
    PROVE  /\ Nodes' = Nodes /\ (numa_supported' <=> numa_supported)
           /\ \A w : NodeList(w)' <=> NodeList(w)
           /\ \A n, w : Exactly(n, w)' <=> Exactly(n, w)
BY DEF Nodes, max, numa_supported, NodeList, Exactly, TooLong

\* migrate: the nodes typed, or the nodes allowed now.
LEMMA MigrateStep ==
    ASSUME Settled, NEW args \in Seq(UserWord), migrate_process(args)
    PROVE  Settled' /\ Told'
<1> DEFINE to   == get_nodemask(SubSeq(args, 1, 1), max)
           from == get_nodemask(SubSeq(args, 2, 2), max)
<1>0. typed' = [cmd |-> "migrate", args |-> args] /\ UNCHANGED machine
    BY DEF migrate_process, Typed
<1>s. Nodes' = Nodes /\ (numa_supported' <=> numa_supported)
    BY <1>0, SameWords
<1>1. ASSUME Refuse,
             ~numa_supported \/ args = <<>> \/ \E i \in DOMAIN args : ~NodeList(args[i])
      PROVE  Settled' /\ Told'
    <2>1. /\ call' = NoCall /\ pc' = "done" /\ UNCHANGED <<task, mems_allowed>>
        BY <1>1 DEF Refuse, kernel, cached
    <2>2. Settled'
        BY <1>0, <1>s, <2>1 DEF Settled
    <2>3. NodesAsTyped'
        BY <1>0, <1>1, <1>s, <2>1 DEF NodesAsTyped, NoCall, NodeList
    <2>4. PolicyRoundTrip' /\ AllowedFresh' /\ FaultsKnown'
        BY <2>1 DEF PolicyRoundTrip, AllowedFresh, FaultsKnown, NoCall
    <2>5. MbindAsTyped'
        BY <2>1 DEF MbindAsTyped, NoCall
    <2> QED
        BY <2>2, <2>3, <2>4, <2>5 DEF Told
<1>2. ASSUME Fault, numa_supported, NEW i \in DOMAIN args, TooLong(args[i])
      PROVE  Settled' /\ Told'
    <2>1. FaultsKnown'
        BY <1>0, <1>2, <1>s DEF FaultsKnown, TooLong
    <2> QED
        BY <1>0, <1>2, <2>1, FaultStep
<1>3. ASSUME NEW f, Migrates(f, to.mask), UNCHANGED <<task, mems_allowed>> \/ numa_supported,
             UNCHANGED task, args # <<>>,
             Exactly(to.mask, args[1]), Len(args) > 1 => Exactly(f, args[2]),
             Len(args) = 1 => f = numa_get_membind(task)
      PROVE  Settled' /\ Told'
    <2>1. call' = [op |-> "migrate", from |-> f, to |-> to.mask] /\ pc' = "done"
        BY <1>3 DEF Migrates, Makes
    <2>2. Settled'
        BY <1>0, <1>s, <1>3 DEF Settled
    <2>3. NodesAsTyped'
        <3> HIDE DEF to
        <3>1. Exactly(to.mask, args[1]) /\ (Len(args) > 1 => Exactly(f, args[2]))
            BY <1>3
        <3> QED
            BY <3>1, <1>0, <1>s, <2>1 DEF NodesAsTyped, NoCall, Exactly, NodeList, TooLong
    <2>4. PolicyRoundTrip' /\ FaultsKnown'
        BY <2>1 DEF PolicyRoundTrip, FaultsKnown
    <2>5. MbindAsTyped'
        BY <2>1 DEF MbindAsTyped
    <2>6. AllowedFresh'
        BY <1>0, <1>s, <1>3, <2>1 DEF AllowedFresh, numa_get_membind
    <2> QED
        BY <2>2, <2>3, <2>4, <2>5, <2>6 DEF Told
<1>4. CASE ~numa_supported \/ args = <<>>
    BY <1>1, <1>4 DEF migrate_process
<1>5. CASE numa_supported /\ args # <<>>
    <2>1. Len(args) \in Nat /\ Len(args) >= 1 /\ DOMAIN args = 1 .. Len(args)
        BY <1>5
    <2>2. max \in Int
        BY MachineFacts
    <2>3. /\ to.wild => TooLong(args[1])
          /\ to.ok /\ ~to.wild => Exactly(to.mask, args[1])
          /\ ~to.ok => ~NodeList(args[1])
        <3>1. 1 \in 1 .. Len(args)
            BY <2>1
        <3> DEFINE one == SubSeq(args, 1, 1)
        <3>2. one \in Seq(UserWord) /\ Len(one) = 1 /\ one[1] = args[1]
            BY <3>1, OneWord
        <3> HIDE DEF one
        <3> QED
            BY <3>2, <2>2, NodemaskReads DEF one
    <2>4. ASSUME Len(args) > 1
          PROVE  /\ from.wild => TooLong(args[2])
                 /\ from.ok /\ ~from.wild => Exactly(from.mask, args[2])
                 /\ ~from.ok => ~NodeList(args[2])
        <3>1. 2 \in 1 .. Len(args)
            BY <2>1, <2>4
        <3> DEFINE one == SubSeq(args, 2, 2)
        <3>2. one \in Seq(UserWord) /\ Len(one) = 1 /\ one[1] = args[2]
            BY <3>1, OneWord
        <3> HIDE DEF one
        <3> QED
            BY <3>2, <2>2, NodemaskReads DEF one
    <2>5. /\ 1 \in DOMAIN args /\ (Len(args) > 1 => 2 \in DOMAIN args)
          /\ ~(Len(args) > 1) <=> Len(args) = 1
        BY <2>1
    <2>6. IF to.wild THEN Fault
          ELSE IF ~to.ok THEN Refuse
          ELSE IF Len(args) > 1
               THEN IF from.wild THEN Fault
                    ELSE IF ~from.ok THEN Refuse
                    ELSE Migrates(from.mask, to.mask) /\ UNCHANGED <<segs, kernel, cached>>
          ELSE /\ Migrates(get_current_nodemask, to.mask)
               /\ mems_allowed' = get_current_nodemask
               /\ UNCHANGED <<segs, kernel, cpus_allowed>>
        BY <1>5 DEF migrate_process
    <2> HIDE DEF to, from
    <2>7. CASE to.wild
        BY <2>3, <2>5, <2>6, <2>7, <1>5, <1>2
    <2>8. CASE ~to.wild /\ ~to.ok
        BY <2>3, <2>5, <2>6, <2>8, <1>5, <1>1
    <2>9. CASE ~to.wild /\ to.ok /\ Len(args) > 1
        BY <2>3, <2>4, <2>5, <2>6, <2>9, <1>1, <1>2, <1>3, <1>5 DEF kernel, cached
    <2>10. CASE ~to.wild /\ to.ok /\ Len(args) = 1
        <3>1. get_current_nodemask = numa_get_membind(task)
            BY <1>5 DEF get_current_nodemask, refresh_mems_allowed
        <3>2. Migrates(numa_get_membind(task), to.mask) /\ UNCHANGED task
            BY <3>1, <2>5, <2>6, <2>10 DEF kernel
        <3> QED
            BY <3>2, <2>3, <2>5, <2>10, <1>3, <1>5
    <2> QED
        BY <2>5, <2>7, <2>8, <2>9, <2>10
<1> QED
    BY <1>4, <1>5

\* mpol sets a policy: the nodes are those of the last word, or left out.
LEMMA SetsPolicyStep ==
    ASSUME Settled, NEW args \in Seq(UserWord), args # <<>>,
           typed' = [cmd |-> "mpol", args |-> args], UNCHANGED machine,
           NEW mode \in 0 .. 4, NEW nodes, SetsPolicy(mode, nodes),
           nodes = NULL \/ ~PolicyRead(args[1]) \/ Exactly(nodes, args[Len(args)])
    PROVE  Settled' /\ Told'
<1>1. PICK r \in {CMD_SUCCESS, CMD_ERROR} :
         set_mempolicy(mode, nodes, r) /\ Makes([op |-> "mpol", policy |-> mode, nodes |-> nodes], r)
    BY DEF SetsPolicy
<1>2. /\ call' = [op |-> "mpol", policy |-> mode, nodes |-> nodes] /\ pc' = "done"
      /\ UNCHANGED mems_allowed
    BY <1>1 DEF SetsPolicy, Makes, cached
<1>3. Nodes' = Nodes /\ (numa_supported' <=> numa_supported)
    BY SameWords
<1>4. Settled'
    BY <1>1, <1>2, <1>3, PolicySet DEF Settled
<1>5. NodesAsTyped'
    BY <1>2, <1>3 DEF NodesAsTyped, NoCall, Exactly, NodeList, TooLong
<1>6. PolicyRoundTrip' /\ AllowedFresh' /\ FaultsKnown'
    BY <1>2 DEF PolicyRoundTrip, AllowedFresh, FaultsKnown
<1>7. MbindAsTyped'
    BY <1>2 DEF MbindAsTyped
<1> QED
    BY <1>4, <1>5, <1>6, <1>7 DEF Told

\* A word that is no list names no node: only a NULL mask gets through.
LEMMA NoIds ==
    ASSUME NEW args, NEW policy, args # <<>>, Ids(args[1]) = <<>>
    PROVE  LET m == get_arg_nodemask(args, policy, max) IN ~m.wild /\ (m.ok => m.mask = NULL)
BY DEF get_arg_nodemask, get_nodemask, IdList

\* mpol <policy> [<nodes>]
LEMMA MpolStep ==
    ASSUME Settled, NEW args \in Seq(UserWord), mpol(args)
    PROVE  Settled' /\ Told'
<1> DEFINE w == Head(args)
           policy == get_mbind_policy(w)
           rest == IF w.flags = <<>> THEN Tail(args) ELSE <<Key("+")>> \o Tail(args)
           m == get_arg_nodemask(rest, policy, max)
<1>0. args # <<>> /\ typed' = [cmd |-> "mpol", args |-> args] /\ UNCHANGED machine
    BY DEF mpol, Typed
<1>1. w = args[1] /\ w \in UserWord /\ 1 \in DOMAIN args
    BY <1>0
<1>2. policy \in 0 .. 4
    BY <1>1, PolicyReads
<1>3. CASE Refuse
    BY <1>0, <1>3, RefusePlain, PlainStep
<1>4. CASE ~PolicyRead(w)
    <2>1. CASE Fault
        <3>1. FaultsKnown'
            BY <1>0, <1>1, <1>4 DEF FaultsKnown
        <3> QED
            BY <1>0, <2>1, <3>1, FaultStep
    <2>2. ASSUME NEW n, SetsPolicy(policy, n) PROVE Settled' /\ Told'
        <3> HIDE DEF policy
        <3> QED
            BY <2>2, <1>0, <1>1, <1>2, <1>4, SetsPolicyStep
    <2> QED
        BY <1>3, <1>4, <2>1, <2>2 DEF mpol
<1>5. CASE PolicyRead(w)
    <2>1. CASE w.flags = <<>>
        <3>1. rest = Tail(args)
            BY <2>1
        <3>2. rest # <<>> => rest[1] = args[2] /\ 2 \in DOMAIN args
            BY <3>1, <1>0
        <3>3. rest \in Seq(UserWord) /\ (Len(rest) = 1 => rest[1] = args[Len(args)])
            BY <3>1, <1>0
        <3> HIDE DEF rest, policy
        <3>r. /\ m.wild => rest # <<>> /\ TooLong(rest[1])
              /\ m.ok /\ ~m.wild => m.mask = NULL \/ (Len(rest) = 1 /\ Exactly(m.mask, rest[1]))
            BY <3>3, <1>2, MachineFacts, ArgNodemaskReads
        <3> HIDE DEF m
        <3>4. CASE m.wild /\ Fault
            <4>1. FaultsKnown'
                BY <1>0, <3>2, <3>4, <3>r DEF FaultsKnown, TooLong
            <4> QED
                BY <1>0, <3>4, <4>1, FaultStep
        <3>5. CASE m.ok /\ ~m.wild /\ SetsPolicy(policy, m.mask)
            BY <3>5, <3>3, <3>r, <1>0, <1>2, SetsPolicyStep
        <3> QED
            BY <1>3, <1>5, <3>4, <3>5 DEF mpol, m, rest, policy
    <2>2. CASE w.flags # <<>>
        <3>1. rest # <<>> /\ rest[1] = Key("+")
            <4>1. Tail(args) \in Seq(UserWord)
                BY <1>0
            <4> QED
                BY <2>2, <4>1
        <3> HIDE DEF rest, policy
        <3>2. ~m.wild /\ (m.ok => m.mask = NULL)
            <4>1. Ids(rest[1]) = <<>>
                BY <3>1 DEF Ids, Key
            <4> QED
                BY <4>1, <3>1, NoIds
        <3> HIDE DEF m
        <3>3. CASE m.ok /\ SetsPolicy(policy, m.mask)
            BY <3>2, <3>3, <1>0, <1>2, SetsPolicyStep
        <3> QED
            BY <1>3, <1>5, <3>2, <3>3 DEF mpol, m, rest, policy
    <2> QED
        BY <2>1, <2>2
<1> QED
    BY <1>4, <1>5

\* mbind <segment> [<range>] <policy> [<nodes>]
LEMMA MbindStep ==
    ASSUME Settled, NEW args \in Seq(UserWord), mbind_seg(args)
    PROVE  Settled' /\ Told'
<1> DEFINE r == get_range(Tail(args))
           w == Head(r.rest)
           policy == get_mbind_policy(w)
           flags == IF PolicyRead(w) /\ w.flags # <<>> THEN get_mbind_flags(w.flags) ELSE "none"
           nargs == IF PolicyRead(w) THEN Tail(r.rest) ELSE r.rest
           m == get_arg_nodemask(nargs, policy, max)
           c == [op |-> "mbind", name |-> args[1], offset |-> r.offset, length |-> r.length,
                 policy |-> policy, flags |-> flags, nodes |-> m.mask]
<1>0. typed' = [cmd |-> "mbind", args |-> args] /\ UNCHANGED machine
    BY DEF mbind_seg, Typed
<1>s. Nodes' = Nodes /\ (numa_supported' <=> numa_supported)
    BY <1>0, SameWords
<1>1. CASE Refuse
    BY <1>0, <1>1, RefusePlain, PlainStep
<1>2. CASE ~Refuse
    <2>1. numa_supported /\ args # <<>> /\ r.rest # <<>>
        BY <1>2 DEF mbind_seg
    <2>2. (m.wild /\ Fault) \/ (~m.wild /\ m.ok /\ Calls(c, args[1]))
        <3>1. IF flags = "error" THEN Refuse
              ELSE IF m.wild THEN Fault
              ELSE IF ~m.ok THEN Refuse
              ELSE Calls(c, args[1])
            BY <1>2 DEF mbind_seg
        <3> HIDE DEF m, flags, c
        <3> QED
            BY <3>1, <1>2
    <2>3. Tail(args) \in Seq(UserWord) /\ Len(Tail(args)) = Len(args) - 1
        BY <2>1
    <2>4. \A i \in 1 .. Len(args) - 1 : Tail(args)[i] = args[i + 1]
        BY <2>1
    <2> DEFINE rest == r.rest
               skip == IF StartsWithDigit(Tail(args)) THEN 3 ELSE 1
    <2>5. /\ rest \in Seq(UserWord) /\ rest # <<>> /\ Len(rest) = Len(args) - skip
          /\ \A i \in 1 .. Len(rest) : rest[i] = args[i + skip]
        <3> DEFINE tail == Tail(args)
        <3>1. tail \in Seq(UserWord) /\ Len(tail) = Len(args) - 1
            BY <2>3
        <3>2. \A i \in 1 .. Len(args) - 1 : tail[i] = args[i + 1]
            BY <2>4
        <3>3. rest = get_range(tail).rest /\ skip = IF StartsWithDigit(tail) THEN 3 ELSE 1
            OBVIOUS
        <3>4. skip \in {1, 3} /\ rest # <<>>
            BY <2>1
        <3> HIDE DEF tail, rest, skip
        <3>5. /\ rest \in Seq(UserWord) /\ Len(rest) =< Len(tail)
              /\ \A i \in 1 .. Len(rest) : rest[i] = tail[i + Len(tail) - Len(rest)]
              /\ Len(tail) - Len(rest) = skip - 1
            <4> DEFINE g == get_range(tail).rest
            <4>1. /\ g \in Seq(UserWord) /\ Len(g) =< Len(tail)
                  /\ g # <<>> => \A i \in 1 .. Len(g) : g[i] = tail[i + Len(tail) - Len(g)]
                  /\ g # <<>> => Len(tail) - Len(g) = IF StartsWithDigit(tail) THEN 2 ELSE 0
                BY <3>1, RangeRest
            <4>2. g = rest
                BY <3>3
            <4> HIDE DEF g
            <4>3. /\ rest \in Seq(UserWord) /\ Len(rest) =< Len(tail)
                  /\ \A i \in 1 .. Len(rest) : rest[i] = tail[i + Len(tail) - Len(rest)]
                  /\ Len(tail) - Len(rest) = IF StartsWithDigit(tail) THEN 2 ELSE 0
                BY <4>1, <4>2, <3>4
            <4>4. skip - 1 = IF StartsWithDigit(tail) THEN 2 ELSE 0
                BY <3>3
            <4> QED
                BY <4>3, <4>4
        <3>6. Len(rest) \in Nat /\ Len(args) \in Nat /\ Len(rest) = Len(args) - skip
            BY <3>1, <3>5, <3>4
        <3> QED
            BY <3>1, <3>2, <3>5, <3>4, <3>6
    <2> HIDE DEF skip
    <2>6. skip \in {1, 3} /\ w = rest[1] /\ w \in UserWord /\ w = args[1 + skip]
        <3>1. w = Head(rest)
            OBVIOUS
        <3>2. skip \in {1, 3}
            BY DEF skip
        <3> HIDE DEF rest, w
        <3>3. w = rest[1] /\ w \in UserWord /\ 1 \in 1 .. Len(rest)
            BY <3>1, <2>5
        <3> QED
            BY <3>2, <3>3, <2>5
    <2>7. policy \in 0 .. 4
        BY <2>6, PolicyReads
    <2>8. /\ nargs \in Seq(UserWord)
          /\ nargs # <<>> => \E i \in DOMAIN args : nargs[1] = args[i]
          /\ Len(nargs) = 1 => nargs[1] = args[Len(args)]
        <3>1. nargs = rest \/ nargs = Tail(rest)
            OBVIOUS
        <3> HIDE DEF rest, nargs, w
        <3>2. Len(rest) \in Nat /\ Len(args) \in Nat /\ DOMAIN args = 1 .. Len(args)
            BY <2>5
        <3>3. Len(rest) = Len(args) - skip /\ skip \in Nat
            BY <2>5, <2>6
        <3>4. Len(args) = Len(rest) + skip
            BY <3>2, <3>3
        <3>5. CASE nargs = rest
            <4>1. 1 + skip \in DOMAIN args /\ Len(rest) >= 1
                BY <3>2, <2>5, <2>6
            <4>2. nargs[1] = args[1 + skip]
                BY <3>5, <2>6
            <4>3. Len(nargs) = 1 => 1 + skip = Len(args)
                BY <3>5, <3>4
            <4> QED
                BY <3>5, <2>5, <4>1, <4>2, <4>3
        <3>6. CASE nargs = Tail(rest)
            <4>1. nargs \in Seq(UserWord) /\ Len(nargs) = Len(rest) - 1
                BY <3>6, <2>5
            <4>2. nargs # <<>> => Len(rest) >= 2 /\ nargs[1] = rest[2]
                BY <3>6, <4>1, <2>5
            <4>3. nargs # <<>> => 2 + skip \in DOMAIN args /\ nargs[1] = args[2 + skip]
                BY <4>2, <3>2, <2>5, <2>6
            <4>4. Len(nargs) = 1 => nargs # <<>>
                BY <4>1
            <4>5. Len(nargs) = 1 => 2 + skip = Len(args)
                <5>1. Len(nargs) = 1 => Len(rest) = 2
                    <6>1. Len(rest) = Len(nargs) + 1
                        BY <3>6, <2>5
                    <6> QED
                        BY <6>1
                <5> QED
                    BY <5>1, <3>3, <3>4
            <4> QED
                BY <4>1, <4>3, <4>4, <4>5
        <3> QED
            BY <3>1, <3>5, <3>6
    <2>9. ~PolicyRead(w) => nargs[1] = w /\ policy = MPOL_PREFERRED
        BY <2>6, PolicyReads
    <2>10. /\ m.wild => nargs # <<>> /\ TooLong(nargs[1])
           /\ m.ok /\ ~m.wild => m.mask = NULL \/ (Len(nargs) = 1 /\ Exactly(m.mask, nargs[1]))
           /\ m.ok /\ policy = MPOL_PREFERRED
                 => nargs # <<>> /\ nargs[1].k \in {"num", "list", "star"}
        <3> HIDE DEF nargs, policy
        <3> QED
            BY <2>7, <2>8, MachineFacts, ArgNodemaskReads
    <2> HIDE DEF m, nargs, policy, flags
    <2>11. CASE m.wild /\ Fault
        <3>1. FaultsKnown'
            BY <1>0, <1>s, <2>1, <2>8, <2>10, <2>11 DEF FaultsKnown, TooLong
        <3> QED
            BY <1>0, <2>11, <3>1, FaultStep
    <2>12. CASE ~m.wild /\ m.ok /\ Calls(c, args[1])
        <3>1. call' = c /\ pc' = "done" /\ UNCHANGED <<task, mems_allowed>>
            BY <2>12 DEF Calls, Makes, kernel, cached
        <3>2. call'.op = "mbind" /\ call'.policy = policy /\ call'.nodes = m.mask
            BY <3>1
        <3>3. Settled'
            BY <1>0, <1>s, <3>1 DEF Settled
        <3>4. PolicyRoundTrip' /\ AllowedFresh' /\ FaultsKnown'
            BY <3>1, <3>2 DEF PolicyRoundTrip, AllowedFresh, FaultsKnown
        <3>5. m.mask = NULL \/ Exactly(m.mask, args[Len(args)])
            BY <2>8, <2>10, <2>12
        <3> HIDE DEF c
        <3>6. NodesAsTyped'
            BY <1>0, <1>s, <3>2, <3>5 DEF NodesAsTyped, NoCall, Exactly, NodeList, TooLong
        <3>7. typed'.args[IF StartsWithDigit(Tail(typed'.args)) THEN 4 ELSE 2] = w
            BY <1>0, <2>6 DEF skip
        <3> HIDE DEF w
        <3>8. IF w.k = "pol"
              THEN w.pol = "" \/ (w.pol \in DOMAIN PolicyNumber /\ policy = PolicyNumber[w.pol])
              ELSE w.k \in {"num", "list", "star"} /\ policy = MPOL_PREFERRED
            <4>1. CASE PolicyRead(w)
                BY <4>1, <2>6, PolicyReads DEF policy
            <4>2. CASE ~PolicyRead(w)
                BY <4>2, <2>9, <2>10, <2>12
            <4> QED
                BY <4>1, <4>2
        <3>9. MbindAsTyped'
            BY <3>2, <3>7, <3>8 DEF MbindAsTyped
        <3> QED
            BY <3>3, <3>4, <3>6, <3>9 DEF Told
    <2> QED
        BY <2>2, <2>11, <2>12
<1> QED
    BY <1>1, <1>2

-----------------------------------------------------------------------------
\* Nothing was asked yet.
LEMMA ToldInit == Init => Settled /\ Told
<1> SUFFICES ASSUME Init PROVE Settled /\ Told
    OBVIOUS
<1>1. call = NoCall /\ pc = "prompt" /\ typed.cmd = "none"
    BY DEF Init, NoCommand
<1>2. Settled
    BY DEF Init, Settled, Policy, MPOL_DEFAULT, commands_init
<1>3. NodesAsTyped /\ AllowedFresh /\ PolicyRoundTrip /\ FaultsKnown
    BY <1>1 DEF NoCall, NodesAsTyped, AllowedFresh, PolicyRoundTrip, FaultsKnown
<1>4. MbindAsTyped
    BY <1>1 DEF NoCall, MbindAsTyped
<1> QED
    BY <1>2, <1>3, <1>4 DEF Told

\* A name and what follows it.
LEMMA ArgsTyped ==
    ASSUME NEW T, NEW names, names \subseteq T, NEW S, S \subseteq Seq(T)
    PROVE  Args(names, S) \subseteq Seq(T)
<1> SUFFICES ASSUME NEW args \in Args(names, S) PROVE args \in Seq(T)
    OBVIOUS
<1> DEFINE named == {Then(n, s) : n \in names, s \in S}
<1>1. Args(names, S) = {<<>>} \cup named
    BY DEF Args
<1>2. CASE args = <<>>
    BY <1>2
<1>3. CASE args # <<>>
    <2>1. args \in named
        <3> HIDE DEF named
        <3> QED
            BY <1>1, <1>3
    <2>2. PICK n \in names, s \in S : args = Then(n, s)
        BY <2>1
    <2>3. <<n>> \in Seq(T) /\ s \in Seq(T)
        OBVIOUS
    <2> QED
        BY <2>2, <2>3, ConcatProperties DEF Then
<1> QED
    BY <1>2, <1>3

\* A size and what follows it.
LEMMA SizeArgsTyped ==
    ASSUME NEW T, SizeWords \subseteq T, NEW S, S \subseteq Seq(T)
    PROVE  SizeArgs(S) \subseteq Seq(T)
<1> SUFFICES ASSUME NEW args \in SizeArgs(S) PROVE args \in Seq(T)
    OBVIOUS
<1> DEFINE sized == {Then(size, s) : size \in SizeWords, s \in S}
<1>1. SizeArgs(S) = {<<>>} \cup sized
    BY DEF SizeArgs
<1>2. CASE args = <<>>
    BY <1>2
<1>3. CASE args # <<>>
    <2>1. args \in sized
        <3> HIDE DEF sized
        <3> QED
            BY <1>1, <1>3
    <2>2. PICK size \in SizeWords, s \in S : args = Then(size, s)
        BY <2>1
    <2>3. <<size>> \in Seq(T) /\ s \in Seq(T)
        OBVIOUS
    <2> QED
        BY <2>2, <2>3, ConcatProperties DEF Then
<1> QED
    BY <1>2, <1>3

\* The lines typed are sequences of words.
LEMMA LinesTyped ==
    /\ Args(SegNames, Ranged(PolicyArgs)) \subseteq Seq(UserWord)
    /\ PolicyArgs \subseteq Seq(UserWord) /\ NodeArgs \subseteq Seq(UserWord)
    /\ MemArgs \subseteq Seq(UserWord) /\ RangeArgs \subseteq Seq(UserWord)
    /\ Args(SegNames, SizeArgs(OptionArgs)) \subseteq Seq(UserWord \cup OptionWord)
<1>1. /\ PolicyArgs \subseteq Seq(UserWord) /\ NodeArgs \subseteq Seq(UserWord)
      /\ MemArgs \subseteq Seq(UserWord) /\ RangeArgs \subseteq Seq(UserWord)
      /\ SegNames \subseteq UserWord
    BY FrontEndsAssumption
<1>2. ASSUME NEW args \in Ranged(PolicyArgs) PROVE args \in Seq(UserWord)
    <2>1. PICK r \in RangeArgs, s \in PolicyArgs : args = r \o s
        BY <1>2 DEF Ranged
    <2> QED
        BY <1>1, <2>1
<1>3. Args(SegNames, Ranged(PolicyArgs)) \subseteq Seq(UserWord)
    <2>1. Ranged(PolicyArgs) \subseteq Seq(UserWord)
        BY <1>2
    <2> QED
        BY <1>1, <2>1, ArgsTyped
<1>4. Args(SegNames, SizeArgs(OptionArgs)) \subseteq Seq(UserWord \cup OptionWord)
    <2> DEFINE T == UserWord \cup OptionWord
    <2>1. SegNames \subseteq T /\ SizeWords \subseteq T /\ OptionArgs \subseteq Seq(T)
        BY FrontEndsAssumption
    <2> HIDE DEF T
    <2>2. SizeArgs(OptionArgs) \subseteq Seq(T)
        BY <2>1, SizeArgsTyped
    <2>3. Args(SegNames, SizeArgs(OptionArgs)) \subseteq Seq(T)
        BY <2>1, <2>2, ArgsTyped
    <2> QED
        BY <2>3 DEF T
<1> QED
    BY <1>1, <1>3, <1>4

\* Every step keeps the invariant and what is told.
LEMMA ToldNext == Settled /\ Told /\ [Next]_vars => Settled' /\ Told'
<1> SUFFICES ASSUME Settled, Told, [Next]_vars PROVE Settled' /\ Told'
    OBVIOUS
<1>1. CASE Plain
    BY <1>1, PlainStep
<1>2. CASE Telling
    BY <1>2, LinesTyped, AnonStep, MbindStep, MpolStep, ShowPolicyStep, NumaStep, MigrateStep, MemsStep
    DEF Telling
<1>3. CASE UNCHANGED vars
    <2>1. Settled'
        BY <1>3 DEF vars, Settled, Nodes, max, numa_supported
    <2>2. NodesAsTyped'
        BY <1>3 DEF vars, Told, NodesAsTyped, Exactly, NodeList, Nodes, max, numa_supported
    <2>3. AllowedFresh' /\ PolicyRoundTrip'
        BY <1>3 DEF vars, Told, AllowedFresh, PolicyRoundTrip, numa_get_membind, Nodes, max
    <2>4. MbindAsTyped'
        BY <1>3 DEF vars, Told, MbindAsTyped
    <2>5. FaultsKnown'
        BY <1>3 DEF vars, Told, FaultsKnown, numa_supported, max, numa_get_membind, Nodes
    <2> QED
        BY <2>1, <2>2, <2>3, <2>4, <2>5 DEF Told
<1> QED
    BY <1>1, <1>2, <1>3, PlainOrTelling

\* The invariant holds throughout.
LEMMA ToldHolds == Spec => [](Settled /\ Told)
BY ToldInit, ToldNext, PTL DEF Spec

(***************************************************************************)
(* get_nodemask(): mbind, mpol and migrate hand the kernel exactly the     *)
(* nodes typed, or an id does not fit in an int; migrate refuses no list   *)
(* of nodes of the machine.                                                *)
(***************************************************************************)
THEOREM NodesReachKernel == Spec => []NodesAsTyped
BY ToldHolds, PTL DEF Told

(***************************************************************************)
(* numa, mems and migrate use the nodes allowed when they run, never an    *)
(* older mems_allowed.                                                     *)
(***************************************************************************)
THEOREM AllowedNow == Spec => []AllowedFresh
BY ToldHolds, PTL DEF Told

(***************************************************************************)
(* The name mpol shows sets, when typed, the policy in force.              *)
(***************************************************************************)
THEOREM PolicyNamesRoundTrip == Spec => []PolicyRoundTrip
BY ToldHolds, PTL DEF Told

(***************************************************************************)
(* mbind applies the policy typed, and takes a word it does not know for   *)
(* MPOL_PREFERRED only where the word is itself a list of nodes or '*'.    *)
(***************************************************************************)
THEOREM MbindKeepsPolicy == Spec => []MbindAsTyped
BY ToldHolds, PTL DEF Told

(***************************************************************************)
(* No command line ends the program but those FaultsKnown lists, on every  *)
(* machine, with and without NUMA support.                                 *)
(***************************************************************************)
THEOREM OnlyKnownFaults == Spec => []FaultsKnown
BY ToldHolds, PTL DEF Told

-----------------------------------------------------------------------------
(***************************************************************************)
(* The loop of remove_seg(), for any number of names.                      *)
(***************************************************************************)

\* The states of a loop over any number of steps exist: a run of n - 1 steps
\* can be extended by one.
LoopOf(names, args, n, f) ==
    f = [i \in 0 .. n |-> IF i = 0 THEN [segs |-> names, stop |-> FALSE]
                          ELSE RemoveOne(f[i - 1], args[i])]

\* A loop of any number of steps runs.
LEMMA LoopRuns ==
    ASSUME NEW names, NEW args, NEW n \in Nat
    PROVE  \E f : LoopOf(names, args, n, f)
<1> DEFINE start  == [segs |-> names, stop |-> FALSE]
           Runs(m) == \E f : LoopOf(names, args, m, f)
           stuck  == {m \in Nat : ~Runs(m)}
<1> SUFFICES ASSUME stuck # {} PROVE FALSE
    OBVIOUS
<1>1. PICK m \in stuck : \A e \in stuck : m =< e
    <2>1. stuck \subseteq Nat
        OBVIOUS
    <2> HIDE DEF stuck
    <2> QED
        BY <2>1, LeastNumber
<1>2. m \in Nat /\ ~Runs(m)
    BY <1>1
<1>3. m # 0
    <2> DEFINE f == [i \in 0 .. 0 |-> start]
    <2>1. f = [i \in 0 .. 0 |-> IF i = 0 THEN start ELSE RemoveOne(f[i - 1], args[i])]
        <3>1. \A i \in 0 .. 0 : i = 0
            OBVIOUS
        <3> HIDE DEF start
        <3> QED
            BY <3>1
    <2>2. LoopOf(names, args, 0, f)
        BY <2>1 DEF LoopOf
    <2>3. Runs(0)
        BY <2>2
    <2> QED
        BY <1>2, <2>3
<1>4. m - 1 \in Nat /\ Runs(m - 1)
    BY <1>1, <1>2, <1>3
<1>5. PICK f : LoopOf(names, args, m - 1, f)
    BY <1>4
<1> DEFINE g == [i \in 0 .. m |-> IF i = m THEN RemoveOne(f[m - 1], args[m]) ELSE f[i]]
<1>6. ASSUME NEW i \in 0 .. m
      PROVE  g[i] = IF i = 0 THEN start ELSE RemoveOne(g[i - 1], args[i])
    <2> HIDE DEF start
    <2>1. f = [j \in 0 .. m - 1 |-> IF j = 0 THEN start ELSE RemoveOne(f[j - 1], args[j])]
        BY <1>5 DEF LoopOf, start
    <2>2. CASE i = m
        <3>1. g[m] = RemoveOne(f[m - 1], args[m]) /\ g[m - 1] = f[m - 1]
            BY <1>2, <1>4
        <3> QED
            BY <1>3, <2>2, <3>1
    <2>3. CASE i # m
        <3>1. i \in 0 .. m - 1 /\ g[i] = f[i]
            BY <1>2, <2>3
        <3>2. f[i] = IF i = 0 THEN start ELSE RemoveOne(f[i - 1], args[i])
            BY <2>1, <3>1
        <3>3. i # 0 => g[i - 1] = f[i - 1]
            BY <1>2, <3>1
        <3> QED
            BY <3>1, <3>2, <3>3
    <2> QED
        BY <2>2, <2>3
<1>7. LoopOf(names, args, m, g)
    <2>1. g = [i \in 0 .. m |-> g[i]]
        OBVIOUS
    <2> HIDE DEF g, start
    <2>2. g = [i \in 0 .. m |-> IF i = 0 THEN start ELSE RemoveOne(g[i - 1], args[i])]
        BY <2>1, <1>6
    <2> QED
        BY <2>2 DEF LoopOf, start
<1> QED
    BY <1>2, <1>7

\* The states of the loop of remove_seg().
LEMMA LoopStates ==
    ASSUME NEW names, NEW args, Len(args) \in Nat
    PROVE  /\ Removing(names, args)[0] = [segs |-> names, stop |-> FALSE]
           /\ \A i \in 1 .. Len(args) :
                 Removing(names, args)[i] = RemoveOne(Removing(names, args)[i - 1], args[i])
<1> DEFINE n == Len(args)
           o == Removing(names, args)
<1>1. o = CHOOSE f : LoopOf(names, args, n, f)
    BY DEF Removing, LoopOf
<1>2. LoopOf(names, args, n, o)
    <2>1. \E f : LoopOf(names, args, n, f)
        BY LoopRuns
    <2> QED
        BY <1>1, <2>1
<1> HIDE DEF o
<1>3. o = [i \in 0 .. n |-> IF i = 0 THEN [segs |-> names, stop |-> FALSE]
                            ELSE RemoveOne(o[i - 1], args[i])]
    BY <1>2 DEF LoopOf
<1>4. o[0] = [segs |-> names, stop |-> FALSE]
    BY <1>3
<1>5. ASSUME NEW i \in 1 .. n PROVE o[i] = RemoveOne(o[i - 1], args[i])
    <2>1. i \in 0 .. n /\ i # 0
        OBVIOUS
    <2> HIDE DEF n
    <2> QED
        BY <1>3, <2>1
<1> QED
    BY <1>4, <1>5 DEF o

\* One step of the loop.
LEMMA OneRemoved ==
    ASSUME NEW o, NEW names, o \in [segs : SUBSET names, stop : BOOLEAN], NEW n
    PROVE  /\ o.stop \/ n \notin o.segs \ machine.maps
                 => RemoveOne(o, n) = [segs |-> o.segs, stop |-> TRUE]
           /\ ~o.stop /\ n \in o.segs \ machine.maps
                 => RemoveOne(o, n) = [segs |-> o.segs \ {n}, stop |-> FALSE]
BY DEF RemoveOne

\* The first k names are registered, none of them by the task's maps, each once: none
\* stops the loop.
Prefix(names, args, k) ==
    \A j \in 1 .. k : args[j] \in names \ machine.maps /\ \A m \in 1 .. j - 1 : args[m] # args[j]

\* What the loop has done after i names.
Removed(names, args, i, o) ==
    /\ o \in [segs : SUBSET names, stop : BOOLEAN]
    /\ o.stop <=> ~Prefix(names, args, i)
    /\ \A x \in names : x \in o.segs <=> \A k \in 1 .. i : Prefix(names, args, k) => args[k] # x

\* One more name.
LEMMA RemovedStep ==
    ASSUME NEW names, NEW args, NEW i \in Nat \ {0}, NEW o, Removed(names, args, i - 1, o)
    PROVE  Removed(names, args, i, RemoveOne(o, args[i]))
<1> DEFINE r == RemoveOne(o, args[i])
           P(k) == Prefix(names, args, k)
<1>1. P(i) <=> P(i - 1) /\ args[i] \in names \ machine.maps /\ \A m \in 1 .. i - 1 : args[m] # args[i]
    <2>1. \A j \in 1 .. i : j \in 1 .. i - 1 \/ j = i
        OBVIOUS
    <2>2. 1 .. i - 1 \subseteq 1 .. i /\ i \in 1 .. i
        OBVIOUS
    <2> QED
        BY <2>1, <2>2 DEF Prefix
<1>2. ASSUME NEW k \in 1 .. i - 1, P(i - 1) PROVE P(k)
    <2>1. 1 .. k \subseteq 1 .. i - 1
        OBVIOUS
    <2> QED
        BY <2>1, <1>2 DEF Prefix
<1>3. /\ o \in [segs : SUBSET names, stop : BOOLEAN]
      /\ o.stop <=> ~P(i - 1)
      /\ \A x \in names : x \in o.segs <=> \A k \in 1 .. i - 1 : P(k) => args[k] # x
    BY DEF Removed
<1>4. o.segs \subseteq names
    BY <1>3
<1> HIDE DEF P
<1>5. \A k : k \in 1 .. i <=> k \in 1 .. i - 1 \/ k = i
    OBVIOUS
<1>6. P(i - 1) => (args[i] \in o.segs \ machine.maps <=> P(i))
    BY <1>1, <1>2, <1>3, <1>4
<1>7. CASE P(i)
    <2>1. r = [segs |-> o.segs \ {args[i]}, stop |-> FALSE]
        BY <1>1, <1>3, <1>6, <1>7, OneRemoved
    <2> HIDE DEF r
    <2>2. r.segs = o.segs \ {args[i]} /\ r.stop = FALSE /\ r \in [segs : SUBSET names, stop : BOOLEAN]
        BY <1>4, <2>1
    <2>3. ASSUME NEW x \in names
          PROVE  x \in r.segs <=> \A k \in 1 .. i : P(k) => args[k] # x
        BY <1>3, <1>5, <1>7, <2>2
    <2> QED
        BY <1>7, <2>2, <2>3, Zenon DEF Removed, r, P
<1>8. CASE ~P(i)
    <2>1. o.stop \/ args[i] \notin o.segs \ machine.maps
        BY <1>3, <1>6, <1>8
    <2>2. r = [segs |-> o.segs, stop |-> TRUE]
        BY <1>3, <2>1, OneRemoved
    <2> HIDE DEF r
    <2>3. r.segs = o.segs /\ r.stop = TRUE /\ r \in [segs : SUBSET names, stop : BOOLEAN]
        BY <1>4, <2>2
    <2>4. ASSUME NEW x \in names
          PROVE  x \in r.segs <=> \A k \in 1 .. i : P(k) => args[k] # x
        BY <1>3, <1>5, <1>8, <2>3
    <2> QED
        BY <1>8, <2>3, <2>4, Zenon DEF Removed, r, P
<1> QED
    BY <1>7, <1>8

\* The loop does this for any number of names.
LEMMA RemovedAll ==
    ASSUME NEW names, NEW args, Len(args) \in Nat
    PROVE  Removed(names, args, Len(args), Removing(names, args)[Len(args)])
<1> DEFINE o == Removing(names, args)
           n == Len(args)
           odd == {i \in 0 .. n : ~Removed(names, args, i, o[i])}
<1>1. /\ o[0] = [segs |-> names, stop |-> FALSE]
      /\ \A i \in 1 .. n : o[i] = RemoveOne(o[i - 1], args[i])
    BY LoopStates
<1> HIDE DEF o
<1>2. SUFFICES ASSUME odd # {} PROVE FALSE
    <2>1. n \in 0 .. n
        OBVIOUS
    <2> QED
        BY <2>1 DEF o
<1>3. PICK i \in odd : \A j \in odd : i =< j
    <2>1. odd \subseteq Nat
        OBVIOUS
    <2> HIDE DEF odd
    <2> QED
        BY <1>2, <2>1, LeastNumber
<1>4. i \in 0 .. n /\ ~Removed(names, args, i, o[i])
    BY <1>3
<1>5. i # 0
    <2>1. Removed(names, args, 0, [segs |-> names, stop |-> FALSE])
        <3> DEFINE r == [segs |-> names, stop |-> FALSE]
        <3>1. r \in [segs : SUBSET names, stop : BOOLEAN] /\ r.segs = names /\ r.stop = FALSE
            OBVIOUS
        <3>2. 1 .. 0 = {}
            OBVIOUS
        <3> HIDE DEF r
        <3> QED
            BY <3>1, <3>2 DEF Removed, Prefix, r
    <2> QED
        BY <1>1, <1>4, <2>1
<1>6. i \in Nat \ {0} /\ i \in 1 .. n /\ i - 1 \in 0 .. n /\ ~(i =< i - 1)
    BY <1>4, <1>5
<1>7. Removed(names, args, i - 1, o[i - 1])
    BY <1>3, <1>6
<1>8. Removed(names, args, i, RemoveOne(o[i - 1], args[i]))
    BY <1>6, <1>7, RemovedStep
<1> QED
    BY <1>1, <1>4, <1>6, <1>8

\* remove takes the names before the first that is unknown, of the maps or repeated.
LEMMA RemoveDoes ==
    ASSUME NEW T, NEW args \in Seq(T), args # <<>>, remove_seg(args)
    PROVE  LET good == {i \in DOMAIN args : \A j \in 1 .. i :
                           /\ args[j] \in segs \ machine.maps
                           /\ \A k \in 1 .. j - 1 : args[k] # args[j]}
           IN  /\ segs' = segs \ {args[i] : i \in good}
               /\ ret' = CMD_ERROR <=> good # DOMAIN args
<1> DEFINE good == {i \in DOMAIN args : \A j \in 1 .. i :
                           /\ args[j] \in segs \ machine.maps
                           /\ \A k \in 1 .. j - 1 : args[k] # args[j]}
           n == Len(args)
           o == Removing(segs, args)[n]
<1>1. n \in Nat \ {0} /\ DOMAIN args = 1 .. n
    BY LenProperties, EmptySeq
<1>2. Removed(segs, args, n, o)
    BY <1>1, RemovedAll
<1>3. segs' = o.segs /\ ret' = IF o.stop THEN CMD_ERROR ELSE CMD_SUCCESS
    BY DEF remove_seg, Makes
<1> HIDE DEF o
<1>4. good = {i \in 1 .. n : Prefix(segs, args, i)}
    BY <1>1 DEF Prefix
<1> HIDE DEF good
<1>5. o.segs = segs \ {args[i] : i \in good}
    <2>1. o.segs \subseteq segs
        BY <1>2 DEF Removed
    <2>2. \A x \in segs : x \in o.segs <=> \A k \in 1 .. n : Prefix(segs, args, k) => args[k] # x
        BY <1>2 DEF Removed
    <2> HIDE DEF n
    <2>3. ASSUME NEW x \in segs
          PROVE  x \in o.segs <=> x \notin {args[i] : i \in good}
        BY <1>4, <2>2
    <2> QED
        BY <2>1, <2>3
<1>6. o.stop <=> good # 1 .. n
    <2>1. o.stop <=> ~Prefix(segs, args, n)
        BY <1>2 DEF Removed
    <2>2. n \in 1 .. n
        BY <1>1
    <2>3. ASSUME Prefix(segs, args, n), NEW k \in 1 .. n PROVE Prefix(segs, args, k)
        <3>1. 1 .. k \subseteq 1 .. n
            BY <1>1
        <3> QED
            BY <2>3, <3>1 DEF Prefix
    <2> QED
        BY <1>4, <2>1, <2>2, <2>3
<1>7. ret' = CMD_ERROR <=> o.stop
    BY <1>3 DEF CMD_ERROR, CMD_SUCCESS
<1> QED
    BY <1>1, <1>3, <1>5, <1>6, <1>7 DEF good

\* The command word of every action but remove is another.
LEMMA OnlyRemove ==
    ASSUME Next, typed'.cmd = "remove"
    PROVE  \E args \in UNION {[1 .. n -> SegNames] : n \in 0 .. MaxNames} :
              remove_seg(args) /\ typed'.args = args
<1> DEFINE Other == typed'.cmd # "remove"
<1>1. ASSUME NEW cmd, NEW args, Typed(cmd, args), cmd # "remove" PROVE Other
    BY <1>1 DEF Typed
<1>2. ASSUME NEW args, anon_seg(args) \/ shmem_seg(args) \/ file_seg(args) \/ map_seg(args)
      PROVE  Other
    BY <1>1, <1>2, Zenon DEF anon_seg, shmem_seg, file_seg, map_seg
<1>3. ASSUME NEW args, show_seg(args) \/ unmap_seg(args) \/ touch_seg(args) \/ where_seg(args)
      PROVE  Other
    BY <1>1, <1>3, Zenon DEF show_seg, unmap_seg, touch_seg, where_seg
<1>4. ASSUME NEW args, NEW lock, NEW shm, lock_unlock(lock, shm, args) PROVE Other
    <2>1. Typed(IF shm THEN "slock" ELSE "lock", args)
        BY <1>4, Zenon DEF lock_unlock
    <2> QED
        BY <1>1, <2>1
<1>5. ASSUME NEW args, mprotect_seg(args) \/ mbind_seg(args) \/ mpol(args) \/ migrate_process(args)
      PROVE  Other
    BY <1>1, <1>5, Zenon DEF mprotect_seg, mbind_seg, mpol, migrate_process
<1>6. ASSUME NEW args, mems(args) \/ cpus(args) \/ child_kick(args) \/ snooze(args)
      PROVE  Other
    BY <1>1, <1>6, Zenon DEF mems, cpus, child_kick, snooze
<1>7. show_task_policy \/ numa_info => Other
    BY <1>1, Zenon DEF show_task_policy, numa_info
<1>8. NextLine => Other
    BY DEF NextLine, NoCommand
<1>9. ~Task
    BY <1>5, <1>6, <1>7, Zenon DEF Task
<1>10. Segment
    BY <1>8, <1>9 DEF Next
<1>11. \E args \in UNION {[1 .. n -> SegNames] : n \in 0 .. MaxNames} : remove_seg(args)
    BY <1>2, <1>3, <1>4, <1>5, <1>10, Zenon DEF Segment
<1> QED
    BY <1>11 DEF remove_seg, Typed

\* The lines of remove are sequences of names.
LEMMA NamesAreSeq ==
    ASSUME NEW args \in UNION {[1 .. n -> SegNames] : n \in 0 .. MaxNames}
    PROVE  args \in Seq(SegNames)
<1>1. PICK n \in 0 .. MaxNames : args \in [1 .. n -> SegNames]
    OBVIOUS
<1>2. \A i \in 1 .. n : args[i] \in SegNames
    BY <1>1
<1>3. args = [i \in 1 .. n |-> args[i]] /\ n \in Nat
    BY <1>1
<1> QED
    BY <1>2, <1>3, IsASeq

(***************************************************************************)
(* remove_seg() of several names removes those before the first that is    *)
(* unknown, that belongs to the task's maps or that was just removed, and  *)
(* no other, and fails exactly when there is such a name.                  *)
(***************************************************************************)
THEOREM RemovesUpToFirst == Spec => RemovePartial
<1> DEFINE Body(args) ==
              LET good == {i \in DOMAIN args : \A j \in 1 .. i :
                              /\ args[j] \in segs \ machine.maps
                              /\ \A k \in 1 .. j - 1 : args[k] # args[j]}
              IN  /\ segs' = segs \ {args[i] : i \in good}
                  /\ ret' = CMD_ERROR <=> good # DOMAIN args
<1>1. Next => (typed'.cmd = "remove" /\ typed'.args # <<>> => Body(typed'.args))
    <2> SUFFICES ASSUME Next, typed'.cmd = "remove", typed'.args # <<>> PROVE Body(typed'.args)
        OBVIOUS
    <2>1. PICK args \in UNION {[1 .. n -> SegNames] : n \in 0 .. MaxNames} :
             remove_seg(args) /\ typed'.args = args
        BY OnlyRemove
    <2>2. args \in Seq(SegNames)
        BY NamesAreSeq
    <2>3. args # <<>> /\ remove_seg(args)
        BY <2>1, Zenon
    <2>4. Body(args)
        BY <2>2, <2>3, RemoveDoes, Zenon
    <2> HIDE DEF Body
    <2> QED
        BY <2>1, <2>4
<1> QED
    BY <1>1, PTL DEF Spec, RemovePartial

-----------------------------------------------------------------------------
(***************************************************************************)
(* Types.  Most commands are quiet: they leave the kernel and the caches   *)
(* alone and register no name but one a user may type.  Every step is      *)
(* proper: a new policy is one the kernel accepts, the cached nodes are    *)
(* refreshed from the policy in force, the affinity is never empty.        *)
(***************************************************************************)
Ends == pc' \in {"prompt", "done", "dead"} /\ ret' \in {CMD_SUCCESS, CMD_ERROR}

Quiet ==
    /\ Ends /\ segs' \subseteq segs \cup SegNames /\ segs \cap machine.maps \subseteq segs'
    /\ UNCHANGED <<machine, task, affinity, mems_allowed, cpus_allowed>>

Repolicied ==
    \E mode \in 0 .. 4 : \E nodes :
        Acceptable(mode, nodes) /\ task' = Policy(mode, NodesOf(nodes))

Proper ==
    /\ Ends /\ segs' \subseteq segs \cup SegNames /\ segs \cap machine.maps \subseteq segs'
    /\ UNCHANGED machine
    /\ task' = task \/ Repolicied
    /\ mems_allowed' = mems_allowed \/ mems_allowed' = refresh_mems_allowed(task')
    /\ \/ UNCHANGED <<affinity, cpus_allowed>>
       \/ cpus_allowed' = affinity' /\ affinity' \in {affinity} \cup ((SUBSET OnlineCpus) \ {{}})

\* A refusal, or the end of the program.
LEMMA RefuseQuiet == UNCHANGED machine /\ (Refuse \/ Fault) => Quiet
BY DEF Refuse, Fault, Quiet, Ends, kernel, cached

\* A call that changes nothing here.
LEMMA MakesQuiet ==
    ASSUME NEW c, NEW r \in {CMD_SUCCESS, CMD_ERROR}, Makes(c, r),
           UNCHANGED machine, UNCHANGED <<segs, kernel, cached>>
    PROVE  Quiet
BY DEF Makes, Quiet, Ends, kernel, cached

\* A call of the segment layer about one segment.
LEMMA CallsQuiet ==
    ASSUME NEW c, NEW n, Calls(c, n), UNCHANGED machine
    PROVE  Quiet
BY DEF Calls, Makes, Quiet, Ends, kernel, cached

\* A registration of a name that a user may type.
LEMMA RegistersQuiet ==
    ASSUME NEW c, NEW n \in SegNames, Registers(c, n), UNCHANGED machine
    PROVE  Quiet
BY DEF Registers, Makes, Quiet, Ends, kernel, cached

\* The first word of a line is one of the names.
LEMMA FirstIsName ==
    ASSUME NEW T, NEW names, names \subseteq T, NEW S, S \subseteq Seq(T),
           NEW args \in Args(names, S), args # <<>>
    PROVE  args[1] \in names
<1> DEFINE named == {Then(n, s) : n \in names, s \in S}
<1>1. args \in named
    <2>1. Args(names, S) = {<<>>} \cup named
        BY DEF Args
    <2> HIDE DEF named
    <2> QED
        BY <2>1
<1>2. PICK n \in names, s \in S : args = Then(n, s)
    BY <1>1
<1>3. <<n>> \in Seq(T) /\ s \in Seq(T) /\ Len(<<n>>) = 1 /\ <<n>>[1] = n
    OBVIOUS
<1>4. (<<n>> \o s)[1] = n
    BY <1>3, ConcatProperties
<1> QED
    BY <1>2, <1>4 DEF Then

\* anon, shmem, file and map name a segment that a user may type.
LEMMA NamesTyped ==
    /\ \A args \in Args(SegNames, SizeArgs(OptionArgs)) : args # <<>> => args[1] \in SegNames
    /\ \A args \in Args(SegNames, SizeArgs({<<>>, <<Key("huge")>>})) :
          args # <<>> => args[1] \in SegNames
    /\ \A args \in Args(SegNames, Ranged(ShareArgs)) : args # <<>> => args[1] \in SegNames
<1> DEFINE T == UserWord \cup OptionWord
           U == UserWord \cup {Key("huge")}
<1>1. SegNames \subseteq T /\ SizeWords \subseteq T /\ OptionArgs \subseteq Seq(T)
    BY FrontEndsAssumption
<1>2. SegNames \subseteq U /\ SizeWords \subseteq U /\ {<<>>, <<Key("huge")>>} \subseteq Seq(U)
    <2>1. SegNames \subseteq U /\ SizeWords \subseteq U /\ Key("huge") \in U
        BY FrontEndsAssumption
    <2> HIDE DEF U
    <2>2. <<>> \in Seq(U) /\ <<Key("huge")>> \in Seq(U)
        BY <2>1
    <2> QED
        BY <2>1, <2>2
<1>3. SegNames \subseteq UserWord /\ Ranged(ShareArgs) \subseteq Seq(UserWord)
    <2>1. RangeArgs \subseteq Seq(UserWord) /\ ShareArgs \subseteq Seq(UserWord) /\ SegNames \subseteq UserWord
        BY FrontEndsAssumption
    <2>2. ASSUME NEW a \in Ranged(ShareArgs) PROVE a \in Seq(UserWord)
        <3>1. PICK r \in RangeArgs, s \in ShareArgs : a = r \o s
            BY <2>2 DEF Ranged
        <3> QED
            BY <2>1, <3>1
    <2> QED
        BY <2>1, <2>2
<1> HIDE DEF T, U
<1>4. \A args \in Args(SegNames, SizeArgs(OptionArgs)) : args # <<>> => args[1] \in SegNames
    <2>1. SizeArgs(OptionArgs) \subseteq Seq(T)
        BY <1>1, SizeArgsTyped
    <2> QED
        BY <1>1, <2>1, FirstIsName
<1>5. \A args \in Args(SegNames, SizeArgs({<<>>, <<Key("huge")>>})) :
          args # <<>> => args[1] \in SegNames
    <2> DEFINE S == {<<>>, <<Key("huge")>>}
    <2>0. S \subseteq Seq(U)
        BY <1>2
    <2> HIDE DEF S
    <2>2. SizeArgs(S) \subseteq Seq(U)
        BY <1>2, <2>0, SizeArgsTyped
    <2>1. \A args \in Args(SegNames, SizeArgs(S)) : args # <<>> => args[1] \in SegNames
        BY <1>2, <2>2, FirstIsName
    <2> QED
        BY <2>1 DEF S
<1>6. \A args \in Args(SegNames, Ranged(ShareArgs)) : args # <<>> => args[1] \in SegNames
    BY <1>3, FirstIsName
<1> QED
    BY <1>4, <1>5, <1>6

\* The commands that register a segment.
LEMMA RegisteringQuiet ==
    ASSUME NEW args, args # <<>> => args[1] \in SegNames,
           anon_seg(args) \/ shmem_seg(args) \/ file_seg(args)
    PROVE  Quiet
<1>1. UNCHANGED machine
    BY DEF anon_seg, shmem_seg, file_seg, Typed
<1>2. Len(args) >= 2 => args # <<>>
    OBVIOUS
<1>3. ASSUME anon_seg(args) PROVE Quiet
    <2>1. CASE Refuse \/ Fault
        BY <1>1, <2>1, RefuseQuiet
    <2>2. CASE \E r \in {CMD_SUCCESS, CMD_ERROR} : Makes(NoCall, r) /\ UNCHANGED <<segs, kernel, cached>>
        BY <1>1, <2>2, MakesQuiet
    <2>3. CASE ~(Len(args) < 2) /\ \E c : Registers(c, args[1])
        BY <1>1, <2>3, RegistersQuiet
    <2> QED
        BY <1>3, <2>1, <2>2, <2>3, Zenon DEF anon_seg
<1>4. ASSUME shmem_seg(args) PROVE Quiet
    <2>1. CASE Refuse
        BY <1>1, <2>1, RefuseQuiet
    <2>2. CASE ~(Len(args) < 2) /\ \E c : Registers(c, args[1])
        BY <1>1, <2>2, RegistersQuiet
    <2> QED
        BY <1>4, <2>1, <2>2, Zenon DEF shmem_seg
<1>5. ASSUME file_seg(args) PROVE Quiet
    <2>1. CASE Refuse
        BY <1>1, <2>1, RefuseQuiet
    <2>2. CASE args # <<>> /\ \E c : Registers(c, args[1])
        BY <1>1, <2>2, RegistersQuiet
    <2> QED
        BY <1>5, <2>1, <2>2, Zenon DEF file_seg
<1> QED
    BY <1>3, <1>4, <1>5

\* The commands about one segment.
LEMMA SegmentQuiet ==
    ASSUME NEW args,
           \/ map_seg(args) \/ show_seg(args) \/ unmap_seg(args) \/ touch_seg(args)
           \/ where_seg(args) \/ mprotect_seg(args) \/ mbind_seg(args)
           \/ \E lock, shm \in BOOLEAN : lock_unlock(lock, shm, args)
    PROVE  Quiet
<1>1. UNCHANGED machine
    BY DEF map_seg, show_seg, unmap_seg, touch_seg, where_seg, mprotect_seg, mbind_seg,
           lock_unlock, Typed
<1> DEFINE Known == \/ Refuse \/ Fault \/ \E c, n : Calls(c, n)
                    \/ \E c : Makes(c, CMD_SUCCESS) /\ UNCHANGED <<segs, kernel, cached>>
<1>2. Known => Quiet
    BY <1>1, RefuseQuiet, CallsQuiet, MakesQuiet
<1>3. map_seg(args) => Known
    BY Zenon DEF map_seg
<1>4. show_seg(args) \/ unmap_seg(args) => Known
    BY Zenon DEF show_seg, unmap_seg
<1>5. touch_seg(args) => Known
    BY Zenon DEF touch_seg
<1>6. where_seg(args) => Known
    BY Zenon DEF where_seg
<1>7. mprotect_seg(args) => Known
    BY Zenon DEF mprotect_seg
<1>8. mbind_seg(args) => Known
    BY Zenon DEF mbind_seg
<1>9. ASSUME NEW lock, NEW shm, lock_unlock(lock, shm, args) PROVE Known
    BY <1>9, Zenon DEF lock_unlock
<1> HIDE DEF Known
<1> QED
    BY <1>2, <1>3, <1>4, <1>5, <1>6, <1>7, <1>8, <1>9

\* remove leaves a part of the names.
LEMMA RemoveQuiet ==
    ASSUME NEW T, NEW args \in Seq(T), remove_seg(args)
    PROVE  Quiet
<1>1. CASE args = <<>>
    BY <1>1, RefuseQuiet DEF remove_seg, Typed
<1>2. CASE args # <<>>
    <2> DEFINE o == Removing(segs, args)[Len(args)]
    <2>1. Removed(segs, args, Len(args), o)
        BY RemovedAll, LenProperties
    <2>2. /\ segs' = o.segs /\ pc' = "done" /\ ret' \in {CMD_SUCCESS, CMD_ERROR}
          /\ UNCHANGED machine /\ UNCHANGED <<kernel, cached>>
        BY <1>2 DEF remove_seg, Typed, Makes
    <2> HIDE DEF o
    <2>3. ASSUME NEW x \in segs, x \in machine.maps PROVE x \in o.segs
        <3>1. ASSUME NEW k \in 1 .. Len(args), Prefix(segs, args, k) PROVE args[k] # x
            <4>1. k \in 1 .. k
                OBVIOUS
            <4> QED
                BY <2>3, <3>1, <4>1 DEF Prefix
        <3> QED
            BY <2>1, <3>1 DEF Removed
    <2> QED
        BY <2>1, <2>2, <2>3 DEF Removed, Quiet, Ends, kernel, cached
<1> QED
    BY <1>1, <1>2

\* kick, snooze, the policy shown and the next line.
LEMMA OthersQuiet ==
    ASSUME \/ \E args : child_kick(args) \/ snooze(args)
           \/ show_task_policy \/ NextLine
    PROVE  Quiet
<1> DEFINE Known == \/ Refuse \/ Fault
                    \/ \E c : Makes(c, CMD_SUCCESS) /\ UNCHANGED <<segs, kernel, cached>>
<1>1. UNCHANGED machine /\ Known => Quiet
    BY RefuseQuiet, MakesQuiet
<1>2. ASSUME NEW args, child_kick(args) PROVE UNCHANGED machine /\ Known
    BY <1>2, Zenon DEF child_kick, Typed
<1>3. ASSUME NEW args, snooze(args) PROVE UNCHANGED machine /\ Known
    BY <1>3, Zenon DEF snooze, Typed
<1>4. ASSUME show_task_policy PROVE UNCHANGED machine /\ Known
    BY <1>4, Zenon DEF show_task_policy, Typed
<1>5. NextLine => Quiet
    BY DEF NextLine, Quiet, Ends, kernel, cached
<1> HIDE DEF Known
<1> QED
    BY <1>1, <1>2, <1>3, <1>4, <1>5

\* A quiet step is proper.
LEMMA QuietProper == Quiet => Proper
BY DEF Quiet, Proper

\* numa and migrate may refresh the cached nodes.
LEMMA RefreshProper ==
    ASSUME numa_info \/ \E args : migrate_process(args)
    PROVE  Proper
<1> DEFINE Fresh == /\ \E c : \E r \in {CMD_SUCCESS, CMD_ERROR} : Makes(c, r)
                    /\ mems_allowed' = get_current_nodemask
                    /\ UNCHANGED <<segs, kernel, cpus_allowed>>
           Known == \/ Refuse \/ Fault \/ Fresh
                    \/ /\ \E c : \E r \in {CMD_SUCCESS, CMD_ERROR} : Makes(c, r)
                       /\ UNCHANGED <<segs, kernel, cached>>
<1>1. UNCHANGED machine
    BY DEF numa_info, migrate_process, Typed
<1>2. Fresh => Proper
    BY <1>1 DEF Makes, Proper, Ends, kernel, get_current_nodemask, refresh_mems_allowed
<1>3. Known => Proper
    BY <1>1, <1>2, RefuseQuiet, MakesQuiet, QuietProper
<1>4. numa_info => Known
    BY Zenon DEF numa_info
<1>5. ASSUME NEW args, migrate_process(args) PROVE Known
    BY <1>5, Zenon DEF migrate_process, Migrates
<1> HIDE DEF Known
<1> QED
    BY <1>3, <1>4, <1>5

\* set_mempolicy() changes nothing or sets a policy the kernel accepts.
LEMMA PolicyProper ==
    ASSUME NEW mode \in 0 .. 4, NEW nodes, NEW r, set_mempolicy(mode, nodes, r)
    PROVE  task' = task \/ Repolicied
BY DEF set_mempolicy, Repolicied

\* mpol: a refusal, a fault or a new policy.
LEMMA MpolProper ==
    ASSUME NEW args \in Seq(UserWord), mpol(args)
    PROVE  Proper
<1>1. UNCHANGED machine /\ args # <<>>
    BY DEF mpol, Typed
<1>2. Head(args) \in UserWord
    BY <1>1
<1>3. get_mbind_policy(Head(args)) \in 0 .. 4
    BY <1>2, PolicyReads
<1>4. ASSUME NEW mode \in 0 .. 4, NEW nodes, SetsPolicy(mode, nodes) PROVE Proper
    <2>1. PICK r \in {CMD_SUCCESS, CMD_ERROR} :
             /\ set_mempolicy(mode, nodes, r)
             /\ Makes([op |-> "mpol", policy |-> mode, nodes |-> nodes], r)
        BY <1>4 DEF SetsPolicy
    <2>2. task' = task \/ Repolicied
        BY <2>1, PolicyProper
    <2>3. Ends /\ segs' = segs /\ UNCHANGED <<affinity, mems_allowed, cpus_allowed>>
        BY <1>4, <2>1 DEF SetsPolicy, Makes, Ends, cached
    <2> QED
        BY <1>1, <2>2, <2>3 DEF Proper
<1>5. Refuse \/ Fault \/ \E nodes : SetsPolicy(get_mbind_policy(Head(args)), nodes)
    BY Zenon DEF mpol
<1> QED
    BY <1>1, <1>3, <1>4, <1>5, RefuseQuiet, QuietProper

\* mems: a refusal, a fault, or the nodes of the policy in force shown.
LEMMA MemsProper ==
    ASSUME NEW args, mems(args)
    PROVE  Proper
<1>1. UNCHANGED machine
    BY DEF mems, Typed
<1>2. ASSUME ShowMems(task'), task' = task \/ Repolicied PROVE Proper
    BY <1>1, <1>2 DEF ShowMems, Makes, Proper, Ends
<1>3. CASE UNCHANGED task /\ ShowMems(task)
    <2>1. ShowMems(task') /\ task' = task
        BY <1>3
    <2> QED
        BY <1>2, <2>1
<1>4. CASE ShowMems(task') /\ \E nodes, r : set_mempolicy(MPOL_BIND, nodes, r)
    BY <1>2, <1>4, PolicyProper DEF MPOL_BIND
<1>5. CASE Refuse \/ Fault
    BY <1>1, <1>5, RefuseQuiet, QuietProper
<1> QED
    BY <1>3, <1>4, <1>5 DEF mems

\* cpus: the kernel keeps the online cpus of the set, if there are any.
LEMMA CpusProper ==
    ASSUME NEW args, cpus(args)
    PROVE  Proper
<1>1. UNCHANGED machine
    BY DEF cpus, Typed
<1> DEFINE Shown == /\ cpus_allowed' = affinity'
                     /\ affinity' \in {affinity} \cup ((SUBSET OnlineCpus) \ {{}})
                     /\ (\E c : Makes(c, CMD_SUCCESS)) /\ UNCHANGED <<segs, task, mems_allowed>>
<1>2. ASSUME Shown PROVE Proper
    BY <1>1, <1>2 DEF Makes, Proper, Ends
<1>3. CASE Refuse
    BY <1>1, <1>3, RefuseQuiet, QuietProper
<1>4. CASE args = <<>>
    BY <1>2, <1>4 DEF cpus, refresh_cpus_allowed, kernel
<1>5. CASE args # <<>> /\ ~Refuse
    <2>1. PICK set : sched_setaffinity(set) /\ refresh_cpus_allowed(affinity')
                     /\ (\E c : Makes(c, CMD_SUCCESS)) /\ UNCHANGED <<segs, task, mems_allowed>>
        BY <1>5, Zenon DEF cpus
    <2>2. affinity' \in {affinity} \cup ((SUBSET OnlineCpus) \ {{}})
        <3>1. affinity' = IF set \cap OnlineCpus = {} THEN affinity ELSE set \cap OnlineCpus
            BY <2>1, Zenon DEF sched_setaffinity
        <3> QED
            BY <3>1
    <2> QED
        BY <1>2, <2>1, <2>2 DEF refresh_cpus_allowed
<1> QED
    BY <1>3, <1>4, <1>5

\* Every step is proper.
LEMMA NextProper == Next => Proper
<1> SUFFICES ASSUME Next PROVE Proper
    OBVIOUS
<1>1. CASE Segment
    <2>1. CASE \E args \in Args(SegNames, SizeArgs(OptionArgs)) : anon_seg(args)
        BY <2>1, NamesTyped, RegisteringQuiet, QuietProper
    <2>2. CASE \E args \in Args(SegNames, SizeArgs({<<>>, <<Key("huge")>>})) : shmem_seg(args)
        BY <2>2, NamesTyped, RegisteringQuiet, QuietProper
    <2>3. CASE \E args \in Args(SegNames, Ranged(ShareArgs)) : file_seg(args)
        BY <2>3, NamesTyped, RegisteringQuiet, QuietProper
    <2>4. CASE \E args \in UNION {[1 .. n -> SegNames] : n \in 0 .. MaxNames} : remove_seg(args)
        <3>1. PICK args \in UNION {[1 .. n -> SegNames] : n \in 0 .. MaxNames} : remove_seg(args)
            BY <2>4
        <3> QED
            BY <3>1, NamesAreSeq, RemoveQuiet, QuietProper
    <2>5. CASE \E args : \/ map_seg(args) \/ show_seg(args) \/ unmap_seg(args) \/ touch_seg(args)
                         \/ where_seg(args) \/ mprotect_seg(args) \/ mbind_seg(args)
                         \/ \E lock, shm \in BOOLEAN : lock_unlock(lock, shm, args)
        BY <2>5, SegmentQuiet, QuietProper
    <2> QED
        BY <1>1, <2>1, <2>2, <2>3, <2>4, <2>5, Zenon DEF Segment
<1>2. CASE Task
    <2>1. \A args \in PolicyArgs : mpol(args) => Proper
        BY LinesTyped, MpolProper
    <2> QED
        BY <1>2, <2>1, RefreshProper, MemsProper, CpusProper, OthersQuiet, QuietProper, Zenon DEF Task
<1>3. CASE NextLine
    BY <1>3, OthersQuiet, QuietProper
<1> QED
    BY <1>1, <1>2, <1>3 DEF Next

(***************************************************************************)
(* The types are inductive with this: the policy the kernel holds under    *)
(* MPOL_BIND has nodes, which the cached nodes are refreshed from.         *)
(***************************************************************************)
Bound == task.mode = MPOL_BIND => task.nodes # {}

\* The nodes allowed are some of the machine's, where NUMA is supported.
LEMMA AllowedSome ==
    ASSUME machine \in Machines, numa_supported, NEW t,
           t \in [mode : MPOL_DEFAULT .. MPOL_NOOP, nodes : SUBSET Nodes],
           t.mode = MPOL_BIND => t.nodes # {}
    PROVE  numa_get_membind(t) \in (SUBSET Nodes) \ {{}} /\ numa_get_membind(t) # NULL
<1>1. max \in Int /\ max > 0 /\ NULL \notin SUBSET Nodes
    BY FrontEndsAssumption DEF max, numa_supported, Nodes
<1>2. 0 \in Nodes
    BY <1>1 DEF Nodes
<1>3. numa_get_membind(t) \in (SUBSET Nodes) \ {{}}
    <2>1. t.nodes \in SUBSET Nodes
        OBVIOUS
    <2> QED
        BY <1>2, <2>1 DEF numa_get_membind
<1> QED
    BY <1>1, <1>3

\* A proper step keeps the types.
LEMMA ProperKeeps == TypeOK /\ Bound /\ Proper => TypeOK' /\ Bound'
<1> SUFFICES ASSUME TypeOK, Bound, Proper PROVE TypeOK' /\ Bound'
    OBVIOUS
<1>1. machine' = machine /\ Nodes' = Nodes /\ (numa_supported' <=> numa_supported) /\ machine \in Machines
    BY DEF Proper, TypeOK, Nodes, max, numa_supported
<1>2. /\ task' \in [mode : MPOL_DEFAULT .. MPOL_NOOP, nodes : SUBSET Nodes]
      /\ task'.mode = MPOL_BIND => task'.nodes # {}
    <2>1. CASE task' = task
        BY <2>1 DEF TypeOK, Bound
    <2>2. CASE Repolicied
        <3>0. PICK mode \in 0 .. 4 :
                 \E nodes : Acceptable(mode, nodes) /\ task' = Policy(mode, NodesOf(nodes))
            BY <2>2 DEF Repolicied
        <3>1. PICK nodes : Acceptable(mode, nodes) /\ task' = Policy(mode, NodesOf(nodes))
            BY <3>0
        <3>2. NodesOf(nodes) \in SUBSET Nodes
            BY DEF NodesOf
        <3>3. mode = MPOL_BIND => NodesOf(nodes) # {}
            BY <3>1 DEF Acceptable, NodesOf, MPOL_BIND
        <3>4. task'.mode = mode /\ task'.nodes = NodesOf(nodes)
            BY <3>1 DEF Policy
        <3>5. mode \in MPOL_DEFAULT .. MPOL_NOOP
            BY DEF MPOL_DEFAULT, MPOL_NOOP
        <3> QED
            BY <3>1, <3>2, <3>3, <3>4, <3>5 DEF Policy
    <2> QED
        BY <2>1, <2>2 DEF Proper
<1>3. /\ mems_allowed' = NULL <=> ~numa_supported
      /\ mems_allowed' # NULL => mems_allowed' \in (SUBSET Nodes) \ {{}}
    <2>1. CASE mems_allowed' = mems_allowed
        BY <2>1 DEF TypeOK
    <2>2. CASE mems_allowed' = refresh_mems_allowed(task')
        <3>1. CASE numa_supported
            <4>1. mems_allowed' = numa_get_membind(task')
                BY <2>2, <3>1 DEF refresh_mems_allowed
            <4>2. numa_get_membind(task') \in (SUBSET Nodes) \ {{}} /\ numa_get_membind(task') # NULL
                BY <1>1, <1>2, <3>1, AllowedSome
            <4> QED
                BY <3>1, <4>1, <4>2
        <3>2. CASE ~numa_supported
            BY <2>2, <3>2 DEF refresh_mems_allowed, TypeOK
        <3> QED
            BY <3>1, <3>2
    <2> QED
        BY <2>1, <2>2 DEF Proper
<1>4. affinity' \in (SUBSET OnlineCpus) \ {{}} /\ cpus_allowed' = affinity'
    BY DEF Proper, TypeOK
<1>5. segs' \subseteq SegNames /\ machine'.maps \subseteq segs'
    BY DEF Proper, TypeOK
<1>6. pc' \in {"prompt", "done", "dead"} /\ ret' \in {CMD_SUCCESS, CMD_ERROR}
    BY DEF Proper, Ends
<1>7. TypeOK'
    BY <1>1, <1>2, <1>3, <1>4, <1>5, <1>6 DEF TypeOK
<1> QED
    BY <1>2, <1>7 DEF Bound

\* The program starts with proper types.
LEMMA TypesInit == Init => TypeOK /\ Bound
<1> SUFFICES ASSUME Init PROVE TypeOK /\ Bound
    OBVIOUS
<1>1. /\ task \in [mode : MPOL_DEFAULT .. MPOL_NOOP, nodes : SUBSET Nodes]
      /\ task.mode # MPOL_BIND
    BY DEF Init, Policy, MPOL_DEFAULT, MPOL_NOOP, MPOL_BIND
<1>2. machine \in Machines
    BY DEF Init
<1>3. numa_supported => numa_get_membind(task) \in (SUBSET Nodes) \ {{}} /\ numa_get_membind(task) # NULL
    BY <1>1, <1>2, AllowedSome
<1>4. mems_allowed = IF numa_supported THEN numa_get_membind(task) ELSE NULL
    BY DEF Init, commands_init
<1>5. /\ mems_allowed = NULL <=> ~numa_supported
      /\ mems_allowed # NULL => mems_allowed \in (SUBSET Nodes) \ {{}}
    BY <1>3, <1>4
<1>6. affinity \in (SUBSET OnlineCpus) \ {{}} /\ cpus_allowed = affinity
    BY FrontEndsAssumption DEF Init
<1>8. segs \subseteq SegNames /\ machine.maps \subseteq segs
    BY <1>2, FrontEndsAssumption DEF Init
<1>7. pc \in {"prompt", "done", "dead"} /\ ret \in {CMD_SUCCESS, CMD_ERROR}
    BY DEF Init
<1> QED
    BY <1>1, <1>2, <1>5, <1>6, <1>7, <1>8 DEF TypeOK, Bound

(***************************************************************************)
(* The state of the front ends keeps its types.  In particular mems_allowed *)
(* points to something exactly when NUMA is supported, and the nodes and   *)
(* cpus allowed are never none, whatever was set in between.               *)
(***************************************************************************)
THEOREM TypeCorrect == Spec => []TypeOK
<1>1. TypeOK /\ Bound /\ [Next]_vars => TypeOK' /\ Bound'
    <2>1. ASSUME TypeOK, Bound, UNCHANGED vars PROVE TypeOK' /\ Bound'
        BY <2>1 DEF vars, TypeOK, Bound, Nodes, max, numa_supported
    <2> QED
        BY <2>1, NextProper, ProperKeeps
<1> QED
    BY <1>1, TypesInit, PTL DEF Spec

-----------------------------------------------------------------------------
(***************************************************************************)
(* The bits of a cpu mask.  A mask of any number of chunks spells a number *)
(* whose bits are those of its chunks, ChunkBits of them each; chunks of 0 *)
(* before the others add none.                                             *)
(***************************************************************************)

\* The equation that defines what chunks spell.
SpelledBy(s, f) ==
    f = [i \in 0 .. Len(s) |-> IF i = 0 THEN 0 ELSE f[i - 1] * Pow2[ChunkBits] + s[i]]

\* What chunks spell is computed one chunk at a time.
LEMMA SpelledSteps ==
    ASSUME NEW s \in Seq(Nat)
    PROVE  /\ Spelled(s)[0] = 0
           /\ \A i \in 1 .. Len(s) :
                 Spelled(s)[i] = Spelled(s)[i - 1] * Pow2[ChunkBits] + s[i]
<1> DEFINE P == Pow2[ChunkBits]
           L == Len(s)
           step == [p \in Nat \X Nat |-> p[2] * P + (IF p[1] \in 1 .. L THEN s[p[1]] ELSE 0)]
<1>1. P \in Nat /\ L \in Nat
    <2>1. ChunkBits \in Nat
        BY ArgumentsAssumption
    <2>2. P \in Nat
        BY <2>1, Pow2Next
    <2> HIDE DEF P
    <2> QED
        BY <2>2
<1>2. ASSUME NEW i \in Nat, NEW v \in Nat
      PROVE  step[<<i, v>>] = v * P + (IF i \in 1 .. L THEN s[i] ELSE 0)
    <2> HIDE DEF P, L
    <2> QED
        OBVIOUS
<1>3. step \in [Nat \X Nat -> Nat]
    <2>1. ASSUME NEW i \in Nat PROVE (IF i \in 1 .. L THEN s[i] ELSE 0) \in Nat
        OBVIOUS
    <2> DEFINE D(i) == IF i \in 1 .. L THEN s[i] ELSE 0
    <2>2. step = [p \in Nat \X Nat |-> p[2] * P + D(p[1])]
        OBVIOUS
    <2> HIDE DEF P, D, step
    <2>3. ASSUME NEW p \in Nat \X Nat PROVE p[2] * P + D(p[1]) \in Nat
        <3>1. p[1] \in Nat /\ p[2] \in Nat
            OBVIOUS
        <3>2. D(p[1]) \in Nat
            BY <2>1, <3>1 DEF D
        <3>3. \A a \in Nat, b \in Nat, d \in Nat : a * b + d \in Nat
            OBVIOUS
        <3> QED
            BY <1>1, <3>1, <3>2, <3>3
    <2> QED
        BY <2>2, <2>3
<1>4. PICK g : LoopTo(Nat, 0, step, L, g)
    <2> HIDE DEF step, L
    <2>1. 0 \in Nat
        OBVIOUS
    <2> QED
        BY <1>1, <1>3, <2>1, LoopExists
<1> HIDE DEF step
<1>5. g \in [0 .. L -> Nat] /\ g[0] = 0 /\ \A i \in 1 .. L : g[i] = step[<<i, g[i - 1]>>]
    BY <1>4 DEF LoopTo
<1>6. ASSUME NEW i \in 1 .. L PROVE g[i] = g[i - 1] * P + s[i]
    <2> HIDE DEF P, L
    <2>1. i \in Nat /\ i - 1 \in 0 .. L
        BY <1>1
    <2>2. g[i - 1] \in Nat
        BY <1>5, <2>1
    <2>3. g[i] = step[<<i, g[i - 1]>>]
        BY <1>5
    <2> QED
        BY <1>2, <2>1, <2>2, <2>3
<1>7. g = [i \in 0 .. L |-> IF i = 0 THEN 0 ELSE g[i - 1] * P + s[i]]
    <2> HIDE DEF P, L
    <2>1. ASSUME NEW i \in 0 .. L PROVE g[i] = IF i = 0 THEN 0 ELSE g[i - 1] * P + s[i]
        <3>1. i = 0 \/ i \in 1 .. L
            BY <1>1
        <3> QED
            BY <1>5, <1>6, <3>1
    <2>2. g = [i \in 0 .. L |-> g[i]]
        BY <1>5
    <2> QED
        BY <2>1, <2>2
<1>8. SpelledBy(s, g)
    BY <1>7 DEF SpelledBy
<1> DEFINE n == Spelled(s)
<1>9. n = CHOOSE f : SpelledBy(s, f)
    BY DEF Spelled, SpelledBy
<1>10. SpelledBy(s, n)
    BY <1>8, <1>9
<1> HIDE DEF n
<1>11. n = [i \in 0 .. L |-> IF i = 0 THEN 0 ELSE n[i - 1] * P + s[i]]
    BY <1>10 DEF SpelledBy
<1>12. n[0] = 0
    BY <1>1, <1>11
<1>13. ASSUME NEW i \in 1 .. L PROVE n[i] = n[i - 1] * P + s[i]
    <2>1. i \in 0 .. L /\ i # 0
        BY <1>1
    <2> HIDE DEF P, L
    <2> QED
        BY <1>11, <2>1
<1> QED
    BY <1>12, <1>13 DEF n

\* The chunk a cpu is in, and its bit there.
LEMMA ChunkOf ==
    ASSUME NEW d \in Nat
    PROVE  /\ d \div ChunkBits \in Nat /\ d % ChunkBits \in 0 .. ChunkBits - 1
           /\ d = ChunkBits * (d \div ChunkBits) + (d % ChunkBits)
<1>1. ChunkBits \in Nat \ {0}
    BY ArgumentsAssumption
<1> QED
    BY <1>1, DivMod

\* The bits of what the first i chunks spell.
LEMMA SpelledBits ==
    ASSUME NEW s \in Seq(Nat), \A i \in 1 .. Len(s) : s[i] < Pow2[ChunkBits],
           NEW i \in 0 .. Len(s), NEW c \in Nat
    PROVE  /\ Spelled(s)[i] \in Nat
           /\ Bit(Spelled(s)[i], c) <=>
                 c \div ChunkBits < i /\ Bit(s[i - c \div ChunkBits], c % ChunkBits)
<1> DEFINE n == Spelled(s)
           Right(j, d) == Bit(n[j], d) <=>
                             d \div ChunkBits < j /\ Bit(s[j - d \div ChunkBits], d % ChunkBits)
           odd == {j \in Nat : j =< Len(s) /\ ~(n[j] \in Nat /\ \A d \in Nat : Right(j, d))}
<1> SUFFICES ASSUME odd # {} PROVE FALSE
    OBVIOUS
<1>1. n[0] = 0 /\ \A j \in 1 .. Len(s) : n[j] = n[j - 1] * Pow2[ChunkBits] + s[j]
    BY SpelledSteps
<1>2. ChunkBits \in Nat \ {0} /\ Pow2[ChunkBits] \in Nat \ {0} /\ Len(s) \in Nat
    <2>1. ChunkBits \in Nat \ {0}
        BY ArgumentsAssumption
    <2>2. Pow2[ChunkBits] \in Nat \ {0}
        BY <2>1, Pow2Next
    <2>3. Len(s) \in Nat
        OBVIOUS
    <2> QED
        BY <2>1, <2>2, <2>3
<1> HIDE DEF n
<1>3. PICK j \in odd : \A e \in odd : j =< e
    <2>1. odd \subseteq Nat
        OBVIOUS
    <2> HIDE DEF odd
    <2> QED
        BY <2>1, LeastNumber
<1>4. j \in Nat /\ j =< Len(s) /\ ~(n[j] \in Nat /\ \A d \in Nat : Right(j, d))
    BY <1>3
<1>5. ASSUME NEW d \in Nat
      PROVE  d \div ChunkBits \in Nat /\ d % ChunkBits \in 0 .. ChunkBits - 1
             /\ d = ChunkBits * (d \div ChunkBits) + (d % ChunkBits)
    BY ChunkOf
<1>6. j # 0
    <2> SUFFICES ASSUME j = 0 PROVE FALSE
        OBVIOUS
    <2>1. ASSUME NEW d \in Nat PROVE Right(0, d)
        <3>1. ~Bit(n[0], d)
            BY <1>1, NoBits
        <3>2. ~(d \div ChunkBits < 0)
            BY <1>5
        <3> QED
            BY <3>1, <3>2
    <2> HIDE DEF Right
    <2> QED
        BY <1>1, <1>4, <2>1
<1> DEFINE m == j - 1
<1>7. m \in Nat /\ m < j /\ m =< Len(s) /\ j \in 1 .. Len(s)
    BY <1>2, <1>4, <1>6
<1>8. n[m] \in Nat /\ \A d \in Nat : Right(m, d)
    <2>1. m \notin odd
        <3> HIDE DEF odd, m
        <3> QED
            BY <1>3, <1>4, <1>7
    <2> HIDE DEF Right
    <2> QED
        BY <1>7, <2>1
<1>9. s[j] \in Nat /\ s[j] < Pow2[ChunkBits] /\ n[j] = n[m] * Pow2[ChunkBits] + s[j]
    BY <1>1, <1>7
<1>10. n[j] \in Nat
    <2>1. \A a \in Nat, b \in Nat, d \in Nat : a * b + d \in Nat
        OBVIOUS
    <2>2. n[m] \in Nat /\ Pow2[ChunkBits] \in Nat
        BY <1>2, <1>8
    <2> DEFINE a == n[m]
               b == Pow2[ChunkBits]
    <2> HIDE DEF m, a, b
    <2>3. a * b + s[j] \in Nat
        BY <1>9, <2>1, <2>2 DEF a, b
    <2> QED
        BY <1>9, <2>3 DEF a, b
<1>11. ASSUME NEW d \in Nat PROVE Right(j, d)
    <2>1. CASE d < ChunkBits
        <3>1. Bit(n[j], d) <=> Bit(s[j], d)
            <4> HIDE DEF m
            <4>1. n[m] \in Nat /\ ChunkBits \in Nat
                BY <1>2, <1>8
            <4> HIDE DEF Right, odd
            <4>2. Bit(n[m] * Pow2[ChunkBits] + s[j], d) <=> Bit(s[j], d)
                BY <1>9, <2>1, <4>1, JoinBits
            <4> QED
                BY <1>9, <4>2
        <3>2. d \div ChunkBits = 0 /\ d % ChunkBits = d
            <4>1. d = 0 * ChunkBits + d
                BY <1>2
            <4> QED
                BY <1>2, <2>1, <4>1, DivIs
        <3>3. 0 < j /\ j - 0 = j
            BY <1>4, <1>6
        <3> QED
            BY <3>1, <3>2, <3>3
    <2>2. CASE ~(d < ChunkBits)
        <3> DEFINE e == d - ChunkBits
        <3>1. e \in Nat /\ d = e + ChunkBits /\ ChunkBits =< d
            BY <1>2, <2>2
        <3>2. Bit(n[j], d) <=> Bit(n[m], e)
            <4> HIDE DEF m
            <4>1. Bit(n[m] * Pow2[ChunkBits] + s[j], d) <=> Bit(n[m], d - ChunkBits)
                BY <1>2, <1>8, <1>9, <3>1, JoinBits
            <4> QED
                BY <1>9, <4>1
        <3> HIDE DEF e
        <3> DEFINE q == e \div ChunkBits
                   r == e % ChunkBits
        <3>3. q \in Nat /\ r \in 0 .. ChunkBits - 1 /\ e = ChunkBits * q + r
            BY <3>1, ChunkOf
        <3> HIDE DEF q, r
        <3>4. d \div ChunkBits = q + 1 /\ d % ChunkBits = r
            <4>1. ChunkBits * q + ChunkBits = (q + 1) * ChunkBits
                BY <1>2, <3>3
            <4>2. d = (q + 1) * ChunkBits + r
                BY <1>2, <3>1, <3>3, <4>1
            <4> DEFINE t == q + 1
            <4>3. t \in Nat /\ d = t * ChunkBits + r /\ r \in Nat /\ r < ChunkBits
                BY <1>2, <3>3, <4>2
            <4> HIDE DEF t
            <4>4. d \div ChunkBits = t /\ d % ChunkBits = r
                BY <1>2, <4>3, DivIs
            <4> QED
                BY <4>4 DEF t
        <3>5. Bit(n[m], e) <=> q < m /\ Bit(s[m - q], r)
            BY <1>8, <3>1 DEF q, r
        <3>6. j - (q + 1) = m - q /\ (q + 1 < j <=> q < m)
            BY <1>4, <3>3
        <3> QED
            BY <3>2, <3>4, <3>5, <3>6
    <2> QED
        BY <2>1, <2>2
<1> HIDE DEF Right
<1> QED
    BY <1>4, <1>10, <1>11

\* The cpus below a number of chunks.
LEMMA ChunksBelow ==
    ASSUME NEW c \in Nat, NEW m \in Nat
    PROVE  ChunkBits * m \in Nat /\ (c < ChunkBits * m <=> c \div ChunkBits < m)
<1> DEFINE q == c \div ChunkBits
           r == c % ChunkBits
<1>1. q \in Nat /\ r \in 0 .. ChunkBits - 1 /\ c = ChunkBits * q + r
    BY ChunkOf
<1>2. ChunkBits \in Nat \ {0}
    BY ArgumentsAssumption
<1> HIDE DEF q, r
<1>3. CASE q < m
    <2>1. PICK e \in Nat : m = q + 1 + e
        BY <1>1, <1>3
    <2>2. ChunkBits * m = ChunkBits * q + ChunkBits + ChunkBits * e /\ ChunkBits * e \in Nat
        BY <1>1, <1>2, <2>1
    <2>3. ChunkBits * q \in Nat
        BY <1>1, <1>2
    <2> QED
        BY <1>1, <1>2, <1>3, <2>2, <2>3 DEF q
<1>4. CASE ~(q < m)
    <2>1. PICK e \in Nat : q = m + e
        BY <1>1, <1>4
    <2>2. ChunkBits * q = ChunkBits * m + ChunkBits * e /\ ChunkBits * e \in Nat
          /\ ChunkBits * m \in Nat
        BY <1>2, <2>1
    <2> QED
        BY <1>1, <1>2, <1>4, <2>2 DEF q
<1> QED
    BY <1>3, <1>4

\* Chunks that fit in a word are read as they are.
LEMMA ChunksRead ==
    ASSUME NEW s \in Seq(Nat), \A i \in 1 .. Len(s) : s[i] < Pow2[ChunkBits]
    PROVE  [i \in DOMAIN s |-> strtoul(Num(s[i], "")) % Pow2[ChunkBits]] = s
<1> DEFINE P == Pow2[ChunkBits]
<1>1. P \in Nat \ {0} /\ P =< Word /\ Word \in Nat
    <2>1. ChunkBits \in Nat /\ P =< Word /\ Word \in Nat
        BY ArgumentsAssumption, WordAssumption
    <2>2. P \in Nat \ {0}
        BY <2>1, Pow2Next
    <2> HIDE DEF P
    <2> QED
        BY <2>1, <2>2
<1>2. \A i \in 1 .. Len(s) : s[i] < P /\ s[i] \in Nat
    OBVIOUS
<1> HIDE DEF P
<1>3. ASSUME NEW i \in DOMAIN s PROVE strtoul(Num(s[i], "")) % P = s[i]
    <2>1. s[i] \in Nat /\ s[i] < P
        BY <1>2
    <2>2. strtoul(Num(s[i], "")) = s[i]
        BY <1>1, <2>1 DEF strtoul, Num
    <2>3. s[i] = 0 * P + s[i]
        BY <1>1, <2>1
    <2>4. s[i] % P = s[i]
        BY <1>1, <2>1, <2>3, DivIs
    <2> QED
        BY <2>2, <2>4
<1>4. [i \in DOMAIN s |-> strtoul(Num(s[i], "")) % P] = [i \in DOMAIN s |-> s[i]]
    BY <1>3
<1>5. s = [i \in DOMAIN s |-> s[i]]
    OBVIOUS
<1>6. [i \in DOMAIN s |-> strtoul(Num(s[i], "")) % P] = s
    BY <1>4, <1>5
<1> QED
    BY <1>6 DEF P

\* The cpus of the chunks that count.
CpusOf(chunk) ==
    {c \in 0 .. ChunkBits * Len(chunk) - 1 :
        Bit(WordOf(chunk, c \div ChunkBits), c % ChunkBits)}

\* The chunks that count: those from the first that is not 0.
Counted(s) ==
    LET nonzero == {i \in DOMAIN s : s[i] # 0}
    IN  IF nonzero = {} THEN <<>> ELSE SubSeq(s, First(nonzero), Len(s))

\* A cpu is asked for when its bit of the chunk it is in is set: a chunk
\* that does not count has no bits.
LEMMA CountedBits ==
    ASSUME NEW s \in Seq(Nat), NEW c \in Nat
    PROVE  c \in CpusOf(Counted(s)) <=>
              c \div ChunkBits < Len(s) /\ Bit(s[Len(s) - c \div ChunkBits], c % ChunkBits)
<1> DEFINE L == Len(s)
           q == c \div ChunkBits
           r == c % ChunkBits
           nonzero == {i \in DOMAIN s : s[i] # 0}
           chunk == Counted(s)
<1>1. q \in Nat /\ r \in Nat /\ L \in Nat /\ DOMAIN s = 1 .. L
    <2>1. q \in Nat /\ r \in 0 .. ChunkBits - 1
        BY ChunkOf
    <2>2. ChunkBits \in Nat
        BY ArgumentsAssumption
    <2> HIDE DEF q, r
    <2> QED
        BY <2>1, <2>2
<1>2. ASSUME NEW x \in Seq(Nat)
      PROVE  c \in CpusOf(x) <=> q < Len(x) /\ Bit(x[Len(x) - q], r)
    <2> DEFINE m == Len(x)
               N == ChunkBits * m
    <2>1. m \in Nat
        OBVIOUS
    <2>2. N \in Nat /\ (c < N <=> q < m)
        BY <2>1, ChunksBelow
    <2>3. CpusOf(x) = {d \in 0 .. N - 1 : Bit(WordOf(x, d \div ChunkBits), d % ChunkBits)}
        BY DEF CpusOf
    <2> HIDE DEF N
    <2>4. c \in 0 .. N - 1 <=> c < N
        BY <2>2
    <2>5. c \in CpusOf(x) <=> c \in 0 .. N - 1 /\ Bit(WordOf(x, q), r)
        BY <2>3
    <2> QED
        BY <2>2, <2>4, <2>5 DEF WordOf
<1> HIDE DEF q, r
<1>3. ASSUME NEW i \in 1 .. L, i \notin nonzero PROVE ~Bit(s[i], r)
    <2>1. s[i] = 0
        BY <1>1, <1>3
    <2> QED
        BY <1>1, <2>1, NoBits
<1>4. CASE nonzero = {}
    <2>1. chunk = <<>> /\ chunk \in Seq(Nat) /\ Len(chunk) = 0
        BY <1>4 DEF Counted
    <2>2. c \notin CpusOf(chunk)
        <3> HIDE DEF chunk
        <3>1. c \in CpusOf(chunk) => q < Len(chunk)
            BY <1>2, <2>1
        <3> QED
            BY <1>1, <2>1, <3>1
    <2>3. ASSUME q < L PROVE ~Bit(s[L - q], r)
        <3>1. L - q \in 1 .. L
            BY <1>1, <2>3
        <3> QED
            BY <1>3, <1>4, <3>1
    <2> QED
        BY <2>2, <2>3 DEF q, r
<1>5. CASE nonzero # {}
    <2> DEFINE f == First(nonzero)
    <2>1. f \in nonzero /\ \A j \in nonzero : f =< j
        <3>1. nonzero \subseteq Nat
            BY <1>1
        <3> HIDE DEF nonzero
        <3>2. \E i \in nonzero : \A j \in nonzero : i =< j
            BY <1>5, <3>1, LeastNumber
        <3> QED
            BY <3>2 DEF First
    <2>2. chunk = SubSeq(s, f, L)
        BY <1>5 DEF Counted
    <2>3. f \in 1 .. L
        BY <1>1, <2>1
    <2> HIDE DEF f, nonzero
    <2>4. /\ chunk \in Seq(Nat) /\ Len(chunk) = L - f + 1
          /\ \A i \in 1 .. L - f + 1 : chunk[i] = s[f + i - 1]
        <3> HIDE DEF chunk
        <3> QED
            BY <2>2, <2>3
    <2> HIDE DEF chunk
    <2>5. c \in CpusOf(chunk) <=> q < L - f + 1 /\ Bit(chunk[(L - f + 1) - q], r)
        BY <1>2, <2>4
    <2>6. CASE q < L - f + 1
        <3>1. (L - f + 1) - q \in 1 .. L - f + 1 /\ f + ((L - f + 1) - q) - 1 = L - q /\ q < L
            BY <1>1, <2>3, <2>6
        <3>2. chunk[(L - f + 1) - q] = s[L - q]
            BY <2>4, <3>1
        <3> QED
            BY <2>5, <2>6, <3>1, <3>2 DEF chunk, q, r
    <2>7. CASE ~(q < L - f + 1)
        <3>1. ASSUME q < L PROVE ~Bit(s[L - q], r)
            <4>1. L - q \in 1 .. L /\ ~(f =< L - q)
                BY <1>1, <2>3, <2>7, <3>1
            <4> QED
                BY <1>3, <2>1, <4>1
        <3> QED
            BY <2>5, <2>7, <3>1 DEF chunk, q, r
    <2> QED
        BY <2>6, <2>7
<1> QED
    BY <1>4, <1>5

\* get_cpuset_from_mask() returns the bits of the number its chunks spell.
LEMMA MaskSet ==
    ASSUME NEW args, args[1].chunks \in Seq(Nat),
           \A i \in DOMAIN args[1].chunks : args[1].chunks[i] < Pow2[ChunkBits]
    PROVE  get_cpuset_from_mask(args).set =
              {c \in 0 .. ChunkBits * Len(args[1].chunks) : Bit(Spells(args[1].chunks), c)}
<1> DEFINE s == args[1].chunks
           L == Len(s)
           N == ChunkBits * L
           bits == [i \in DOMAIN s |-> strtoul(Num(s[i], "")) % Pow2[ChunkBits]]
<1>1. s \in Seq(Nat) /\ \A i \in 1 .. Len(s) : s[i] < Pow2[ChunkBits]
    OBVIOUS
<1>2. bits = s
    <2> HIDE DEF s
    <2> QED
        BY <1>1, ChunksRead
<1>3. get_cpuset_from_mask(args).set = CpusOf(Counted(bits))
    BY DEF get_cpuset_from_mask, CpusOf, Counted
<1> HIDE DEF bits
<1>4. get_cpuset_from_mask(args).set = CpusOf(Counted(s))
    BY <1>2, <1>3
<1> HIDE DEF s
<1>5. L \in Nat /\ L \in 0 .. L
    BY <1>1
<1>6. N \in Nat /\ \A c \in Nat : c < N <=> c \div ChunkBits < L
    <2>1. N \in Nat
        BY <1>5, ChunksBelow
    <2>2. ASSUME NEW c \in Nat PROVE c < N <=> c \div ChunkBits < L
        BY <1>5, ChunksBelow
    <2> QED
        BY <2>1, <2>2
<1>7. ASSUME NEW c \in Nat
      PROVE  c \in CpusOf(Counted(s)) <=> Bit(Spells(s), c)
    <2>1. Bit(Spells(s), c) <=> c \div ChunkBits < L /\ Bit(s[L - c \div ChunkBits], c % ChunkBits)
        BY <1>1, <1>5, SpelledBits DEF Spells
    <2> QED
        BY <1>1, <2>1, CountedBits
<1>8. ASSUME NEW c, c \in CpusOf(Counted(s)) PROVE c \in Nat /\ c \in 0 .. N
    <2>1. c \in Nat
        <3> DEFINE M == ChunkBits * Len(Counted(s)) - 1
        <3>1. c \in 0 .. M
            BY <1>8 DEF CpusOf
        <3> HIDE DEF M
        <3> QED
            BY <3>1
    <2>2. c \div ChunkBits < L
        BY <1>1, <1>8, <2>1, CountedBits
    <2> HIDE DEF N
    <2> QED
        BY <1>6, <2>1, <2>2
<1> HIDE DEF N
<1> DEFINE T == {c \in 0 .. N : Bit(Spells(s), c)}
<1>9. ASSUME NEW c \in T PROVE c \in Nat /\ Bit(Spells(s), c)
    BY <1>6
<1>10. CpusOf(Counted(s)) = T
    <2>1. ASSUME NEW c \in CpusOf(Counted(s)) PROVE c \in T
        BY <1>7, <1>8
    <2> HIDE DEF T
    <2>2. ASSUME NEW c \in T PROVE c \in CpusOf(Counted(s))
        BY <1>7, <1>9
    <2> QED
        BY <2>1, <2>2
<1> QED
    BY <1>4, <1>10 DEF T, N, s

\* No command but cpus makes the call that sets or shows the cpus.
LEMMA OnlyCpus ==
    ASSUME Next, call'.op = "cpus"
    PROVE  \E args \in CpuArgs : cpus(args)
<1> DEFINE Other == call'.op # "cpus"
<1>1. Refuse \/ Fault => Other
    BY DEF Refuse, Fault, NoCall
<1>2. ASSUME NEW c, NEW r, c.op # "cpus", Makes(c, r) PROVE Other
    BY <1>2 DEF Makes
<1>3. ASSUME NEW c, NEW n, c.op # "cpus", Calls(c, n) \/ Registers(c, n) PROVE Other
    BY <1>2, <1>3 DEF Calls, Registers
<1>4. NoCall.op # "cpus"
    BY DEF NoCall
<1> HIDE DEF Other
<1>5. ASSUME NEW args, anon_seg(args) PROVE Other
    BY <1>1, <1>2, <1>3, <1>4, <1>5 DEF anon_seg
<1>6. ASSUME NEW args, shmem_seg(args) PROVE Other
    BY <1>1, <1>3, <1>6 DEF shmem_seg
<1>7. ASSUME NEW args, file_seg(args) \/ map_seg(args) PROVE Other
    BY <1>1, <1>3, <1>7 DEF file_seg, map_seg
<1>8. ASSUME NEW args, remove_seg(args) PROVE Other
    BY <1>1, <1>2, <1>8 DEF remove_seg
<1>9. ASSUME NEW args, show_seg(args) \/ unmap_seg(args) PROVE Other
    BY <1>1, <1>2, <1>3, <1>9 DEF show_seg, unmap_seg
<1>10. ASSUME NEW args, touch_seg(args) \/ where_seg(args) PROVE Other
    BY <1>1, <1>3, <1>10 DEF touch_seg, where_seg
<1>11. ASSUME NEW args, NEW lock, NEW shm, lock_unlock(lock, shm, args) PROVE Other
    BY <1>1, <1>3, <1>11 DEF lock_unlock
<1>12. ASSUME NEW args, mprotect_seg(args) PROVE Other
    BY <1>1, <1>2, <1>12 DEF mprotect_seg
<1>13. ASSUME NEW args, mbind_seg(args) PROVE Other
    BY <1>1, <1>3, <1>13 DEF mbind_seg
<1>14. ASSUME NEW mode, NEW nodes, SetsPolicy(mode, nodes) PROVE Other
    BY <1>2, <1>14 DEF SetsPolicy
<1>15. ASSUME NEW args, mpol(args) PROVE Other
    BY <1>1, <1>14, <1>15 DEF mpol
<1>16. show_task_policy \/ numa_info => Other
    BY <1>1, <1>2 DEF show_task_policy, numa_info
<1>17. ASSUME NEW args, migrate_process(args) PROVE Other
    BY <1>1, <1>2, <1>17 DEF migrate_process, Migrates
<1>18. ASSUME NEW args, mems(args) PROVE Other
    BY <1>1, <1>2, <1>18 DEF mems, ShowMems, NoCall, Other
<1>19. ASSUME NEW args, child_kick(args) \/ snooze(args) PROVE Other
    BY <1>1, <1>2, <1>19 DEF child_kick, snooze
<1>20. NextLine => Other
    BY DEF NextLine, NoCall, Other
<1>21. ~Other
    BY DEF Other
<1>22. ~Segment
    BY <1>5, <1>6, <1>7, <1>8, <1>9, <1>10, <1>11, <1>12, <1>13, <1>21, Zenon DEF Segment
<1>23. Task
    BY <1>20, <1>21, <1>22 DEF Next
<1> QED
    BY <1>15, <1>16, <1>17, <1>18, <1>19, <1>21, <1>23, Zenon DEF Task

\* A mask that is typed is a word with chunks.
LEMMA MaskWord ==
    ASSUME NEW w \in UserWord, w.k = "mask"
    PROVE  w.chunks \in Seq(Nat)
BY DEF UserWord, Star

(***************************************************************************)
(* The cpus a mask asks for are the bits of the number that its chunks     *)
(* spell, for any number of chunks of any width, with leading chunks of 0  *)
(* or without.                                                             *)
(***************************************************************************)
THEOREM CpusAreBits == Spec => []CpuMaskIsNumber
<1>1. Init => CpuMaskIsNumber
    BY DEF Init, NoCall, CpuMaskIsNumber
<1>2. ASSUME CpuMaskIsNumber, [Next]_vars PROVE CpuMaskIsNumber'
    <2>1. CASE UNCHANGED vars
        BY <1>2, <2>1 DEF vars, CpuMaskIsNumber
    <2>2. CASE Next
        <3> SUFFICES ASSUME call'.op = "cpus", typed'.args # <<>>, typed'.args[1].k = "mask",
                            \A i \in DOMAIN typed'.args[1].chunks :
                               typed'.args[1].chunks[i] < Pow2[ChunkBits]
                     PROVE  call'.set = {c \in 0 .. ChunkBits * Len(typed'.args[1].chunks) :
                                            Bit(Spells(typed'.args[1].chunks), c)}
            BY DEF CpuMaskIsNumber
        <3>1. PICK args \in CpuArgs : cpus(args)
            BY <2>2, OnlyCpus
        <3>2. typed'.args = args
            BY <3>1 DEF cpus, Typed
        <3>3. args[1] \in UserWord
            <4>1. args \in Seq(UserWord)
                BY FrontEndsAssumption
            <4> QED
                BY <3>2, <4>1
        <3>4. args[1].chunks \in Seq(Nat)
            BY <3>2, <3>3, MaskWord
        <3>5. call'.set = get_cpuset_from_mask(args).set
            BY <3>1, <3>2 DEF cpus, Refuse, NoCall, Makes
        <3> QED
            BY <3>2, <3>4, <3>5, MaskSet
    <2> QED
        BY <1>2, <2>1, <2>2
<1> QED
    BY <1>1, <1>2, PTL DEF Spec

=============================================================================
