------------------------- MODULE SharedMemoryProofs -------------------------
(***************************************************************************)
(* Proofs about SharedMemory, for any number of processes and ids.         *)
(***************************************************************************)
EXTENDS SharedMemory, TLAPS

(***************************************************************************)
(* The inductive invariant.  LostToKin is not inductive: it needs to know  *)
(* that a record is held only by the creator and by heirs (Holders), and   *)
(* that the process whose IPC_RMID took effect was one of them, dropped    *)
(* its record then and never gets it back (Removed), because only a        *)
(* process that is not born yet receives records it did not create.        *)
(***************************************************************************)
Holders ==
    \A p \in Proc : \A i \in table[p] :
        shm[i] # "none" /\ (p = creator[i] \/ p \in heirs[i])

Removed ==
    \A i \in Id : shm[i] \in {"marked", "gone"} =>
        /\ remover[i] \in Proc /\ run[remover[i]] # "unborn"
        /\ i \notin table[remover[i]]
        /\ remover[i] = creator[i] \/ remover[i] \in heirs[i]

Inv == TypeOK /\ LiveIsRecorded /\ Holders /\ Removed

Ids == {"none", "live", "marked", "gone"}

\* The end of an attachment only turns marked ids into ids that are gone.
LEMMA SettledKeeps ==
    ASSUME NEW s \in [Id -> Ids], NEW at
    PROVE  /\ Settled(s, at) \in [Id -> Ids]
           /\ \A i \in Id : /\ Settled(s, at)[i] = "none" <=> s[i] = "none"
                            /\ Settled(s, at)[i] = "live" <=> s[i] = "live"
BY DEF Settled, Ids

\* A new program has no shared memory.
LEMMA InvInit == Init => Inv
BY ProcAssumption DEF Init, Inv, TypeOK, RunStates, LiveIsRecorded, Alive, Holders, Removed

(***************************************************************************)
(* The removal of a record together with its id, by remove and at exit:    *)
(* what the two have in common.                                            *)
(***************************************************************************)
LEMMA RemovalKeeps ==
    ASSUME Inv, NEW p \in Proc, run[p] # "unborn", NEW i \in table[p],
           NEW at \in [Proc -> SUBSET Id],
           shmctl(p, i, at), table' = [table EXCEPT ![p] = @ \ {i}],
           UNCHANGED <<run, hold>>,
           \A q \in Proc : run[q] \in {"up", "stuck"} => at[q] \subseteq table'[q]
    PROVE  Inv'
<1> DEFINE s == [shm EXCEPT ![i] = IF @ = "live" THEN "marked" ELSE @]
<1>0. i \in Id /\ shm \in [Id -> Ids] /\ s \in [Id -> Ids]
  BY DEF Inv, TypeOK, Ids
<1>1. /\ shm' \in [Id -> Ids]
      /\ \A j \in Id : (shm'[j] = "none" <=> s[j] = "none") /\ (shm'[j] = "live" <=> s[j] = "live")
  <2>1. shm' = Settled(s, at)
    BY DEF shmctl
  <2> HIDE DEF s
  <2> QED
    BY <2>1, <1>0, SettledKeeps
<1>2. \A j \in Id : /\ shm'[j] = "none" <=> shm[j] = "none"
                    /\ shm'[j] = "live" <=> shm[j] = "live" /\ j # i
  BY <1>0, <1>1
<1>3. /\ table' \in [Proc -> SUBSET Id]
      /\ \A q \in Proc : \A j \in Id : j \in table'[q] <=> j \in table[q] /\ ~(q = p /\ j = i)
  BY DEF Inv, TypeOK
<1>4. remover' \in [Id -> Proc \cup {NoProc}]
  BY <1>0 DEF Inv, TypeOK, shmctl
<1>5. TypeOK'
  BY <1>1, <1>3, <1>4 DEF Inv, TypeOK, shmctl, Ids
<1>6. LiveIsRecorded'
  <2> SUFFICES ASSUME NEW j \in Id, shm'[j] = "live"
               PROVE  \E q \in Proc : j \in table'[q] /\ run'[q] \in {"up", "stuck", "exiting", "killed"}
    BY DEF LiveIsRecorded, Alive
  <2>1. shm[j] = "live" /\ j # i
    BY <1>2
  <2>2. PICK q \in Proc : j \in table[q] /\ run[q] \in {"up", "stuck", "exiting", "killed"}
    BY <2>1 DEF Inv, LiveIsRecorded, Alive
  <2> QED
    BY <2>1, <2>2, <1>3
<1>7. Holders'
  BY <1>2, <1>3 DEF Inv, TypeOK, Holders, shmctl
<1>8. Removed'
  <2> SUFFICES ASSUME NEW j \in Id, shm'[j] \in {"marked", "gone"}
               PROVE  /\ remover'[j] \in Proc /\ run'[remover'[j]] # "unborn"
                      /\ j \notin table'[remover'[j]]
                      /\ remover'[j] = creator'[j] \/ remover'[j] \in heirs'[j]
    BY DEF Removed
  <2>1. CASE j = i /\ shm[i] = "live"
    <3>1. remover'[j] = p
      BY <2>1, <1>0 DEF Inv, TypeOK, shmctl
    <3>2. p = creator[i] \/ p \in heirs[i]
      BY DEF Inv, Holders
    <3> QED
      BY <2>1, <3>1, <3>2, <1>3, <1>0 DEF shmctl
  <2>2. CASE ~(j = i /\ shm[i] = "live")
    <3>1. remover'[j] = remover[j]
      BY <2>2, <1>0 DEF Inv, TypeOK, shmctl
    <3>2. shm[j] \in {"marked", "gone"}
      BY <2>2, <1>0, <1>2 DEF Ids
    <3> QED
      BY <3>1, <3>2, <1>3 DEF Inv, Removed, shmctl
  <2> QED
    BY <2>1, <2>2
<1> QED
  BY <1>5, <1>6, <1>7, <1>8 DEF Inv

(***************************************************************************)
(* A process gives up attachments, and may end, with its records as they   *)
(* are.                                                                    *)
(***************************************************************************)
LEMMA DetachKeeps ==
    ASSUME Inv, NEW p \in Proc, NEW ids \in SUBSET Id, Detach(p, ids),
           hold' \in [Proc -> SUBSET Proc], UNCHANGED <<table, history>>,
           run' \in [Proc -> RunStates],
           \A q \in Proc : /\ run'[q] \in {"up", "stuck"} => run[q] \in {"up", "stuck"}
                           /\ run'[q] = "unborn" => run[q] = "unborn"
                           /\ run'[q] \notin {"up", "stuck", "exiting", "killed"} =>
                                run[q] \notin {"up", "stuck", "exiting", "killed"} \/ table[q] = {},
           run[p] \in {"up", "stuck"} => ids \subseteq attached[p]
    PROVE  Inv'
<1>1. /\ shm' \in [Id -> Ids]
      /\ \A j \in Id : (shm'[j] = "none" <=> shm[j] = "none") /\ (shm'[j] = "live" <=> shm[j] = "live")
  BY SettledKeeps DEF Inv, TypeOK, Detach, Ids
<1>2. TypeOK'
  BY <1>1 DEF Inv, TypeOK, Detach, history, Ids
<1>3. LiveIsRecorded'
  BY <1>1 DEF Inv, LiveIsRecorded, Alive, TypeOK
<1>4. Holders'
  BY <1>1 DEF Inv, TypeOK, Holders, history
<1>5. Removed'
  BY <1>1 DEF Inv, TypeOK, Removed, history, Ids
<1> QED
  BY <1>2, <1>3, <1>4, <1>5 DEF Inv

\* Every step of every process preserves the invariant.
LEMMA InvNext == Inv /\ [Next]_vars => Inv'
<1> SUFFICES ASSUME Inv, [Next]_vars PROVE Inv'
  OBVIOUS
<1>1. ASSUME NEW p \in Proc, NEW i \in Id, get_shm_segment(p, i) PROVE Inv'
  <2> USE <1>1 DEF get_shm_segment, Inv, TypeOK
  <2>1. TypeOK'
    OBVIOUS
  <2>2. LiveIsRecorded'
    BY DEF LiveIsRecorded, Alive
  <2>3. Holders'
    BY DEF Holders
  <2>4. Removed'
    BY DEF Removed, Holders
  <2> QED
    BY <2>1, <2>2, <2>3, <2>4
<1>2. ASSUME NEW p \in Proc, NEW i \in Id, map_shm_segment(p, i) PROVE Inv'
  BY <1>2 DEF map_shm_segment, history, Inv, TypeOK, LiveIsRecorded, Alive, Holders, Removed
<1>3. ASSUME NEW p \in Proc, NEW i \in Id, segment_unmap(p, i) PROVE Inv'
  <2>1. attached[p] \ {i} \in SUBSET Id
    BY DEF Inv, TypeOK
  <2>2. run' = run /\ run \in [Proc -> RunStates] /\ hold' \in [Proc -> SUBSET Proc]
    BY <1>3 DEF segment_unmap, Inv, TypeOK
  <2> QED
    BY <1>3, <2>1, <2>2, DetachKeeps DEF segment_unmap
<1>4. ASSUME NEW p \in Proc, NEW i \in Id, segment_remove(p, i) PROVE Inv'
  <2> DEFINE at == [attached EXCEPT ![p] = @ \ {i}]
  <2>1. at \in [Proc -> SUBSET Id]
    BY DEF Inv, TypeOK
  <2>2. \A q \in Proc : run[q] \in {"up", "stuck"} => at[q] \subseteq table'[q]
    BY <1>4 DEF segment_remove, Inv, TypeOK
  <2> HIDE DEF at
  <2>3. shmctl(p, i, at)
    BY <1>4 DEF segment_remove, at
  <2> QED
    BY <1>4, <2>1, <2>2, <2>3, RemovalKeeps DEF segment_remove
<1>5. ASSUME NEW p \in Proc, NEW c \in Proc, child_spawn(p, c) PROVE Inv'
  <2> USE <1>5 DEF child_spawn, Inv, TypeOK
  <2>1. p # c
    OBVIOUS
  <2>2. /\ heirs' \in [Id -> SUBSET Proc]
        /\ \A i \in Id : heirs[i] \subseteq heirs'[i] /\ (i \in table[p] => c \in heirs'[i])
    OBVIOUS
  <2>3. TypeOK'
    <3>1. /\ run' \in [Proc -> RunStates] /\ hold' \in [Proc -> SUBSET Proc]
          /\ table' \in [Proc -> SUBSET Id] /\ attached' \in [Proc -> SUBSET Id]
      BY DEF RunStates
    <3> QED
      BY <2>1, <2>2, <3>1
  <2>4. LiveIsRecorded'
    BY <2>1 DEF LiveIsRecorded, Alive
  <2>5. Holders'
    BY <2>1, <2>2 DEF Holders
  <2>6. Removed'
    BY <2>1, <2>2 DEF Removed
  <2> QED
    BY <2>3, <2>4, <2>5, <2>6
<1>6. ASSUME NEW p \in Proc, exit(p) \/ Sticks(p) \/ Signalled(p) PROVE Inv'
  <2> USE <1>6 DEF exit, Sticks, Signalled, history, Inv, TypeOK, RunStates
  <2>1. TypeOK'
    OBVIOUS
  <2>2. LiveIsRecorded'
    BY DEF LiveIsRecorded, Alive
  <2>3. Holders' /\ Removed'
    BY DEF Holders, Removed
  <2> QED
    BY <2>1, <2>2, <2>3
<1>7. ASSUME NEW p \in Proc, segment_cleanup(p) PROVE Inv'
  <2>1. PICK i \in table[p] : /\ run[p] = "exiting" /\ shmctl(p, i, attached)
                              /\ table' = [table EXCEPT ![p] = @ \ {i}]
                              /\ UNCHANGED <<run, hold>>
    BY <1>7 DEF segment_cleanup
  <2>2. attached \in [Proc -> SUBSET Id]
    BY DEF Inv, TypeOK
  <2>3. \A q \in Proc : run[q] \in {"up", "stuck"} => attached[q] \subseteq table'[q]
    BY <2>1 DEF Inv, TypeOK
  <2> QED
    BY <2>1, <2>2, <2>3, RemovalKeeps
<1>8. ASSUME NEW p \in Proc, Ends(p) PROVE Inv'
  <2>1. /\ run' = [run EXCEPT ![p] = "gone"]
        /\ run \in [Proc -> RunStates]
        /\ table[p] = {} /\ run[p] = "exiting"
    BY <1>8 DEF Ends, Inv, TypeOK
  <2>2. /\ Detach(p, {}) /\ UNCHANGED <<table, history>>
        /\ hold' \in [Proc -> SUBSET Proc]
    BY <1>8 DEF Ends, Closed, Inv, TypeOK
  <2> QED
    BY <2>1, <2>2, DetachKeeps DEF RunStates
<1>9. ASSUME NEW p \in Proc, Killed(p) PROVE Inv'
  <2>1. /\ run' = [run EXCEPT ![p] = "killed"]
        /\ run \in [Proc -> RunStates]
        /\ run[p] # "unborn"
    BY <1>9 DEF Killed, Alive, Inv, TypeOK
  <2>2. /\ Detach(p, {}) /\ UNCHANGED <<table, history>>
        /\ hold' \in [Proc -> SUBSET Proc]
    BY <1>9 DEF Killed, Closed, Inv, TypeOK
  <2> QED
    BY <2>1, <2>2, DetachKeeps DEF RunStates
<1>10. CASE UNCHANGED vars
  BY <1>10 DEF vars, Inv, TypeOK, LiveIsRecorded, Alive, Holders, Removed
<1> QED
  BY <1>1, <1>2, <1>3, <1>4, <1>5, <1>6, <1>7, <1>8, <1>9, <1>10 DEF Next, EndOfInput

\* The invariant holds throughout.
LEMMA Invariant == Spec => []Inv
<1> QED
  BY InvInit, InvNext, PTL DEF Spec

(***************************************************************************)
(* Whatever processes are forked, exit and are killed, the tables, the     *)
(* attachments and the ids keep their types, and a running process maps    *)
(* only what it records.                                                   *)
(***************************************************************************)
THEOREM TypeCorrect == Spec => []TypeOK
<1>1. Inv => TypeOK
  BY DEF Inv
<1> QED
  BY <1>1, Invariant, PTL

(***************************************************************************)
(* Shared memory outlives only killed processes: an id not yet removed is  *)
(* recorded by a process with its cleanup still to run, or by a killed one.*)
(***************************************************************************)
THEOREM CleanupFindsAll == Spec => []LiveIsRecorded
<1>1. Inv => LiveIsRecorded
  BY DEF Inv
<1> QED
  BY <1>1, Invariant, PTL

(***************************************************************************)
(* The exit of a child, or a remove in it, takes shared memory away from   *)
(* another process only if a fork gave one of them the record.             *)
(***************************************************************************)
THEOREM OnlyKinTake == Spec => []LostToKin
<1>1. Inv => LostToKin
  <2> SUFFICES ASSUME Inv, NEW p \in Proc, NEW i \in table[p],
                      run[p] \in {"up", "stuck"}, shm[i] # "live"
               PROVE  remover[i] # p /\ (p \in heirs[i] \/ remover[i] \in heirs[i])
    BY DEF LostToKin
  <2>1. i \in Id /\ shm[i] \in {"marked", "gone"} /\ (p = creator[i] \/ p \in heirs[i])
    BY DEF Inv, TypeOK, Holders
  <2>2. i \notin table[remover[i]] /\ (remover[i] = creator[i] \/ remover[i] \in heirs[i])
    BY <2>1 DEF Inv, Removed
  <2> QED
    BY <2>1, <2>2
<1> QED
  BY <1>1, Invariant, PTL

=============================================================================
