---------------------------- MODULE SharedMemory ----------------------------
(***************************************************************************)
(* SysV shared memory across the processes of memtoy.  The child command   *)
(* forks: the child starts with a copy of its parent's segment table, and  *)
(* with its parent's attachments.  A process that ends through exit() runs *)
(* cleanup(), which removes every shared memory id its table records, no   *)
(* matter which process created it.                                        *)
(*                                                                         *)
(* Of a segment table (SegmentTable) only the shared memory ids are kept,  *)
(* and of the pipes (Children) only who has the write end of a process's   *)
(* command pipe open: it reads end of file when nobody has.  A process may *)
(* be in a command that only a signal ends, pause or the touch of a        *)
(* segment of the task's maps.  Ids are not used again.                    *)
(***************************************************************************)
EXTENDS FiniteSets

CONSTANTS
    Proc,       \* processes
    Root,       \* the one the user started
    Id,         \* shared memory ids
    NoProc      \* no process

ASSUME ProcAssumption == Root \in Proc /\ NoProc \notin Proc

VARIABLES
    run,        \* per process: its state, see RunStates
    hold,       \* per process: who has the write end of its command pipe open
    table,      \* per process: ids recorded in its segment table
    attached,   \* per process: ids attached, that is, mapped
    shm,        \* per id: "none", "live", "marked" (IPC_RMID, still attached), "gone"
    \* history
    creator,    \* per id: who created it
    heirs,      \* per id: processes that got it from a fork
    remover     \* per id: whose IPC_RMID took effect

vars == <<run, hold, table, attached, shm, creator, heirs, remover>>
history == <<creator, heirs, remover>>

\* "stuck": in a command that only a signal ends
RunStates == {"unborn", "up", "stuck", "exiting", "gone", "killed"}

Alive(p) == run[p] \in {"up", "stuck", "exiting"}

-----------------------------------------------------------------------------
(***************************************************************************)
(* The kernel.  A marked id is gone with its last attachment.              *)
(***************************************************************************)
Settled(s, at) ==
    [i \in Id |-> IF s[i] = "marked" /\ \A p \in Proc : i \notin at[p] THEN "gone" ELSE s[i]]

\* shmctl(IPC_RMID) by p, of an id that may be gone already, with attachments at
shmctl(p, i, at) ==
    /\ attached' = at
    /\ shm' = Settled([shm EXCEPT ![i] = IF @ = "live" THEN "marked" ELSE @], at)
    /\ remover' = IF shm[i] = "live" THEN [remover EXCEPT ![i] = p] ELSE remover
    /\ UNCHANGED <<creator, heirs>>

\* shmdt(), or the end of a process: p keeps only the attachments ids
Detach(p, ids) ==
    /\ attached' = [attached EXCEPT ![p] = ids]
    /\ shm' = Settled(shm, attached')

-----------------------------------------------------------------------------
(***************************************************************************)
(* The commands.  One that fails changes nothing here.                     *)
(***************************************************************************)
get_shm_segment(p, i) ==
    /\ run[p] = "up" /\ shm[i] = "none"
    /\ shm' = [shm EXCEPT ![i] = "live"]
    /\ table' = [table EXCEPT ![p] = @ \cup {i}]
    /\ creator' = [creator EXCEPT ![i] = p]
    /\ UNCHANGED <<run, hold, attached, heirs, remover>>

\* shmat() of an id that is gone fails; of a marked one it does not.
map_shm_segment(p, i) ==
    /\ run[p] = "up" /\ i \in table[p] \ attached[p]
    /\ shm[i] \in {"live", "marked"}
    /\ attached' = [attached EXCEPT ![p] = @ \cup {i}]
    /\ UNCHANGED <<run, hold, table, shm, history>>

segment_unmap(p, i) ==
    /\ run[p] = "up" /\ i \in attached[p]
    /\ Detach(p, attached[p] \ {i})
    /\ UNCHANGED <<run, hold, table, history>>

\* Faulty: the segment is not unmapped first.
segment_remove_mapped(p, i) ==
    /\ run[p] = "up" /\ i \in table[p]
    /\ shmctl(p, i, attached)
    /\ table' = [table EXCEPT ![p] = @ \ {i}]
    /\ UNCHANGED <<run, hold>>

\* Faulty: the slot is not cleared.
segment_remove_keeps(p, i) ==
    /\ run[p] = "up" /\ i \in table[p]
    /\ shmctl(p, i, [attached EXCEPT ![p] = @ \ {i}])
    /\ UNCHANGED <<run, hold, table>>

\* unmap_segment(), then free_seg_slot()
segment_remove(p, i) ==
    /\ run[p] = "up" /\ i \in table[p]
    /\ shmctl(p, i, [attached EXCEPT ![p] = @ \ {i}])
    /\ table' = [table EXCEPT ![p] = @ \ {i}]
    /\ UNCHANGED <<run, hold>>

(***************************************************************************)
(* fork(): the child gets a copy of every descriptor of its parent, among  *)
(* them the write ends of its elder siblings' command pipes; it closes     *)
(* that of its own.  A child whose dup2() fails exits at once, as its      *)
(* parent would.                                                           *)
(***************************************************************************)
child_spawn(p, c) ==
    /\ run[p] = "up" /\ run[c] = "unborn"
    /\ \E s \in {"up", "exiting"} : run' = [run EXCEPT ![c] = s]
    /\ hold' = [q \in Proc |-> IF q = c THEN {p}
                               ELSE IF p \in hold[q] THEN hold[q] \cup {c} ELSE hold[q]]
    /\ table' = [table EXCEPT ![c] = table[p]]
    /\ attached' = [attached EXCEPT ![c] = attached[p]]
    /\ heirs' = [i \in Id |-> heirs[i] \cup (IF i \in table[p] THEN {c} ELSE {})]
    /\ UNCHANGED <<shm, creator, remover>>

\* pause, or the touch of a segment of the task's maps
Sticks(p) ==
    /\ run[p] = "up"
    /\ run' = [run EXCEPT ![p] = "stuck"]
    /\ UNCHANGED <<hold, table, attached, shm, history>>

\* SIGINT or SIGQUIT ends it, the one that an exiting parent sends included
Signalled(p) ==
    /\ run[p] = "stuck"
    /\ run' = [run EXCEPT ![p] = "up"]
    /\ UNCHANGED <<hold, table, attached, shm, history>>

\* the write ends held open once p has ended
Closed(p) == [q \in Proc |-> IF q = p THEN {} ELSE hold[q] \ {p}]

-----------------------------------------------------------------------------
(***************************************************************************)
(* Processes end.  segment_cleanup() goes through the slots; the           *)
(* attachments end with the process.                                       *)
(***************************************************************************)
\* quit, a script's error or, at any time, die() in the signal handler
exit(p) ==
    /\ run[p] \in {"up", "stuck"}
    /\ run' = [run EXCEPT ![p] = "exiting"]
    /\ UNCHANGED <<hold, table, attached, shm, history>>

\* the process is at its read, and nobody has the write end open any more
InputEnded(p) == run[p] = "up" /\ p # Root /\ hold[p] = {}

\* Faulty: end of file is taken for a blank line.
EndOfInput_blank(p) == InputEnded(p) /\ UNCHANGED vars

\* readline_ni() returns nothing: exit()
EndOfInput(p) == InputEnded(p) /\ exit(p)

\* Faulty: only what the process has mapped is removed.
segment_cleanup_mapped(p) ==
    \E i \in table[p] :
        /\ run[p] = "exiting"
        /\ IF i \in attached[p] THEN shmctl(p, i, attached)
           ELSE UNCHANGED <<attached, shm, history>>
        /\ table' = [table EXCEPT ![p] = @ \ {i}]
        /\ UNCHANGED <<run, hold>>

segment_cleanup(p) ==
    \E i \in table[p] :
        /\ run[p] = "exiting"
        /\ shmctl(p, i, attached)
        /\ table' = [table EXCEPT ![p] = @ \ {i}]
        /\ UNCHANGED <<run, hold>>

Ends(p) ==
    /\ run[p] = "exiting" /\ table[p] = {}
    /\ run' = [run EXCEPT ![p] = "gone"]
    /\ Detach(p, {})
    /\ hold' = Closed(p)
    /\ UNCHANGED <<table, history>>

\* a signal that ends the process: no cleanup; table keeps what it recorded
Killed(p) ==
    /\ Alive(p)
    /\ run' = [run EXCEPT ![p] = "killed"]
    /\ Detach(p, {})
    /\ hold' = Closed(p)
    /\ UNCHANGED <<table, history>>

-----------------------------------------------------------------------------
Init ==
    /\ run = [p \in Proc |-> IF p = Root THEN "up" ELSE "unborn"]
    /\ hold = [p \in Proc |-> {}]
    /\ table = [p \in Proc |-> {}] /\ attached = [p \in Proc |-> {}]
    /\ shm = [i \in Id |-> "none"]
    /\ creator = [i \in Id |-> NoProc] /\ remover = [i \in Id |-> NoProc]
    /\ heirs = [i \in Id |-> {}]

Next ==
    \E p \in Proc :
        \/ \E i \in Id : \/ get_shm_segment(p, i) \/ map_shm_segment(p, i)
                         \/ segment_unmap(p, i) \/ segment_remove(p, i)
        \/ \E c \in Proc : child_spawn(p, c)
        \/ Sticks(p) \/ Signalled(p)
        \/ exit(p) \/ EndOfInput(p) \/ segment_cleanup(p) \/ Ends(p) \/ Killed(p)

(***************************************************************************)
(* An exiting process goes on, and one that is at its read sees the end of *)
(* its input.  Nobody need send the signal that ends a pause.              *)
(***************************************************************************)
Fairness ==
    \A p \in Proc : /\ WF_vars(EndOfInput(p)) /\ WF_vars(segment_cleanup(p))
                    /\ WF_vars(Ends(p))

Spec == Init /\ [][Next]_vars

FairSpec == Spec /\ Fairness

-----------------------------------------------------------------------------
(***************************************************************************)
(* Types.  A running process has mapped only what its table records: an    *)
(* unmap, remove or exit finds it.                                         *)
(***************************************************************************)
TypeOK ==
    /\ run \in [Proc -> RunStates] /\ hold \in [Proc -> SUBSET Proc]
    /\ table \in [Proc -> SUBSET Id] /\ attached \in [Proc -> SUBSET Id]
    /\ shm \in [Id -> {"none", "live", "marked", "gone"}]
    /\ creator \in [Id -> Proc \cup {NoProc}] /\ remover \in [Id -> Proc \cup {NoProc}]
    /\ heirs \in [Id -> SUBSET Proc]
    /\ \A p \in Proc : run[p] \in {"up", "stuck"} => attached[p] \subseteq table[p]

(***************************************************************************)
(* segment_cleanup() "to remove any shm segments created": an id that was  *)
(* not removed is recorded by a process that still has its cleanup to run, *)
(* or that was killed before it could.                                     *)
(***************************************************************************)
LiveIsRecorded ==
    \A i \in Id : shm[i] = "live" =>
        \E p \in Proc : i \in table[p] /\ (Alive(p) \/ run[p] = "killed")

(***************************************************************************)
(* Shared memory that a running process records is taken from it only by   *)
(* another process that shares the record through a fork: what a process   *)
(* created after it last forked stays until it removes it itself.          *)
(***************************************************************************)
LostToKin ==
    \A p \in Proc : \A i \in table[p] :
        run[p] \in {"up", "stuck"} /\ shm[i] # "live" =>
            remover[i] # p /\ (p \in heirs[i] \/ remover[i] \in heirs[i])

(***************************************************************************)
(* Who need not see the end of its input: a process in a command that only *)
(* a signal ends, and one whose pipe such a process, or one that waits for *)
(* it, holds open (the least set with both).                               *)
(***************************************************************************)
Stays(p) ==
    \A W \in SUBSET Proc :
        (\A q \in Proc : run[q] = "stuck" \/ (Alive(q) /\ hold[q] \cap W # {}) => q \in W)
        => p \in W

(***************************************************************************)
(* When the first process has ended, every id is removed in the end, by    *)
(* whichever process has it, except what a killed process recorded and     *)
(* what is kept by one that need not see the end of its input.             *)
(***************************************************************************)
AllRemoved ==
    ~Alive(Root) ~>
        \A i \in Id :
            \/ shm[i] \in {"none", "gone"}
            \/ shm[i] = "live" /\ \E p \in Proc : i \in table[p] /\ (run[p] = "killed" \/ Stays(p))
            \/ shm[i] = "marked" /\ \E p \in Proc : i \in attached[p] /\ Stays(p)

=============================================================================
