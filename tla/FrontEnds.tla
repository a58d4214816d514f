----------------------------- MODULE FrontEnds ------------------------------
(***************************************************************************)
(* The commands of commands.c as functions from the words typed to calls:  *)
(* each parses its arguments and then calls the segment layer or the       *)
(* kernel.  One command is one step.  Also here: what the NUMA and         *)
(* affinity commands cache (mems_allowed, cpus_allowed) and the part of    *)
(* the kernel they change, the task's policy and its cpu affinity.  What   *)
(* the segment layer does is SegmentTable's subject; here it knows which   *)
(* names are registered, those of the task's maps from the start, and may  *)
(* fail.                                                                   *)
(***************************************************************************)
EXTENDS Arguments

LOCAL INSTANCE SequencesExt

CONSTANTS
    Machines,   \* kinds of machine, build and task, see below
    SegNames, Children,             \* names a user may type
    MaxNames,                       \* bound: names on a line of remove
    OnlineCpus,                     \* cpus of the machine
    SizeWords, SecondWords, SignalWords,    \* words a user may type
    RangeArgs, ShareArgs, AccessArgs, OptionArgs, ProtArgs,
    PolicyArgs, NodeArgs, CpuArgs, MemArgs  \* sequences of words a user may type

\* anon's addr=<addr> and offset=<segment>, and '=' with nothing before it
Addr(n)  == [k |-> "addr", addr |-> n]
After(n) == [k |-> "after", after |-> n]
Equals   == [k |-> "="]

OptionWord == [k : {"addr"}, addr : Nat] \cup [k : {"after"}, after : UserWord] \cup {Equals}

(***************************************************************************)
(* A machine: its highest node, whether the build has the stubs instead of *)
(* libnuma, the names get_task_segments() registered, and whether the      *)
(* block that calloc() returns for as many ids as the highest node has     *)
(* room for one more.                                                      *)
(***************************************************************************)

ASSUME FrontEndsAssumption ==
    /\ \A m \in Machines :
          /\ m.max \in Int /\ m.max >= -1 /\ (m.stubs => m.max = -1)
          /\ \A nodes \in SUBSET (0 .. m.max) : nodes # NULL
          /\ m.maps \subseteq SegNames /\ m.room \in BOOLEAN
    /\ SegNames \cup SizeWords \subseteq UserWord /\ OnlineCpus # {} /\ MaxNames \in Nat
    /\ OptionArgs \subseteq Seq(UserWord \cup OptionWord)
    /\ RangeArgs \cup ShareArgs \cup PolicyArgs \cup NodeArgs \subseteq Seq(UserWord)
    /\ CpuArgs \cup MemArgs \subseteq Seq(UserWord)

VARIABLES
    machine,        \* the machine, the build and the task's maps
    segs,           \* names registered in the segment table
    task,           \* kernel: the task's memory policy
    affinity,       \* kernel: the cpus the task may run on
    mems_allowed,   \* gcp->mems_allowed: NULL or the nodes it points to
    cpus_allowed,   \* gcp->cpus_allowed
    pc,             \* "prompt", "done" after a command, "dead" after a fault
    typed,          \* the command executed last
    call,           \* the call it made
    ret             \* what it returned

vars == <<machine, segs, task, affinity, mems_allowed, cpus_allowed, pc, typed, call, ret>>
kernel == <<task, affinity>>
cached == <<mems_allowed, cpus_allowed>>

max   == machine.max
Nodes == 0 .. max
numa_supported == max > 0

NoCommand == [cmd |-> "none", args |-> <<>>]
NoCall    == [op |-> "none"]

-----------------------------------------------------------------------------
Typed(cmd, args) ==
    /\ pc = "prompt"
    /\ typed' = [cmd |-> cmd, args |-> args]
    /\ UNCHANGED machine

\* An error found in the arguments.
Refuse ==
    /\ ret' = CMD_ERROR /\ call' = NoCall /\ pc' = "done"
    /\ UNCHANGED <<segs, kernel, cached>>

\* SIGSEGV with the handler not armed: die(8)
Fault ==
    /\ pc' = "dead" /\ ret' = CMD_ERROR /\ call' = NoCall
    /\ UNCHANGED <<segs, kernel, cached>>

Makes(c, r) == call' = c /\ ret' = r /\ pc' = "done"

\* The segment layer refuses a name that is not registered and, of a segment of
\* the task's maps, an unmap and a touch that writes.
Refused(c, n) ==
    \/ n \notin segs
    \/ n \in machine.maps /\ (c.op = "unmap" \/ (c.op = "touch" /\ c.access = "write"))

\* A call about segment n, which may fail for other reasons too.
Calls(c, n) ==
    /\ \E r \in {CMD_SUCCESS, CMD_ERROR} : (Refused(c, n) => r = CMD_ERROR) /\ Makes(c, r)
    /\ UNCHANGED <<segs, kernel, cached>>

\* segment_register(): the name must be new
Registers(c, n) ==
    /\ \/ n \notin segs /\ Makes(c, CMD_SUCCESS) /\ segs' = segs \cup {n}
       \/ Makes(c, CMD_ERROR) /\ UNCHANGED segs
    /\ UNCHANGED <<kernel, cached>>

Rest(args, n) == SubSeq(args, n, Len(args))

-----------------------------------------------------------------------------
(***************************************************************************)
(* The loop over the options of anon.                                      *)
(***************************************************************************)
AnonOption(o, w) ==
    IF w \in {Key("shared"), Key("private")} THEN [o EXCEPT !.share = w.s]
    ELSE IF w.k \in {"addr", "after"} THEN [o EXCEPT !.at = w]
    ELSE o

\* The options that end the loop: offset=<segment> of a segment that is not there,
\* and a name=value without a name, for which strtok_r() returns NULL.
AnonStops(args) ==
    {i \in 3 .. Len(args) : args[i] = Equals \/ (args[i].k = "after" /\ args[i].after \notin segs)}

\* The NULL is compared with "addr".  The return value of an unknown offset=<segment>
\* is not initialized.
anon_seg(args) ==
    /\ Typed("anon", args)
    /\ IF Len(args) < 2 THEN Refuse
       ELSE LET size  == get_scaled_value(args[2])
                stops == AnonStops(args)
                opts  == FoldLeft(AnonOption, [share |-> "private", at |-> Addr(0)], Rest(args, 3))
            IN  IF size = BOGUS_SIZE THEN Refuse
                ELSE IF stops = {}
                THEN Registers([op |-> "anon", name |-> args[1], length |-> size,
                                at |-> opts.at, share |-> opts.share], args[1])
                ELSE IF args[First(stops)] = Equals THEN Fault
                ELSE /\ \E r \in {CMD_SUCCESS, CMD_ERROR} : Makes(NoCall, r)
                     /\ UNCHANGED <<segs, kernel, cached>>

shmem_seg(args) ==
    /\ Typed("shmem", args)
    /\ IF Len(args) < 2 THEN Refuse
       ELSE LET size == get_scaled_value(args[2])
            IN  IF size = BOGUS_SIZE THEN Refuse
                ELSE Registers([op |-> "shmem", name |-> args[1], length |-> size,
                                huge |-> Len(args) > 2 /\ args[3] = Key("huge")], args[1])

file_seg(args) ==
    /\ Typed("file", args)
    /\ IF args = <<>> THEN Refuse
       ELSE LET r     == get_range(Tail(args))
                share == IF r.rest = <<>> THEN "private" ELSE get_shared(r.rest)
            IN  IF ~r.ok \/ share = "error" THEN Refuse
                ELSE Registers([op |-> "file", name |-> args[1], offset |-> r.offset,
                                length |-> r.length, share |-> share], args[1])

(***************************************************************************)
(* remove <name>...: one after the other, up to the first that fails.  A   *)
(* segment of the task's maps cannot be removed.                           *)
(***************************************************************************)
RemoveOne(o, n) ==
    IF o.stop \/ n \notin o.segs \ machine.maps THEN [o EXCEPT !.stop = TRUE]
    ELSE [o EXCEPT !.segs = @ \ {n}]

\* the state of the loop after each name
Removing(names, args) ==
    LET o[i \in 0 .. Len(args)] ==
          IF i = 0 THEN [segs |-> names, stop |-> FALSE] ELSE RemoveOne(o[i - 1], args[i])
    IN  o

\* Faulty: the loop goes on after an error.
remove_seg_on(args) ==
    /\ Typed("remove", args)
    /\ IF args = <<>> THEN Refuse
       ELSE /\ segs' = segs \ {args[i] : i \in DOMAIN args}
            /\ Makes([op |-> "remove"], CMD_ERROR)
            /\ UNCHANGED <<kernel, cached>>

remove_seg(args) ==
    /\ Typed("remove", args)
    /\ IF args = <<>> THEN Refuse
       ELSE LET o == Removing(segs, args)[Len(args)]
            IN  /\ segs' = o.segs
                /\ Makes([op |-> "remove"], IF o.stop THEN CMD_ERROR ELSE CMD_SUCCESS)
                /\ UNCHANGED <<kernel, cached>>

\* show and unmap take one optional or required name, and no more
show_seg(args) ==
    /\ Typed("show", args)
    /\ IF args = <<>>
       THEN Makes([op |-> "show"], CMD_SUCCESS) /\ UNCHANGED <<segs, kernel, cached>>
       ELSE Calls([op |-> "show", name |-> args[1]], args[1])

unmap_seg(args) ==
    /\ Typed("unmap", args)
    /\ IF args = <<>> THEN Refuse
       ELSE Calls([op |-> "unmap", name |-> args[1]], args[1])

\* map_seg(): a range that was typed overrides the registered one, NULL does not
Override(r) == IF r.given THEN <<r.offset, r.length>> ELSE <<>>

map_seg(args) ==
    /\ Typed("map", args)
    /\ IF args = <<>> THEN Refuse
       ELSE LET r     == get_range(Tail(args))
                share == IF r.rest = <<>> THEN "none" ELSE get_shared(r.rest)
            IN  IF ~r.ok \/ share = "error" THEN Refuse
                ELSE Calls([op |-> "map", name |-> args[1], range |-> Override(r),
                            share |-> share], args[1])

touch_seg(args) ==
    /\ Typed("touch", args)
    /\ IF args = <<>> THEN Refuse
       ELSE LET r == get_range(Tail(args))
            IN  IF ~r.ok \/ get_access(r.rest) = "error" THEN Refuse
                ELSE Calls([op |-> "touch", name |-> args[1], offset |-> r.offset,
                            length |-> r.length, access |-> get_access(r.rest)], args[1])

\* lock, unlock, slock, sunlock; shm ignores the rest of the line
lock_unlock(lock, shm, args) ==
    /\ Typed(IF shm THEN "slock" ELSE "lock", args)
    /\ IF args = <<>> THEN Refuse
       ELSE LET r == get_range(IF shm THEN <<>> ELSE Tail(args))
            IN  IF ~r.ok THEN Refuse
                ELSE Calls([op |-> "lock", name |-> args[1], offset |-> r.offset,
                            length |-> r.length, lock |-> lock, shm |-> shm], args[1])

\* (size_t)(-1), which segment_location() takes for 64 pages
DEFAULT_LENGTH == Word - 1

where_seg(args) ==
    /\ Typed("where", args)
    /\ IF ~numa_supported \/ args = <<>> THEN Refuse
       ELSE LET r == get_range(Tail(args))
            IN  IF ~r.ok THEN Refuse
                ELSE Calls([op |-> "where", name |-> args[1], offset |-> r.offset,
                            length |-> IF r.given THEN r.length ELSE DEFAULT_LENGTH], args[1])

(***************************************************************************)
(* mprotect_seg(): "none" ends the loop, other words are ignored, and so   *)
(* is the result.                                                          *)
(***************************************************************************)
ProtWord(o, w) ==
    IF o.stop THEN o
    ELSE IF w = Key("none") THEN [prot |-> {}, stop |-> TRUE]
    ELSE IF w \in {Key("read"), Key("write"), Key("exec")}
         THEN [o EXCEPT !.prot = @ \cup {w.s}]
    ELSE o

mprotect_seg(args) ==
    /\ Typed("mprotect", args)
    /\ IF args = <<>> THEN Refuse
       ELSE LET o == FoldLeft(ProtWord, [prot |-> {}, stop |-> FALSE], Tail(args))
            IN  /\ Makes([op |-> "mprotect", name |-> args[1], prot |-> o.prot], CMD_SUCCESS)
                /\ UNCHANGED <<segs, kernel, cached>>

-----------------------------------------------------------------------------
(***************************************************************************)
(* The kernel and libnuma, as these commands use them.  A policy is a mode *)
(* and a set of nodes; numa_set_membind() is MPOL_BIND, and                *)
(* numa_get_membind() says "all nodes" under any other policy.  The stubs  *)
(* of a build without libnuma change nothing and mostly say it went well.  *)
(***************************************************************************)
Policy(mode, nodes) == [mode |-> mode, nodes |-> nodes]

\* whether the kernel may accept the nodes for the mode
Acceptable(mode, nodes) ==
    \/ nodes = NULL /\ mode \notin {MPOL_BIND, MPOL_INTERLEAVE}
    \/ nodes # NULL /\ nodes \cap Nodes # {}

NodesOf(nodes) == IF nodes = NULL THEN {} ELSE nodes \cap Nodes

set_mempolicy(mode, nodes, r) ==
    IF machine.stubs THEN r = CMD_SUCCESS /\ UNCHANGED task
    ELSE \/ r = CMD_ERROR /\ UNCHANGED task
         \/ /\ r = CMD_SUCCESS /\ Acceptable(mode, nodes)
            /\ task' = Policy(mode, NodesOf(nodes))

numa_get_membind(t) == IF t.mode = MPOL_BIND THEN t.nodes ELSE Nodes

sched_setaffinity(set) ==
    affinity' = IF set \cap OnlineCpus = {} THEN affinity ELSE set \cap OnlineCpus

\* refresh_mems_allowed(), given the policy in force; nothing without NUMA
refresh_mems_allowed(t) == IF numa_supported THEN numa_get_membind(t) ELSE mems_allowed

\* Faulty: the cached nodes are used as they are.
get_current_nodemask_cached == mems_allowed

\* get_current_nodemask() and get_current_nodeid_list() refresh the cache first
get_current_nodemask == refresh_mems_allowed(task)

-----------------------------------------------------------------------------
(***************************************************************************)
(* mbind: the range, the policy with its flags, and the nodes.  After an   *)
(* unrecognized policy nextarg is still at the word itself.                *)
(***************************************************************************)
mbind_seg(args) ==
    /\ Typed("mbind", args)
    /\ IF ~numa_supported \/ args = <<>> THEN Refuse
       ELSE LET r == get_range(Tail(args))
            IN  IF ~r.ok \/ r.rest = <<>> THEN Refuse
                ELSE LET w      == Head(r.rest)
                         policy == get_mbind_policy(w)
                         flags  == IF PolicyRead(w) /\ w.flags # <<>>
                                   THEN get_mbind_flags(w.flags) ELSE "none"
                         m      == get_arg_nodemask(IF PolicyRead(w) THEN Tail(r.rest)
                                                    ELSE r.rest, policy, max)
                     IN  IF flags = "error" THEN Refuse
                         ELSE IF m.wild THEN Fault
                         ELSE IF ~m.ok THEN Refuse
                         ELSE Calls([op |-> "mbind", name |-> args[1], offset |-> r.offset,
                                     length |-> r.length, policy |-> policy,
                                     flags |-> flags, nodes |-> m.mask], args[1])

SetsPolicy(mode, nodes) ==
    /\ \E r \in {CMD_SUCCESS, CMD_ERROR} :
          /\ set_mempolicy(mode, nodes, r)
          /\ Makes([op |-> "mpol", policy |-> mode, nodes |-> nodes], r)
    /\ UNCHANGED <<segs, affinity, cached>>

(***************************************************************************)
(* mpol <policy> [<nodes>].  Flags are not for mpol: they are taken for    *)
(* nodes.  After an unrecognized policy nextarg is not initialized:        *)
(* whatever it points to is parsed as a node list.                         *)
(***************************************************************************)
mpol(args) ==
    /\ args # <<>>
    /\ Typed("mpol", args)
    /\ LET w == Head(args)
           policy == get_mbind_policy(w)
           rest == IF w.flags = <<>> THEN Tail(args) ELSE <<Key("+")>> \o Tail(args)
           m == get_arg_nodemask(rest, policy, max)
       IN  IF ~PolicyRead(w)
           THEN \/ Fault \/ Refuse
                \/ \E n \in {NULL} \cup ((SUBSET Nodes) \ {{}}) : SetsPolicy(policy, n)
           ELSE IF m.wild THEN Fault
           ELSE IF ~m.ok THEN Refuse
           ELSE SetsPolicy(policy, m.mask)

(***************************************************************************)
(* mpol without arguments: the name is policies[policy].  The stub of      *)
(* get_mempolicy() reports success and stores no policy.                   *)
(***************************************************************************)
show_task_policy ==
    /\ Typed("mpol", <<>>)
    /\ \/ /\ ~machine.stubs
          /\ Makes([op |-> "policy", name |-> policies[task.mode + 1].pol_name,
                    nodes |-> task.nodes], CMD_SUCCESS)
          /\ UNCHANGED <<segs, kernel, cached>>
       \/ ~machine.stubs /\ Refuse
       \/ /\ machine.stubs
          /\ \E i \in DOMAIN policies :
                Makes([op |-> "policy", name |-> policies[i].pol_name, nodes |-> {}], CMD_SUCCESS)
          /\ UNCHANGED <<segs, kernel, cached>>
       \/ machine.stubs /\ Fault

(***************************************************************************)
(* numa: numa_node_size() may fail.  The array of ids has numa_max_node    *)
(* entries, one less than there are nodes: the last id of a task that may  *)
(* use them all is written behind it.  Unless the block has room for it,   *)
(* that changes what the allocator keeps there, and the program goes on or *)
(* ends when numa_node_size() allocates.                                   *)
(***************************************************************************)
Overruns == get_current_nodemask = Nodes /\ ~machine.room

numa_info ==
    /\ Typed("numa", <<>>)
    /\ IF ~numa_supported THEN Refuse
       ELSE \/ Overruns /\ Fault
            \/ /\ \E r \in {CMD_SUCCESS, CMD_ERROR} :
                     Makes([op |-> "numa", nodes |-> get_current_nodemask], r)
               /\ mems_allowed' = get_current_nodemask
               /\ UNCHANGED <<segs, kernel, cpus_allowed>>

\* migrate_pages() may fail
Migrates(from, to) ==
    \E r \in {CMD_SUCCESS, CMD_ERROR} : Makes([op |-> "migrate", from |-> from, to |-> to], r)

migrate_process(args) ==
    /\ Typed("migrate", args)
    /\ IF ~numa_supported \/ args = <<>> THEN Refuse
       ELSE LET to   == get_nodemask(SubSeq(args, 1, 1), max)
                from == get_nodemask(SubSeq(args, 2, 2), max)
            IN  IF to.wild THEN Fault
                ELSE IF ~to.ok THEN Refuse
                ELSE IF Len(args) > 1
                     THEN IF from.wild THEN Fault
                          ELSE IF ~from.ok THEN Refuse
                          ELSE Migrates(from.mask, to.mask) /\ UNCHANGED <<segs, kernel, cached>>
                ELSE /\ Migrates(get_current_nodemask, to.mask)
                     /\ mems_allowed' = get_current_nodemask
                     /\ UNCHANGED <<segs, kernel, cpus_allowed>>

(***************************************************************************)
(* mems: no check that NUMA is supported.  Without it nothing was ever     *)
(* allocated for mems_allowed, which is read all the same.                 *)
(***************************************************************************)
ShowMems(t) ==
    /\ mems_allowed' = refresh_mems_allowed(t)
    /\ IF mems_allowed' = NULL
       THEN pc' = "dead" /\ ret' = CMD_ERROR /\ call' = NoCall
       ELSE Makes([op |-> "mems", nodes |-> mems_allowed'], CMD_SUCCESS)
    /\ UNCHANGED <<segs, affinity, cpus_allowed>>

mems(args) ==
    /\ Typed("mems", args)
    /\ IF args = <<>> THEN UNCHANGED task /\ ShowMems(task)
       ELSE LET mask == get_mem_mask(args)
                list == get_nodemask(args, max)
                hex  == args[1].k = "mask"
            IN  IF IF hex THEN ~mask.ok ELSE ~list.wild /\ ~list.ok THEN Refuse
                ELSE IF ~hex /\ list.wild THEN Fault
                ELSE /\ \E r \in {CMD_SUCCESS, CMD_ERROR} :
                           set_mempolicy(MPOL_BIND, IF hex THEN mask.set ELSE list.mask, r)
                     /\ ShowMems(task')

\* sched_getaffinity(), given the affinity in force
refresh_cpus_allowed(a) == cpus_allowed' = a

cpus(args) ==
    /\ Typed("cpus", args)
    /\ IF args = <<>>
       THEN /\ refresh_cpus_allowed(affinity)
            /\ Makes([op |-> "cpus", set |-> affinity, shown |-> affinity], CMD_SUCCESS)
            /\ UNCHANGED <<segs, kernel, mems_allowed>>
       ELSE LET c == IF args[1].k = "mask" THEN get_cpuset_from_mask(args)
                     ELSE get_cpuset_from_ids(args)
            IN  IF ~c.ok THEN Refuse
                ELSE /\ sched_setaffinity(c.set)
                     /\ refresh_cpus_allowed(affinity')
                     /\ Makes([op |-> "cpus", set |-> c.set, shown |-> cpus_allowed'], CMD_SUCCESS)
                     /\ UNCHANGED <<segs, task, mems_allowed>>

-----------------------------------------------------------------------------
SIGINT == 2

\* kick <child> [<signal>]
child_kick(args) ==
    /\ Typed("kick", args)
    /\ LET signum == IF Len(args) > 1 THEN parse_signal(args[2]) ELSE SIGINT
       IN  IF args = <<>> THEN Refuse
           ELSE IF args[1] = Key("?")
                THEN Makes([op |-> "signals"], CMD_SUCCESS) /\ UNCHANGED <<segs, kernel, cached>>
           ELSE IF args[1] \notin Children \/ signum < 0 THEN Refuse
           ELSE /\ Makes([op |-> "kill", child |-> args[1], signum |-> signum], CMD_SUCCESS)
                /\ UNCHANGED <<segs, kernel, cached>>

\* an unsigned int, whose largest value is the error
BOGUS_SECONDS == IntWord - 1
get_arg_seconds(w) == IF strtoul(w) >= IntWord THEN BOGUS_SECONDS ELSE strtoul(w)

snooze(args) ==
    /\ Typed("snooze", args)
    /\ IF args = <<>> THEN Refuse
       ELSE IF get_arg_seconds(args[1]) = BOGUS_SECONDS THEN Refuse
       ELSE /\ Makes([op |-> "sleep", seconds |-> get_arg_seconds(args[1])], CMD_SUCCESS)
            /\ UNCHANGED <<segs, kernel, cached>>

\* process_commands(): the next command
NextLine ==
    /\ pc = "done" /\ pc' = "prompt"
    /\ typed' = NoCommand /\ call' = NoCall /\ ret' = CMD_SUCCESS
    /\ UNCHANGED <<machine, segs, kernel, cached>>

-----------------------------------------------------------------------------
\* Faulty: the nodes are looked up when a command first needs them.
commands_init_lazy == NULL

\* commands_init(): refresh_mems_allowed() does nothing without NUMA
commands_init == IF numa_supported THEN numa_get_membind(task) ELSE NULL

Init ==
    /\ machine \in Machines
    /\ segs = machine.maps /\ task = Policy(MPOL_DEFAULT, {}) /\ affinity = OnlineCpus
    /\ mems_allowed = commands_init /\ cpus_allowed = affinity
    /\ pc = "prompt" /\ typed = NoCommand /\ call = NoCall /\ ret = CMD_SUCCESS

\* The arguments a user may type: a name missing, or followed by one of S.
Then(word, rest) == <<word>> \o rest
Args(names, S) == {<<>>} \cup {Then(n, s) : n \in names, s \in S}
SizeArgs(S)    == {<<>>} \cup {Then(size, s) : size \in SizeWords, s \in S}
Ranged(S)      == {r \o s : r \in RangeArgs, s \in S}

Segment ==
    \/ \E args \in Args(SegNames, SizeArgs(OptionArgs)) : anon_seg(args)
    \/ \E args \in Args(SegNames, SizeArgs({<<>>, <<Key("huge")>>})) : shmem_seg(args)
    \/ \E args \in Args(SegNames, Ranged(ShareArgs)) : file_seg(args) \/ map_seg(args)
    \/ \E args \in UNION {[1 .. n -> SegNames] : n \in 0 .. MaxNames} : remove_seg(args)
    \/ \E args \in Args(SegNames, {<<>>}) : show_seg(args) \/ unmap_seg(args)
    \/ \E args \in Args(SegNames, Ranged(AccessArgs)) : touch_seg(args)
    \/ \E args \in Args(SegNames, RangeArgs), lock, shm \in BOOLEAN : lock_unlock(lock, shm, args)
    \/ \E args \in Args(SegNames, RangeArgs) : where_seg(args)
    \/ \E args \in Args(SegNames, ProtArgs) : mprotect_seg(args)
    \/ \E args \in Args(SegNames, Ranged(PolicyArgs)) : mbind_seg(args)

Task ==
    \/ \E args \in PolicyArgs : mpol(args)
    \/ show_task_policy
    \/ numa_info
    \/ \E args \in NodeArgs : migrate_process(args)
    \/ \E args \in MemArgs : mems(args)
    \/ \E args \in CpuArgs : cpus(args)
    \/ \E args \in Args(Children \cup {Key("?")}, {<<>>} \cup {<<w>> : w \in SignalWords}) :
          child_kick(args)
    \/ \E args \in {<<>>} \cup {<<w>> : w \in SecondWords} : snooze(args)

Next == Segment \/ Task \/ NextLine

Spec == Init /\ [][Next]_vars

-----------------------------------------------------------------------------
(***************************************************************************)
(* Types.  mems_allowed points to something exactly when NUMA is           *)
(* supported, so the commands that check for NUMA may read it, and the     *)
(* task's maps stay registered.                                            *)
(***************************************************************************)
TypeOK ==
    /\ machine \in Machines /\ segs \subseteq SegNames /\ machine.maps \subseteq segs
    /\ task \in [mode : MPOL_DEFAULT .. MPOL_NOOP, nodes : SUBSET Nodes]
    /\ affinity \in (SUBSET OnlineCpus) \ {{}} /\ cpus_allowed = affinity
    /\ mems_allowed = NULL <=> ~numa_supported
    /\ mems_allowed # NULL => mems_allowed \in (SUBSET Nodes) \ {{}}
    /\ pc \in {"prompt", "done", "dead"} /\ ret \in {CMD_SUCCESS, CMD_ERROR}

\* A list of nodes of this machine, and nothing after it.
NodeList(w) ==
    /\ Ids(w) # <<>> /\ EndOfIds(w) = ""
    /\ \A i \in DOMAIN Ids(w) : Ids(w)[i] \in Nodes

\* An id of the word does not fit in an int.
TooLong(w) == \E i \in DOMAIN Ids(w) : Ids(w)[i] >= IntWord \div 2

Exactly(nodes, w) == TooLong(w) \/ (NodeList(w) /\ nodes = {Ids(w)[i] : i \in DOMAIN Ids(w)})

(***************************************************************************)
(* get_nodemask(): the kernel is handed exactly the nodes that were typed, *)
(* all of them nodes of the machine, unless an id does not fit in an int;  *)
(* and migrate refuses no list of nodes of the machine.                    *)
(***************************************************************************)
NodesAsTyped ==
    LET args == typed.args IN
    /\ call.op \in {"mbind", "mpol"} /\ call.nodes # NULL
          => (typed.cmd = "mpol" /\ ~PolicyRead(args[1])) \/ Exactly(call.nodes, args[Len(args)])
    /\ call.op = "migrate"
          => Exactly(call.to, args[1]) /\ (Len(args) > 1 => Exactly(call.from, args[2]))
    /\ typed.cmd = "migrate" /\ pc = "done" /\ call = NoCall /\ numa_supported
          => args = <<>> \/ \E i \in DOMAIN args : ~NodeList(args[i])

\* The numbers that the first chunks spell, high-order chunk first.
Spelled(chunks) ==
    LET n[i \in 0 .. Len(chunks)] == IF i = 0 THEN 0 ELSE n[i - 1] * Pow2[ChunkBits] + chunks[i]
    IN  n

Spells(chunks) == Spelled(chunks)[Len(chunks)]

(***************************************************************************)
(* get_cpuset_from_mask(): the cpus asked for with a mask are the bits of  *)
(* the number its chunks spell, leading zeros or not, as long as each      *)
(* chunk fits in a word.                                                   *)
(***************************************************************************)
CpuMaskIsNumber ==
    call.op = "cpus" /\ typed.args # <<>> =>
        LET w == typed.args[1]
        IN  w.k = "mask" /\ (\A i \in DOMAIN w.chunks : w.chunks[i] < Pow2[ChunkBits])
              => call.set = {c \in 0 .. ChunkBits * Len(w.chunks) : Bit(Spells(w.chunks), c)}

(***************************************************************************)
(* The nodes that numa and mems show, and that migrate moves from when the *)
(* user names none, are those numa_get_membind() has now, whatever mpol    *)
(* and mems did since mems_allowed was last filled.  The limits of a       *)
(* cpuset are not among them, as the comment of the code says.             *)
(***************************************************************************)
AllowedFresh ==
    /\ call.op \in {"mems", "numa"} => call.nodes = numa_get_membind(task)
    /\ call.op = "migrate" /\ Len(typed.args) = 1 => call.from = numa_get_membind(task)

(***************************************************************************)
(* The name mpol shows (policies[policy]) is one that, typed, sets the     *)
(* policy the task has.  A build with the stubs shows any name.            *)
(***************************************************************************)
PolicyRoundTrip ==
    call.op = "policy" /\ ~machine.stubs => get_mbind_policy(Pol(call.name, <<>>)) = task.mode

PolicyNumber ==
    [default |-> MPOL_DEFAULT, preferred |-> MPOL_PREFERRED, bind |-> MPOL_BIND,
     interleaved |-> MPOL_INTERLEAVE, noop |-> MPOL_NOOP]

(***************************************************************************)
(* mbind applies the policy that was typed.  An unrecognized policy is not *)
(* told apart from MPOL_PREFERRED, but gets through only when the word is  *)
(* itself a list of nodes or '*'.                                          *)
(***************************************************************************)
MbindAsTyped ==
    call.op = "mbind" =>
        LET w == typed.args[IF StartsWithDigit(Tail(typed.args)) THEN 4 ELSE 2]
        IN  IF w.k = "pol"
            THEN w.pol = "" \/ (w.pol \in DOMAIN PolicyNumber /\ call.policy = PolicyNumber[w.pol])
            ELSE w.k \in {"num", "list", "star"} /\ call.policy = MPOL_PREFERRED

(***************************************************************************)
(* The lines that end the program: an anon option that is just '='; mems   *)
(* without NUMA support, which is not checked for although "all numa       *)
(* features will be disabled"; a policy mpol does not know, which leaves   *)
(* nextarg unset; a policy the stub of get_mempolicy() did not store; a    *)
(* node id that does not fit in an int; and numa for a task that may use   *)
(* all nodes, where the allocator leaves no room.  Nothing else does, and  *)
(* mbind, migrate and numa never without NUMA support.                     *)
(***************************************************************************)
FaultsKnown ==
    pc = "dead" =>
        LET args == typed.args IN
        \/ typed.cmd = "anon" /\ \E i \in DOMAIN args : args[i] = Equals
        \/ typed.cmd = "mems" /\ ~numa_supported
        \/ typed.cmd = "mpol" /\ args = <<>> /\ machine.stubs
        \/ typed.cmd = "mpol" /\ args # <<>> /\ ~PolicyRead(args[1])
        \/ typed.cmd = "mpol" /\ \E i \in DOMAIN args : TooLong(args[i])
        \/ /\ typed.cmd \in {"mbind", "migrate", "mems"} /\ numa_supported
           /\ \E i \in DOMAIN args : TooLong(args[i])
        \/ /\ typed.cmd = "numa" /\ numa_supported
           /\ numa_get_membind(task) = Nodes /\ ~machine.room

(***************************************************************************)
(* remove_seg() of several names: those before the first that is unknown,  *)
(* belongs to the task's maps or was just removed, are gone, no other is,  *)
(* and the command fails exactly when there is such a name.                *)
(***************************************************************************)
RemovePartial ==
    [][ typed'.cmd = "remove" /\ typed'.args # <<>> =>
          LET args == typed'.args
              good == {i \in DOMAIN args : \A j \in 1 .. i :
                          /\ args[j] \in segs \ machine.maps
                          /\ \A k \in 1 .. j - 1 : args[k] # args[j]}
          IN  /\ segs' = segs \ {args[i] : i \in good}
              /\ ret' = CMD_ERROR <=> good # DOMAIN args ]_vars

=============================================================================
