# A TLA+ development of memtoy

memtoy is a single-threaded C program for trying out memory mappings and NUMA
policies.  It reads commands, from a terminal or from a script, that register,
map, touch, bind, lock and remove memory segments, and it can fork child
processes that execute commands in the same way.  This directory models its
core, checks the models with TLC on small instances and proves their safety
properties with TLAPS for all instances.

## The system and its parts

| part | source | state | operations |
| --- | --- | --- | --- |
| segment table | `segment.c` | `seglist` (at most 63 slots), `seg_avail`; in the kernel: mappings, shared memory ids, descriptors | register anon/file/shm/task maps, map, unmap, remove, show, touch, mbind, where, lock, mprotect, cleanup |
| range arithmetic | `segment.c` | none | rounding to a page size, clipping a range |
| child processes | `commands.c`, `memtoy.c` | list of `child_t`, two pipes per child, pending SIGCLD | spawn, send, wait, respond, kick, reap, cleanup |
| command loop, signals, touch | `commands.c`, `memtoy.c` | `siginfo`, `sigjmp`, the jump buffer | read a line, dispatch, handle a signal, touch, pause, quit |
| shared memory across processes | `segment.c`, `commands.c` | one table per process, copied by `fork()`; shared memory ids | create, map, unmap, remove, fork, exit |
| argument parsing and front ends | `commands.c` | none | sizes, ranges, policies, node lists, cpu sets, signals; one function per command |
| NUMA and affinity commands | `commands.c`, `migrate_pages.c` | `mems_allowed`, `cpus_allowed` (caches); in the kernel: policy, affinity | numa, migrate, mems, cpus, mpol, mbind |
| start-up, options, help, display | `memtoy.c`, `commands.c`, `segment.c` | options | |
| numa stubs, list header | `numa_stubs.c`, `include/`, `linux-list.h` | | |

How they interact.  The command loop calls one front end per command, which
parses its arguments and calls the segment table.  A parent writes a line to a
child's command pipe and blocks until the child writes "OK" to its response
pipe, which the child does once per line it reads.  The SIGCLD handler runs in
the middle of all that and frees list elements.  A fault in `touch_memory()`
enters the signal handler, which jumps back.  `exit()` runs `cleanup()`, which
kills the children and removes the shared memory, in a child as in the parent.

What is hard here: the handler and the main program share the list of children
and `siginfo` with almost no blocking; waits are cut short by signals; signals
merge; pipe ends are inherited by processes that do not need them; the table
caches a free slot across operations; map records its arguments before the
system call can fail; sizes wrap, and page sizes can be 0.  `PROJECT.json` lists
these hazards line by line with the properties that would catch them.

## Modules

**SegmentRange** is the size arithmetic of `segment.c` (`round_up`, `round_down`,
clipping) over naturals below `Word`.  **TypedRange** is how `commands.c` reads a
size or a range: `strtoul()`, the scale factor, wrap-around, the error value.
**UserRange** enumerates typed ranges and says what rounding and clipping them to a
segment should do.  **RangeMask** has the rounding as the code writes it, with bit
masks that wrap around, on words of `WordBits` bits, and compares one with the other
for every page size, 0 included.  **Bits** has powers of two, the bits of a number and
the `&` of C, as recursive functions.

**Arguments** has the other parsers of `commands.c`: sharing, access, policies and
flags, node lists, cpu lists and masks, signals.  A typed word is a record that
keeps what the code tells apart (a number of any size with the character after
it, a keyword, a list, a mask).  **FrontEnds** has one action per command: the
words typed, the call that results, the value returned, the caches
`mems_allowed` and `cpus_allowed`, and the policy and affinity of the task in the
kernel.  `machine` is the highest node, whether the program was built with the
stubs of `numa_stubs.c`, the names of the task's maps (registered from the start, and
refused by `segment_remove()`), and whether the allocator happens to leave room for
one more node id than `numa` asks for.  Uninitialized values (`nextarg` of mpol, `err` of anon, the
policy of the stub `get_mempolicy()`) are nondeterministic choices.

**SegmentNames** is what `segment.h` promises its callers: a bounded map from names
to segments that are mapped or not.  SegmentTable implements it (`Promise`,
`TableImplemented`): a name stands for the slot in use that has it; slots, the
saved slot and the kernel are hidden.

**SegmentTable** has one action per operation of `segment.c`.  `seglist` is the
NULL-terminated array, as a sequence of records; `seg_avail` is a slot number or 0.
`segment_get` and `get_seg_slot` are operators on a table, because an operation
calls them one after the other: a lookup that misses allocates a slot, and a
registration then takes it.  The kernel's side is `vm` (for each page, which slot
mapped it and with which protection), `shm`, `fds` and the files' sizes, which
another process may change (`Resize`).  System calls may fail at any time;
`calloc` may fail too, which `segment_get` survives and `get_seg_slot` does not.
`call` records the range the last operation handed to the kernel or touched.
`phase` is `spin` for a touch that never ends, `exited` after `exit()` and
`killed` after a signal nobody handles.

**Children** is one parent and its children.  The handler is an action that can
come between any two steps of the parent at which SIGCLD is not blocked.  A child
is a process with a state, a queue of commands, and a count of responses in the
pipe; `hold[c]` says which processes have the write end of c's command pipe open.
`freed` and `uaf` follow the life of each `child_t`.  A command is ordinary work, one
that fails, crashes or quits, or one that does not end by itself: `pause`, and `spin`,
the touch of a segment whose page size is 0.  A child in either is `Stuck` until a
signal comes.  The parent may be killed too (`ParentKilled`), and then sends none.

**SharedMemory** composes what the table and the children do to shared memory: each
process has a table and attachments, `fork()` copies both, `exit()` removes every id
the table records, slot by slot, while the other processes run.  A child may fork
too.  `hold` says who has the write end of a process's command pipe open: it reads
end of file when it is at its read (not `"stuck"` in a command) and nobody has.
`creator`, `heirs` and `remover` only record history.

**CommandLoop** is one process: `process_commands()`, `signal_handler()` and
`touch_memory()` step by step, other commands abstracted to success or failure.
An error and the `exit(4)` it leads to are two steps.  SIGSEGV and SIGBUS come from a
touch or, like every other signal, from outside.  `stride` is how far a touch
advances, 0 for a segment of the task's maps.  The variables `fresh` (a signal was
recorded since the check before the current command), `outside` (the last signal was
not a fault of the touch), `errors` and `quitSeen` only record history.

**CommandLoopProofs**, **ChildrenProofs**, **SharedMemoryProofs**,
**SegmentRangeProofs**, **UserRangeProofs** (which is about RangeMask too),
**SegmentTableProofs** and **FrontEndsProofs** hold theorems, **SegmentEffects** the
lemmas about the operations of the table; **MCSegmentTable** holds the task maps that TLC
uses, **MCFrontEnds** the words.  Operators whose comment starts with "Faulty" are
variants of the definition that follows them, with a plausible mistake; each is
there to show that some property notices the mistake.

## Runs

| run | bounds | distinct states | what it shows |
| --- | --- | --- | --- |
| table | 3 slots, 4 names, task maps with a repeated name, 3 pages, `offset=` placement (MAP_FIXED), failing `calloc` | 21 747 | slots, names, pages, shared memory and descriptors stay accounted for; the table implements SegmentNames |
| mappings | 3 slots, 3 pages of 2 bytes, huge pages of 4, a file of 1 or 4 bytes, ranges aligned and not | 49 370 | mappings and table agree, range operations stay inside |
| range | every pair of numbers from 0 to 33 with every scale factor, 5-bit `size_t`; page sizes 0 to 8 | 84 456 | the range is what was typed, masks round, clipping is sound |
| children | 2 children, 2 sends (work, quit, pause), kicks with kill and int, interrupts, crashes | 3 692 425 | one response per request, sound list |
| children_liveness | 3 children, 2 sends (work, fail, crash, pause, spin), batch mode, starts that fail, a parent that may be killed | 412 160 | waits end, orphans end, unless a command is one that only a signal ends; only a child that died before it was listed lingers |
| script | every kind of line, 2 pages, strides 0 and 1, 3 signals of all kinds | 15 492 | signals, jumps, responses, errors |
| frontends | 4 machines, 2 names and one of the task's maps, up to 3 names on a line of remove (`MaxNames`), words of each kind and at each limit, 8-bit unsigned long, 7-bit int | 272 427 | calls are what was typed, caches are fresh, which lines end the program |
| shared_memory | 3 processes, 2 ids, exits, kills and commands that do not end, at any point | 1 177 027 | no id is forgotten, only kin take, all is removed in the end but what a killed or a stuck process keeps |
| maps_ops, wait_ready, zombies, use_after_free | | | counterexamples: where the code does not do what a comment or TODO says |

Why the bounds are enough.  A slot is confused with another only through
`seg_avail`, so three slots (one saved, one free, one used) reach every case, and
four names fill the table with one to spare.  One fixed placement over another
mapping needs two segments and two pages.  The races of the children are between
a parent and one or two children: a second one is needed for merged signals and
inherited pipe ends, a third for an orphan whose pipe is held by an orphan.
In the command loop three signals let one be recorded, overwritten and reset.
A parser has no memory, so one command at a time with every class of word is
enough; the caches and the policy need two or three commands, which are not
bounded.  In `frontends` 127 is a negative int, 129 becomes 1, and 300 saturates, as
2^32 - 1, 2^32 + 1 and 2^64 do in the code.  Three processes make a grandchild and
two siblings possible; two ids let a process keep one and lose the other.
Deadlock is not checked: the program may end, or wait for input for ever.

The counterexamples in brief: `where` and `touch` of a segment of the task's maps
divide by, or advance by, a page size of 0; the death of a child cuts short the
wait for another; of two children that die together one stays a zombie; a child
told to quit is freed while `child_send()` still uses it.
The models have further behaviour a reader may not expect, which no run asks
about:

- Errors of a send and of `mprotect` do not end a script, although a comment
  (`memtoy.c:66`) says that any error does.  `ScriptStatus` is about the errors that
  `parse_command()` reports; `errors` has the others as "ignored".
- A signal that comes between a reported error and `exit(4)` decides the status: 8 for
  SIGUSR1.  The help of pause (`commands.c:2185`) names SIGUSR1 as what ends it; it
  ends the program.  A SIGQUIT that a touch consumes is forgotten.
- `pause`, and the touch of a segment of the task's maps, end only with a signal.  A
  child in one whose parent is killed stays, with its shared memory.
- Lines that end the program (`FaultsKnown` has all of them): `anon a 1k =`, where
  `strtok_r()` finds no option name; mems without NUMA support, although the README
  (line 62) says that all numa features are disabled then; mpol with an unknown policy;
  a node id that does not fit in an int, which is cut down; and `numa`, which
  allocates one entry too few, where the allocator leaves no room for it.
- `remove` stops at the first name that is unknown, or that is one of the task's maps.
- The nodes shown as allowed are those of `numa_get_membind()`; the limits of a cpuset
  are not considered, as `commands.c:266` says, and the model has no cpuset.
- A range with an unaligned offset may lose its last page, although the comment at
  `segment.c:758` says that touch goes to each page from offset to offset+length.
  `ClipsInside` promises all bytes only for an aligned offset.  Touch of an unmapped segment accesses (void *)-1.
- A child that exits removes the shared memory that its parent created before the
  fork (`LostToKin` says who may lose what to whom).
- A write to a child that is dead and not yet reaped kills the parent by SIGPIPE.  A
  child that dies before it is listed stays listed for ever (`OnlyUnstartedLinger` says
  that no other does; `ListSound` is checked with `StartMayFail = FALSE` for that
  reason).

## Fairness

`FairSpec` of Children: a parent that has begun a command goes on with it, a
pending SIGCLD is delivered, every child takes the steps it can take.  That is
what the scheduler and the kernel guarantee.  No fairness is assumed of the
user, of interrupts, or of failures, and nobody need send the signal that ends a
pause or a spinning touch: `WaitEnds` and `OrphansEnd` hold but for children that are
`Stuck` in one, and those kept from their end of file by one.  `FairSpec` of
CommandLoop: the program takes the steps it can take; input and signals need never
come, so `TouchEnds` asks of a touch that does not advance only that it ends once a
signal is recorded.  `FairSpec` of SharedMemory: a process that exits goes on
exiting, and one that is at its read and whose pipe nobody holds open reads the end
of its input; nobody need type anything, be killed, or be woken from a pause
(`Stays` names who is excepted from `AllRemoved`).

## Proofs

`CommandLoopProofs`, for any lines, signals, number of pages and of signals, and
both modes: the type invariant; that the jump is armed only at the access; that
faults of a touch never end the program (status 8 comes only of a signal sent from
outside); that a command sees no signal recorded before the check that precedes it;
that every line is answered once; that no line of a script is read after a reported
error, which shows in the status whatever signals come before the exit.  None is
inductive: the invariant `Inv` adds how many responses are owed at each place in the
loop and that pages remain when one is touched (`Counts`), that an access is always
armed and that signals are never left blocked (`Jump`), and that a recorded SIGQUIT
was received and that the program is failing only after a reported error
(`Recorded`).

`ChildrenProofs`, for any number of children and commands, both modes, and starts
that may fail: the type invariant; that every response of a live child is one the
parent awaits or one whose wait a signal cut short (`ResponsesAccounted`); and from
that, that a child none of whose waits was cut short is ready at the next command
(`ReadyUnlessMissed`).  The account is not inductive by itself: `Inv` adds that the
parent's `childp` was forked (`Placed`), that pipes of processes not yet forked are
empty (`Unborn`), that `childp` is freed only when its process is dead, until the
exit (`FreedDead`; without it a wait that gives up on a freed child would lose a
response), and that send and kick carry the right kind of argument (`Argument`).
That the walk over the list has a next element rests on the library's theorem that
every non-empty set of naturals has a least element.

Two more theorems there are about the list.  While starts do not fail
(`StartMayFail = FALSE`), the list and the processes agree (`ListSound`); without that
assumption the only disagreement is a child that died before it was listed and was
never told anything (`OnlyUnstartedLinger`).  They need `ListInv` on top of `Inv`: what
holds between `fork()` and `list_add_tail()` (`Window`: the new child is on no list,
has a name of its own, has been told nothing, and is dead only if its start may
fail), that a listed child is not freed and has its pipe (`Listed`), and that a process
not yet forked does nothing (`Idle`).

`SharedMemoryProofs`, for any number of processes and of ids: the type invariant,
that an id not yet removed is recorded by a process whose cleanup will find it or
that was killed (`LiveIsRecorded`), and that an id is taken from a running process
only by kin (`LostToKin`).  The last is not inductive: `Inv` adds that whoever records
an id created it or is one of its heirs (`Holders`), and that an id that is no
longer live has a remover who held it too and has dropped it from his table
(`Removed`).

`SegmentRangeProofs`: for any page size, 0 included, an accepted range is clipped to a
non-empty range inside the segment (`ClipInSegment`); and the lemmas on which the
others rest.  The provers have no induction, so a statement about every number is
proved by looking at the least number for which it is false (`LeastNumber`, from the
library's theorem on well-founded orders).  That is enough for loops (`LoopExists`: a
loop whose steps keep a set of values has a value after any number of steps), and so
for recursive functions, which are loops over their argument: powers of two
(`Pow2Next`, `Pow2Sum`), the bits of a number rounded down (`RoundBits`), of a mask
(`MaskBits`), of two numbers joined (`JoinBits`), and the `&` of two numbers (`AndIs`: it
is the number that has the bits both have).

`UserRangeProofs`, for a `size_t` of any width, any page sizes, scale factors and
numbers: all four invariants of the run `range`.  The inductive invariant is small
(`RangeRead`: the words are words a user can type, the range is what `get_range()` made
of them, or nothing yet), and the arguments are arithmetic.  Rounding up is to the
next multiple, or wraps around to 0 when that is no `size_t` (`RoundUp`), because the
sum in it overflows at most once (`WrapOnce`) and two multiples are a page apart
(`MultiplesApart`); a clipped range keeps the bytes asked for even then, because a
rounded length of 0 is cut to the end of the segment.  `MaskIsRounding` compares the
bits on both sides.  Assumptions: every page size but 0 divides `Word`
(`UserRangeAssumption`), and for `MaskIsRounding` that both are powers of two
(`RangeMaskAssumption`).

`SegmentEffects` and `SegmentTableProofs`, for any number of slots, names, pages, sizes
and task maps: all nine invariants of SegmentTable.  The proofs go in two steps.
SegmentEffects says first what the operators on a table do (`segment_get` and
`get_seg_slot` keep a table good, add a slot, or find one), then which *effect* each of
the operations can have: it answers without a change to the slots in use, adds a
segment, maps, unmaps, removes, changes or protects one, loads a line of the task's
maps, ends the program (lemma `Effects`).  It rests on `TableInv`: the type invariant,
`AvailFree`, and `LinesOK` (the lines still to be loaded are proper, and a touch that
spins comes after them).  SegmentTableProofs then proves each property once per
effect, not once per operation.  `UniqueNames`, `FullMeansFull`, `ShmAccounted` and
`NoOrphanPage` follow from `TableInv` and themselves.  `FdsAccounted`, `MappedIntact` and
`CallsInside` also need `ListFacts`, what every segment in use satisfies (one from the
task's maps is mapped, page sizes are 0 or one of the two, mappings begin on a
page), and the last two need `IntactInv`, which adds that the lines not loaded yet own
their pages.  Assumptions: `TableAssumption` of the module, and for `MappedIntact` and
`CallsInside` that nobody asks for fixed addresses (`NoFixed`: mapping over another
segment is what a fixed address is for, and then the property is false), for
`CallsInside` also that a huge page is a whole number of pages (`HugeAligned`) and that
the task's maps are whole pages (`LinesInside`), both facts about the kernel.  The run
`mappings` satisfies all three.  `NoOrphanPage` needs none of them; the run `table`,
which has MAP_FIXED, checks it.

The last part of `SegmentTableProofs` is `Spec => TableImplemented`, the refinement of
SegmentNames.  The
abstract map is named by what it satisfies (`Views`: its domain is the names in use,
and each name stands for the view of its slot), each effect is shown to be one
abstract action or a stutter (`PromiseStep`), and a counting argument (`NamesCount`:
with unique names, there are fewer names than slots exactly when a slot is not in
use) says that the abstract table has room when the array has.  It uses `TableInv`,
`UniqueNames` and `ListFacts`.

`FrontEndsProofs`, for every machine, width of `int` and of `unsigned long`, any number
of words on a line and ids in a list: `NodesAsTyped`, `AllowedFresh`, `PolicyRoundTrip`,
`MbindAsTyped` and `FaultsKnown`; then `RemovePartial`, `CpuMaskIsNumber` and the type
invariant.  Each of the first five says what a command did with the line just
typed, so the work is in the lemmas about the parsers: an id below 2^31 is read as
it stands and a longer one as less (`ToIntReads`), what `get_nodemask()` accepts,
refuses and overruns (`NodemaskReads`), where `get_range()` leaves the rest of the line
(`RangeRest`), and that a policy's name is found in its own row only (`PolicyReads`).
The inductive part is `Settled`: the machine does not change, the task's policy is one
of the five and its nodes exist, and `mems_allowed` stays NULL without NUMA, without
which `mems` could show nodes nobody looked up.  anon is taken apart on its own
(`AnonStep`), because one of its options ends the program.

`RemovePartial` is an action property, and about a loop: `Removed` says what the loop of
`remove_seg()` has done after i names, and the least i for which it had not would
follow one for which it had.  `CpuMaskIsNumber` is about a loop too: `SpelledBits` says
that the bits of the number spelled by the first i chunks are the bits of those
chunks, last chunk lowest, and `CountedBits` that the chunks of 0 the code drops have
none.  The type invariant needs that a step is `Proper`: a new policy is one the kernel
accepts, the cache is refreshed from the policy in force, the affinity is never
emptied.  Assumptions of this module: an `int` and a chunk of a cpu mask are no wider
than an `unsigned long`, the words typed are `UserWord`s, a machine has a cpu, and NULL
is no set of nodes.

Only model-checked: liveness (`WaitEnds`, `OrphansEnd`, `TouchEnds` and
`AllRemoved`), which rests on fairness and is out of the prover's reach.  Every
invariant and action property of a passing run is stated by a theorem.

## Not modelled

Splitting a line into words and the abbreviation of command names; help, display
and verbose output; getopt and usage; the parsing of a line of `/proc/<pid>/maps` (its
fields are the input of `get_task_segments`); the stubs nobody calls; the pointers of
the list; the pipes of a child's own children (SharedMemory has the processes);
`free()` in a signal handler that interrupts the allocator.

## State of the plan

Done: SegmentRange, TypedRange, UserRange, Bits, RangeMask, SegmentTable,
SegmentNames, Children, SharedMemory, CommandLoop, Arguments, FrontEnds and their
runs, and the proofs of their invariants, action properties and of the refinement of
SegmentNames.  What could follow: an abstract request/response channel that Children
implements, with its proof.
