---------------------------- MODULE SegmentTable ----------------------------
(***************************************************************************)
(* The segment table of segment.c, the operations the commands call on it, *)
(* and the part of the kernel they change: the process's mappings, its     *)
(* System V shared memory ids and its open files.                          *)
(*                                                                         *)
(* seglist is the code's NULL-terminated array of pointers: a sequence, so *)
(* that "the first NULL entry" is Len(seglist) + 1 and a slot, once        *)
(* allocated, is never given back.  A slot whose seg_type is "none" is     *)
(* free.  seg_avail caches one free slot.                                  *)
(*                                                                         *)
(* Addresses and lengths are bytes; the kernel hands out whole pages.      *)
(***************************************************************************)
EXTENDS SegmentRange, Sequences, FiniteSets

CONSTANTS
    MaxSegments,    \* MAX_SEGMENTS, 63 in the code
    Names,          \* segment names a user may type
    FileNames,      \* the names that are basenames of a regular file
    TaskMaps,       \* the usable lines of /proc/<mypid>/maps, in order
    PageSize,       \* gcp->pagesize
    HugePageSize,   \* gcp->huge_pagesize
    NPages,         \* bound: pages of the address space
    Addrs,          \* values of "anon ... addr=<addr>"; 0 when it is not given
    Anchors,        \* segments of "anon ... offset=<segment>"
    Offsets,        \* offsets a user may type
    Lengths,        \* lengths a user may type
    FileSizes,      \* sizes a file may have
    FileProts,      \* the protections file permissions may allow
    Fds, ShmIds,    \* descriptors and ids the kernel may return
    Shares,         \* the sharing a user may ask for
    Prots,          \* the protections a user may ask of mprotect
    AllocMayFail    \* whether calloc() may return NULL

ASSUME TableAssumption ==
    /\ MaxSegments \in Nat \ {0}
    /\ PageSize \in Nat \ {0} /\ HugePageSize \in Size
    /\ NPages \in Nat /\ (NPages + 1) * PageSize < Word
    /\ Addrs \subseteq Size /\ Offsets \subseteq Size /\ Lengths \subseteq Size
    /\ FileSizes \subseteq Size /\ FileProts \subseteq {{"r", "w"}, {"r"}, {"w"}}
    /\ Fds \subseteq Nat /\ ShmIds \subseteq Nat
    /\ Shares \subseteq {"private", "shared"}
    /\ Prots \subseteq SUBSET {"r", "w", "x"}
    /\ AllocMayFail \in BOOLEAN
    /\ FileNames \subseteq Names /\ Anchors \subseteq Names
    /\ TaskMaps \in Seq([name : Names, type : {"anon", "file"},
                         start : Size, length : Size, offset : Size])
    /\ \A i \in DOMAIN TaskMaps : TaskMaps[i].start # MAP_FAILED

VARIABLES
    seglist,    \* the allocated slots
    seg_avail,  \* a saved free slot, or Null
    maps,       \* lines of /proc/<mypid>/maps get_task_segments has not read
    vm,         \* per page: who mapped it and with which protection
    shm,        \* shared memory ids that exist
    fds,        \* open file descriptors
    fsize,      \* per file: its current size
    ret,        \* what the last operation reported
    call,       \* the range the last operation touched or gave to the kernel
    phase       \* "run", "spin" (a touch that never ends), "exited", "killed"

vars == <<seglist, seg_avail, maps, vm, shm, fds, fsize, ret, call, phase>>
kernel == <<vm, shm, fds, fsize>>

Null  == 0
Crash == -1
Taken == -2
NONE  == -1     \* SEG_FD_NONE and SHM_ID_NONE

Slot  == 1 .. MaxSegments
Task  == MaxSegments + 1            \* owner of the pages of the program's own image
Pages == 1 .. NPages
Free  == [owner |-> Null, prot |-> {}]

NoCall == [op |-> "none", slot |-> Null, start |-> 0, length |-> 0]

SegType == {"none", "anon", "file", "shm"}
SegFlag == {"shared", "private", "maps", "huge"}
DEFAULT_LENGTH == Word - 1
NoName  == "(null)"

Segment == [name : Names \cup {NoName}, start : Size, length : Size,
            offset : Size, pagesize : Size, type : SegType,
            flags : SUBSET SegFlag, prot : SUBSET {"r", "w", "x"},
            fd : Fds \cup {NONE, 0}, shmid : ShmIds \cup {NONE, 0}]

\* A slot fresh from calloc(), or cleared by free_seg_slot().
Blank == [name |-> NoName, start |-> 0, length |-> 0, offset |-> 0,
          pagesize |-> 0, type |-> "none", flags |-> {}, prot |-> {},
          fd |-> 0, shmid |-> 0]

PagesIn(start, length) ==
    {p \in Pages : start =< p * PageSize /\ p * PageSize < start + length}

Lowest(S) == CHOOSE i \in S : \A j \in S : i =< j

Calloc == IF AllocMayFail THEN BOOLEAN ELSE {TRUE}

-----------------------------------------------------------------------------
(***************************************************************************)
(* The slots.  A table is a record of seglist and seg_avail, so that an    *)
(* operation can look a name up and then allocate in one step.             *)
(***************************************************************************)
Table == [list |-> seglist, avail |-> seg_avail]

Become(T) == seglist' = T.list /\ seg_avail' = T.avail

\* Faulty: the scan stops one entry short.
FreeSlots_but_last(list) == {s \in DOMAIN list : list[s].type = "none" /\ s < Len(list)}

FreeSlots(list) == {s \in DOMAIN list : list[s].type = "none"}

Named(list, name) == {s \in DOMAIN list : list[s].type # "none" /\ list[s].name = name}

\* new_segment() put in the first NULL entry of the array
new_slot(list) == Append(list, Blank)

\* Faulty: the slot allocated ahead of need may be the terminating NULL's.
segment_get_overrun(T, name, mem) ==
    IF T.avail = Null /\ Named(T.list, name) = {} /\ Len(T.list) =< MaxSegments /\ mem
    THEN [list |-> new_slot(T.list), avail |-> Len(T.list) + 1]
    ELSE T

(***************************************************************************)
(* What segment_get(name) leaves in the table.  On the way to the name, or *)
(* to the end of the list, it saves the first free slot it passes if none  *)
(* is saved; when the name is not there and it passed none, it allocates a *)
(* slot ahead of need, unless the array is full or calloc fails.           *)
(***************************************************************************)
segment_get(T, name, mem) ==
    LET hits   == Named(T.list, name)
        passed == {s \in FreeSlots(T.list) : hits # {} => s < Lowest(hits)}
    IN  IF T.avail # Null THEN T
        ELSE IF passed # {} THEN [T EXCEPT !.avail = Lowest(passed)]
        ELSE IF hits = {} /\ Len(T.list) < MaxSegments /\ mem
             THEN [list |-> new_slot(T.list), avail |-> Len(T.list) + 1]
        ELSE T

\* Faulty: the saved slot is handed out and stays saved.
get_seg_slot_keeps(T, mem) ==
    IF T.avail # Null THEN [slot |-> T.avail, table |-> T]
    ELSE IF Len(T.list) < MaxSegments /\ mem
         THEN [slot |-> Len(T.list) + 1, table |-> [T EXCEPT !.list = new_slot(T.list)]]
    ELSE [slot |-> Null, table |-> T]

(***************************************************************************)
(* get_seg_slot(): the saved slot, else the first free one, else a new     *)
(* one.  The code writes through the result of calloc() without looking at *)
(* it, so a failure here is a fault (Crash); Null is "segment table full". *)
(***************************************************************************)
get_seg_slot(T, mem) ==
    LET free == FreeSlots(T.list)
    IN  IF T.avail # Null
        THEN [slot |-> T.avail, table |-> [T EXCEPT !.avail = Null]]
        ELSE IF free # {} THEN [slot |-> Lowest(free), table |-> T]
        ELSE IF Len(T.list) < MaxSegments
             THEN IF mem THEN [slot |-> Len(T.list) + 1,
                               table |-> [T EXCEPT !.list = new_slot(T.list)]]
                  ELSE [slot |-> Crash, table |-> T]
        ELSE [slot |-> Null, table |-> T]

\* free_seg_slot(): the slot stays allocated, cleared, and is saved if none is.
free_seg_slot(T, s) ==
    [list  |-> [T.list EXCEPT ![s] = Blank],
     avail |-> IF T.avail = Null THEN s ELSE T.avail]

\* Faulty: only a mapped segment's file is closed, its shared memory removed.
ClosedBy_if_mapped(seg) ==
    IF seg.type = "file" /\ seg.start # MAP_FAILED THEN {seg.fd} ELSE {}
RemovedBy_if_mapped(seg) ==
    IF seg.type = "shm" /\ seg.start # MAP_FAILED THEN {seg.shmid} ELSE {}

\* ... and closes the file or removes the shared memory of the segment it held
ClosedBy(seg) == IF seg.type = "file" /\ seg.fd # NONE THEN {seg.fd} ELSE {}
RemovedBy(seg) == IF seg.type = "shm" /\ seg.shmid # NONE THEN {seg.shmid} ELSE {}

\* segment_cleanup(): free the slots of the shared memory segments, in order.
segment_cleanup(T) ==
    LET ids == {s \in DOMAIN T.list : T.list[s].type = "shm"}
    IN  [list  |-> [s \in DOMAIN T.list |-> IF s \in ids THEN Blank ELSE T.list[s]],
         avail |-> IF T.avail = Null /\ ids # {} THEN Lowest(ids) ELSE T.avail]

\* exit(): the cleanup() handler runs, then the kernel takes the rest back.
ExitWith(T) ==
    /\ Become(segment_cleanup(T))
    /\ shm' = shm \ UNION {RemovedBy(T.list[s]) : s \in DOMAIN T.list}
    /\ fds' = {}
    /\ vm' = [p \in Pages |-> Free]
    /\ phase' = "exited" /\ call' = NoCall
    /\ UNCHANGED <<maps, fsize>>

\* Death by a signal with no handler: nothing is cleaned up but by the kernel.
DieBySignal ==
    /\ phase' = "killed" /\ call' = NoCall
    /\ fds' = {}
    /\ vm' = [p \in Pages |-> Free]
    /\ UNCHANGED <<seglist, maps, shm, fsize>>

-----------------------------------------------------------------------------
(***************************************************************************)
(* segment_register().                                                     *)
(***************************************************************************)
NewSegment(type, name, offset, length, flags) ==
    [Blank EXCEPT !.name = name, !.start = MAP_FAILED, !.length = length,
                  !.offset = offset, !.type = type, !.flags = flags,
                  !.prot = {"r", "w"}, !.fd = NONE, !.shmid = NONE]

Put(T, s, seg) == [T EXCEPT !.list[s] = seg]

\* Faulty: the name is not checked.
ClaimSlot_unchecked(T, name, mem1, mem2) == get_seg_slot(segment_get(T, name, mem1), mem2)

(***************************************************************************)
(* The part all types share: the name must be new, and then a slot is      *)
(* needed.  The result is a slot or the reason there is none, and the      *)
(* table that the lookup and the allocation left.                          *)
(***************************************************************************)
ClaimSlot(T, name, mem1, mem2) ==
    LET g == segment_get(T, name, mem1)
    IN  IF Named(T.list, name) # {} THEN [slot |-> Taken, table |-> g]
        ELSE get_seg_slot(g, mem2)

NotRegistered(t) ==
    \/ /\ t.slot = Taken /\ ret' = "err"
       /\ Become(t.table) /\ call' = NoCall /\ UNCHANGED <<kernel, phase>>
    \/ /\ t.slot = Null /\ ret' = "full"
       /\ Become(t.table) /\ call' = NoCall /\ UNCHANGED <<kernel, phase>>
    \/ /\ t.slot = Crash /\ ret' = "err"
       /\ ExitWith(t.table)

Running == phase = "run" /\ maps = <<>>

\* "anon <name> <size> addr=": mapping is left to the map command.
RegisterAnonAt(T, name, offset, length, share) ==
    \E mem1, mem2 \in Calloc :
        LET t == ClaimSlot(T, name, mem1, mem2)
        IN  \/ NotRegistered(t)
            \/ /\ t.slot \in Slot
               /\ Become(Put(t.table, t.slot,
                             NewSegment("anon", name, offset, length, {share})))
               /\ ret' = "ok" /\ call' = NoCall
               /\ UNCHANGED <<kernel, phase>>

RegisterAnon(name, offset, length, share) ==
    /\ Running
    /\ RegisterAnonAt(Table, name, offset, length, share)
    /\ UNCHANGED maps

(***************************************************************************)
(* "anon <name> <size> offset=<after>": segment_range() looks the other    *)
(* segment up first, and the new one starts where that one is recorded to  *)
(* end.                                                                    *)
(***************************************************************************)
RegisterAnonAfter(name, after, length, share) ==
    /\ Running
    /\ \E mem \in Calloc :
          LET g    == segment_get(Table, after, mem)
              prev == seglist[Lowest(Named(seglist, after))]
          IN  \/ /\ Named(seglist, after) = {} /\ ret' = "err"
                 /\ Become(g) /\ call' = NoCall /\ UNCHANGED <<kernel, phase>>
              \/ /\ Named(seglist, after) # {}
                 /\ RegisterAnonAt(g, name, (prev.offset + prev.length) % Word,
                                   length, share)
    /\ UNCHANGED maps

(***************************************************************************)
(* "file <path>": open_file() checks and opens the file; every failure     *)
(* frees the slot again.  The protection is narrowed to what the file's    *)
(* permissions allow.                                                      *)
(***************************************************************************)
Opened(seg, fd, prot) == [seg EXCEPT !.fd = fd, !.prot = prot]

RegisterFile(name, offset, length, share) ==
    /\ Running
    /\ \E mem1, mem2 \in Calloc :
          LET t   == ClaimSlot(Table, name, mem1, mem2)
              seg == NewSegment("file", name, offset, length, {share})
          IN  \/ NotRegistered(t)
              \/ /\ t.slot \in Slot
                 /\ \E fd \in Fds \ fds, prot \in FileProts :
                       /\ Become(Put(t.table, t.slot, Opened(seg, fd, prot)))
                       /\ fds' = fds \cup {fd}
                 /\ ret' = "ok" /\ call' = NoCall
                 /\ UNCHANGED <<vm, shm, fsize, phase>>
              \/ /\ t.slot \in Slot
                 /\ Become(free_seg_slot(t.table, t.slot))
                 /\ ret' = "err" /\ call' = NoCall
                 /\ UNCHANGED <<kernel, phase>>
    /\ UNCHANGED maps

(***************************************************************************)
(* "shmem <name> <size> [huge]": get_shm_segment() fixes the page size and *)
(* creates the shared memory; failure (a size of 0 among them) frees the   *)
(* slot.                                                                   *)
(***************************************************************************)
ShmSegment(name, length, huge) ==
    LET ps == IF huge THEN HugePageSize ELSE PageSize
    IN  [NewSegment("shm", name, 0, round_up(length, ps),
                    {"shared"} \cup (IF huge THEN {"huge"} ELSE {}))
         EXCEPT !.pagesize = ps]

RegisterShm(name, length, huge) ==
    /\ Running
    /\ \E mem1, mem2 \in Calloc :
          LET t   == ClaimSlot(Table, name, mem1, mem2)
              seg == ShmSegment(name, length, huge)
          IN  \/ NotRegistered(t)
              \/ /\ t.slot \in Slot /\ seg.length > 0
                 /\ \E id \in ShmIds \ shm :
                       /\ Become(Put(t.table, t.slot, [seg EXCEPT !.shmid = id]))
                       /\ shm' = shm \cup {id}
                 /\ ret' = "ok" /\ call' = NoCall
                 /\ UNCHANGED <<vm, fds, fsize, phase>>
              \/ /\ t.slot \in Slot
                 /\ Become(free_seg_slot(t.table, t.slot))
                 /\ ret' = "err" /\ call' = NoCall
                 /\ UNCHANGED <<kernel, phase>>
    /\ UNCHANGED maps

(***************************************************************************)
(* get_task_segments(): register the next line of /proc/<mypid>/maps.  It  *)
(* is already mapped; a name seen before is ignored and reported as        *)
(* success, a full table is ignored too.  seg_pagesize stays 0.  A fault   *)
(* here is before main() installs any handler.                             *)
(***************************************************************************)
TaskSegment(m) ==
    [NewSegment(m.type, m.name, m.offset, m.length, {"private", "maps"})
     EXCEPT !.start = m.start,
            !.prot = IF m.type = "file" THEN {"r", "w", "x"} ELSE {"r", "w"}]

get_task_segments ==
    /\ phase = "run" /\ maps # <<>>
    /\ \E mem1, mem2 \in Calloc :
          LET m == Head(maps)
              t == ClaimSlot(Table, m.name, mem1, mem2)
          IN  \/ /\ t.slot \in {Taken, Null}
                 /\ Become(t.table) /\ UNCHANGED phase
              \/ /\ t.slot = Crash
                 /\ Become(t.table) /\ phase' = "killed"
              \/ /\ t.slot \in Slot
                 /\ Become(Put(t.table, t.slot, TaskSegment(m))) /\ UNCHANGED phase
    /\ maps' = Tail(maps)
    /\ ret' = "ok" /\ call' = NoCall
    /\ UNCHANGED kernel

-----------------------------------------------------------------------------
(***************************************************************************)
(* Operations on a named segment.  Each starts with segment_get(); Miss is *)
(* the error they all report when there is no such segment, and Hit(n, s)  *)
(* the lookup that finds it in slot s.                                     *)
(***************************************************************************)
Miss(name) ==
    /\ Running
    /\ Named(seglist, name) = {}
    /\ \E mem \in Calloc : Become(segment_get(Table, name, mem))
    /\ ret' = "err" /\ call' = NoCall
    /\ UNCHANGED <<maps, kernel, phase>>

Hit(name, s) ==
    /\ Running
    /\ Named(seglist, name) # {}
    /\ s = Lowest(Named(seglist, name))

\* The table after a successful lookup (no slot is allocated on a hit).
Found(name) == segment_get(Table, name, TRUE)

\* An operation that only reports: an error found before any system call,
\* or one whose system call changes nothing modelled here.
Report(name, r) ==
    /\ Become(Found(name))
    /\ ret' = r /\ call' = NoCall
    /\ UNCHANGED <<maps, kernel, phase>>

IsMaps(s)   == "maps" \in seglist[s].flags
IsMapped(s) == seglist[s].type # "none" /\ seglist[s].start # MAP_FAILED

segment_show(name) == \E s \in Slot : Hit(name, s) /\ Report(name, "ok")

(***************************************************************************)
(* unmap_segment(): munmap() drops every page of the recorded range,       *)
(* whoever mapped it; shmdt() only what is still attached.                 *)
(***************************************************************************)
Unmapped(s) ==
    LET seg  == seglist[s]
        gone == {p \in PagesIn(seg.start, seg.length) :
                    seg.type = "shm" => vm[p].owner = s}
    IN  IF seg.start = MAP_FAILED \/ IsMaps(s) THEN vm
        ELSE [p \in Pages |-> IF p \in gone THEN Free ELSE vm[p]]

segment_unmap(name) ==
    \E s \in Slot :
        /\ Hit(name, s)
        /\ \/ IsMaps(s) /\ Report(name, "err")
           \/ /\ ~IsMaps(s)
              /\ Become(Put(Found(name), s, [seglist[s] EXCEPT !.start = MAP_FAILED]))
              /\ vm' = Unmapped(s)
              /\ ret' = "ok" /\ call' = NoCall
              /\ UNCHANGED <<maps, shm, fds, fsize, phase>>

\* Faulty: segments of the task's own image can be removed.
segment_remove_any(name) ==
    \E s \in Slot :
        /\ Hit(name, s)
        /\ Become(free_seg_slot(Found(name), s))
        /\ ret' = "ok" /\ call' = NoCall
        /\ UNCHANGED <<maps, kernel, phase>>

\* Faulty: the slot is freed and the mapping stays.
segment_remove_mapped(name) ==
    \E s \in Slot :
        /\ Hit(name, s) /\ ~IsMaps(s)
        /\ Become(free_seg_slot(Found(name), s))
        /\ fds' = fds \ ClosedBy(seglist[s])
        /\ shm' = shm \ RemovedBy(seglist[s])
        /\ ret' = "ok" /\ call' = NoCall
        /\ UNCHANGED <<maps, vm, fsize, phase>>

segment_remove(name) ==
    \E s \in Slot :
        /\ Hit(name, s)
        /\ \/ IsMaps(s) /\ Report(name, "err")
           \/ /\ ~IsMaps(s)
              /\ Become(free_seg_slot(Found(name), s))
              /\ vm' = Unmapped(s)
              /\ fds' = fds \ ClosedBy(seglist[s])
              /\ shm' = shm \ RemovedBy(seglist[s])
              /\ ret' = "ok" /\ call' = NoCall
              /\ UNCHANGED <<maps, fsize, phase>>

(***************************************************************************)
(* What the map command records before it calls the kernel: for anon and   *)
(* file segments the page size, the rounded length and offset and, if any  *)
(* was given, the new sharing; for a file also the range given on the      *)
(* command, and a length of 0 stands for the rest of the file.  All of it  *)
(* stays recorded when the mapping then fails.                             *)
(***************************************************************************)
Sized(seg) ==
    [seg EXCEPT !.pagesize = PageSize,
                !.length   = round_up(seg.length, PageSize),
                !.offset   = round_down(seg.offset, PageSize)]

Shared(seg, share) == IF share = {} THEN seg ELSE [seg EXCEPT !.flags = share]

Ranged(seg, range) ==
    IF range = <<>> THEN seg
    ELSE [seg EXCEPT !.offset = range[1], !.length = range[2]]

ToEndOfFile(seg, size) ==
    IF seg.offset > size \/ seg.length # 0 THEN seg
    ELSE [seg EXCEPT !.length = (round_up(size, PageSize) - seg.offset) % Word]

ReadyToMap(seg, range, share, size) ==
    CASE seg.type = "anon" -> Sized(Shared(seg, share))
      [] seg.type = "file" -> ToEndOfFile(Sized(Ranged(Shared(seg, share), range)), size)
      [] OTHER             -> seg

(***************************************************************************)
(* The addresses the kernel may answer with: an anonymous segment with a   *)
(* nonzero offset goes exactly there (MAP_FIXED), over whatever is there;  *)
(* anything else goes where the pages are free.  No place: no mapping.     *)
(***************************************************************************)
Fits(start, length) == length > 0 /\ start + length =< (NPages + 1) * PageSize

Places(seg, size) ==
    LET starts == {p * PageSize : p \in Pages}
    IN  IF seg.type = "anon" /\ seg.offset # 0
        THEN {a \in starts : a = seg.offset /\ Fits(a, seg.length)}
        ELSE {a \in starts : /\ Fits(a, seg.length)
                             /\ a % seg.pagesize = 0
                             /\ \A p \in PagesIn(a, seg.length) : vm[p] = Free
                             /\ seg.type = "file" => seg.offset =< size}

\* mmap() gets the recorded protection, shmat() always attaches read-write.
MapProt(seg) == IF seg.type = "shm" THEN {"r", "w"} ELSE seg.prot

segment_map(name, range, share) ==
    \E s \in Slot :
        /\ Hit(name, s)
        /\ \/ IsMapped(s) /\ Report(name, "ok")
           \/ /\ ~IsMapped(s)
              /\ \E size \in {BOGUS_SIZE} \cup (IF name \in FileNames THEN {fsize[name]} ELSE {}) :
                    LET seg == ReadyToMap(seglist[s], range, share, size)
                    IN  \/ /\ \E a \in Places(seg, size) :
                                 /\ Become(Put(Found(name), s, [seg EXCEPT !.start = a]))
                                 /\ vm' = [p \in Pages |->
                                             IF p \in PagesIn(a, seg.length)
                                             THEN [owner |-> s, prot |-> MapProt(seg)]
                                             ELSE vm[p]]
                           /\ ret' = "ok"
                        \/ /\ Become(Put(Found(name), s, seg))
                           /\ ret' = "err" /\ UNCHANGED vm
              /\ call' = NoCall
              /\ UNCHANGED <<maps, shm, fds, fsize, phase>>

(***************************************************************************)
(* mprotect() of the whole recorded range.  The kernel refuses an          *)
(* unaligned start (MAP_FAILED among them); it stops with an error at the  *)
(* first hole, the pages before it already changed.  Only full success is  *)
(* recorded in seg_prot.                                                   *)
(***************************************************************************)
Protected(S, prot) == [p \in Pages |-> IF p \in S THEN [vm[p] EXCEPT !.prot = prot] ELSE vm[p]]

\* Faulty: the protection is recorded when mprotect() has failed.
segment_mprotect_records(name, prot) ==
    \E s \in Slot :
        /\ Hit(name, s)
        /\ Become(Put(Found(name), s, [seglist[s] EXCEPT !.prot = prot]))
        /\ ret' = "err" /\ call' = NoCall
        /\ UNCHANGED <<maps, kernel, phase>>

segment_mprotect(name, prot) ==
    \E s \in Slot :
        /\ Hit(name, s)
        /\ LET range  == PagesIn(seglist[s].start, seglist[s].length)
               prefix == {p \in range : \A q \in range : q =< p => vm[q] # Free}
           IN  \/ /\ seglist[s].start # MAP_FAILED /\ prefix = range
                  /\ Become(Put(Found(name), s, [seglist[s] EXCEPT !.prot = prot]))
                  /\ vm' = Protected(range, prot)
                  /\ ret' = "ok" /\ call' = NoCall
                  /\ UNCHANGED <<maps, shm, fds, fsize, phase>>
               \/ /\ Become(Found(name))
                  /\ vm' \in {vm, Protected(IF prefix = range THEN {} ELSE prefix, prot)}
                  /\ ret' = "err" /\ call' = NoCall
                  /\ UNCHANGED <<maps, shm, fds, fsize, phase>>

-----------------------------------------------------------------------------
(***************************************************************************)
(* Operations on a range of a segment.                                     *)
(***************************************************************************)
Accepted(s, offset) == RangeAccepted(offset, seglist[s].length, seglist[s].pagesize)

\* The bytes handed to touch_memory(), mbind(), mlock(), get_mempolicy().
CallStart(s, offset) ==
    (seglist[s].start + ClipOffset(offset, seglist[s].pagesize)) % Word
CallLength(s, offset, length) ==
    ClipLength(offset, length, seglist[s].length, seglist[s].pagesize)

\* The range is clipped and used: op is "touch" for memory accesses by the
\* program itself and "sys" for a system call.
UseRange(name, op, s, offset, length, r) ==
    /\ Become(Found(name))
    /\ ret' = r
    /\ call' = [op |-> op, slot |-> s, start |-> CallStart(s, offset),
                length |-> CallLength(s, offset, length)]
    /\ UNCHANGED <<maps, kernel, phase>>

(***************************************************************************)
(* segment_touch().  There is no check that the segment is mapped.  With a *)
(* page size of 0 the loop of touch_memory() does not advance: over a      *)
(* readable first page it runs until a signal stops it, over anything else *)
(* it ends at once; either way the division by the page size that follows  *)
(* is fatal.                                                               *)
(***************************************************************************)
segment_touch(name, offset, length, rw) ==
    \E s \in Slot :
        LET refused == (rw /\ IsMaps(s)) \/ ~Accepted(s, offset)
            prot    == UNION {vm[p].prot : p \in PagesIn(seglist[s].start, PageSize)}
        IN  /\ Hit(name, s)
            /\ \/ refused /\ Report(name, "err")
               \/ /\ ~refused /\ seglist[s].pagesize # 0
                  /\ UseRange(name, "touch", s, offset, length, "ok")
               \/ /\ ~refused /\ seglist[s].pagesize = 0 /\ prot # {}
                  /\ Become(Found(name)) /\ phase' = "spin" /\ call' = NoCall
                  /\ UNCHANGED <<maps, kernel, ret>>
               \/ /\ ~refused /\ seglist[s].pagesize = 0 /\ "r" \notin prot
                  /\ DieBySignal /\ UNCHANGED <<seg_avail, ret>>

\* Any handled signal ends the loop, and the division follows.
Interrupt ==
    /\ phase = "spin"
    /\ DieBySignal
    /\ UNCHANGED <<seg_avail, ret>>

segment_mbind(name, offset, length) ==
    \E s \in Slot :
        LET refused == ~IsMapped(s) \/ ~Accepted(s, offset)
        IN  /\ Hit(name, s)
            /\ \/ refused /\ Report(name, "err")
               \/ ~refused /\ \E r \in {"ok", "err"} :
                                 UseRange(name, "sys", s, offset, length, r)

(***************************************************************************)
(* segment_location(): a length that was not given is 64 pages, and the    *)
(* first page's number is found by dividing by the page size.              *)
(***************************************************************************)
segment_location(name, offset, length) ==
    \E s \in Slot :
        LET refused == ~IsMapped(s) \/ ~Accepted(s, offset)
            ps      == seglist[s].pagesize
            len     == IF length = DEFAULT_LENGTH THEN (64 * ps) % Word ELSE length
        IN  /\ Hit(name, s)
            /\ \/ refused /\ Report(name, "err")
               \/ ~refused /\ ps # 0 /\ \E r \in {"ok", "err"} :
                                 UseRange(name, "sys", s, offset, len, r)
               \/ /\ ~refused /\ ps = 0
                  /\ DieBySignal /\ UNCHANGED <<seg_avail, ret>>

\* wholeShm: SHM_LOCK and SHM_UNLOCK take no range but need shared memory.
segment_lock_unlock(name, offset, length, wholeShm) ==
    \E s \in Slot :
        LET refused == \/ ~IsMapped(s)
                       \/ IF wholeShm THEN seglist[s].type # "shm" ELSE ~Accepted(s, offset)
        IN  /\ Hit(name, s)
            /\ \/ refused /\ Report(name, "err")
               \/ ~refused /\ wholeShm /\ \E r \in {"ok", "err"} : Report(name, r)
               \/ ~refused /\ ~wholeShm /\ \E r \in {"ok", "err"} :
                                 UseRange(name, "sys", s, offset, length, r)

-----------------------------------------------------------------------------
\* quit, or end of input: cleanup() is registered with atexit().
Exit ==
    /\ Running
    /\ ret' = "ok"
    /\ ExitWith(Table)

\* Another process changes the size of a file.
Resize(name, size) ==
    /\ Running
    /\ fsize[name] # size
    /\ fsize' = [fsize EXCEPT ![name] = size]
    /\ UNCHANGED <<seglist, seg_avail, maps, vm, shm, fds, ret, call, phase>>

TaskPages == UNION {PagesIn(TaskMaps[i].start, TaskMaps[i].length) : i \in DOMAIN TaskMaps}

Init ==
    /\ seglist = <<>> /\ seg_avail = Null
    /\ maps = TaskMaps
    /\ vm = [p \in Pages |-> IF p \in TaskPages THEN [owner |-> Task, prot |-> {"r"}]
                             ELSE Free]
    /\ shm = {} /\ fds = {}
    /\ fsize \in [FileNames -> FileSizes]
    /\ ret = "ok" /\ call = NoCall /\ phase = "run"

Ranges == {<<>>} \cup (Offsets \X Lengths)

Register ==
    \/ \E n \in Names, o \in Addrs, l \in Lengths, sh \in Shares : RegisterAnon(n, o, l, sh)
    \/ \E n \in Names, m \in Anchors, l \in Lengths, sh \in Shares :
          RegisterAnonAfter(n, m, l, sh)
    \/ \E n \in FileNames, o \in Offsets, l \in Lengths, sh \in Shares :
          RegisterFile(n, o, l, sh)
    \/ \E n \in Names, l \in Lengths, huge \in BOOLEAN : RegisterShm(n, l, huge)

Operate ==
    \E n \in Names :
        \/ Miss(n) \/ segment_show(n) \/ segment_remove(n) \/ segment_unmap(n)
        \/ \E r \in Ranges, sh \in {{}} \cup {{x} : x \in Shares} : segment_map(n, r, sh)
        \/ \E prot \in Prots : segment_mprotect(n, prot)
        \/ \E o \in Offsets, l \in Lengths \cup {DEFAULT_LENGTH} : segment_location(n, o, l)
        \/ \E o \in Offsets, l \in Lengths :
              \/ \E rw \in BOOLEAN : segment_touch(n, o, l, rw)
              \/ segment_mbind(n, o, l)
              \/ \E wholeShm \in BOOLEAN : segment_lock_unlock(n, o, l, wholeShm)

Next ==
    \/ get_task_segments
    \/ Register
    \/ Operate
    \/ Interrupt
    \/ Exit
    \/ \E n \in FileNames, z \in FileSizes : Resize(n, z)

Spec == Init /\ [][Next]_vars

-----------------------------------------------------------------------------
InUse(s) == seglist[s].type # "none"
Alive    == phase \in {"run", "spin"}

\* The variables hold values of the code's types; a slot number always names
\* an allocated slot, and the array's terminating NULL is never overwritten.
TypeOK ==
    /\ seglist \in Seq(Segment) /\ Len(seglist) =< MaxSegments
    /\ seg_avail \in {Null} \cup DOMAIN seglist
    /\ vm \in [Pages -> [owner : {Null, Task} \cup Slot, prot : SUBSET {"r", "w", "x"}]]
    /\ shm \subseteq ShmIds /\ fds \subseteq Fds
    /\ fsize \in [FileNames -> FileSizes]
    /\ ret \in {"ok", "err", "full"}
    /\ call \in [op : {"none", "touch", "sys"}, slot : {Null} \cup Slot,
                start : Size, length : Size]
    /\ phase \in {"run", "spin", "exited", "killed"}

(***************************************************************************)
(* The slot saved in seg_avail by segment_get and free_seg_slot is free: a *)
(* registration, which takes it without a look, never overwrites a segment *)
(* that is in use.                                                         *)
(***************************************************************************)
AvailFree == seg_avail # Null => ~InUse(seg_avail)

(***************************************************************************)
(* segment_register's "ensure unique name" works: no two segments in use   *)
(* have the same name, so a name always means one segment.                 *)
(***************************************************************************)
UniqueNames ==
    \A s, t \in DOMAIN seglist :
        InUse(s) /\ InUse(t) /\ seglist[s].name = seglist[t].name => s = t

(***************************************************************************)
(* No slot is lost: get_seg_slot reports "segment table full" only when    *)
(* all MAX_SEGMENTS slots hold a segment.                                  *)
(***************************************************************************)
FullMeansFull ==
    ret = "full" => Len(seglist) = MaxSegments /\ \A s \in DOMAIN seglist : InUse(s)

(***************************************************************************)
(* The shared memory ids the program created are exactly those recorded in *)
(* the table, each once, and none is left after exit(): segment_cleanup    *)
(* finds them all.                                                         *)
(***************************************************************************)
ShmSlots == {s \in DOMAIN seglist : seglist[s].type = "shm"}

ShmAccounted ==
    /\ shm = {seglist[s].shmid : s \in ShmSlots}
    /\ \A s, t \in ShmSlots : seglist[s].shmid = seglist[t].shmid => s = t
    /\ phase = "exited" => shm = {}

(***************************************************************************)
(* The open files are exactly those of the registered file segments, each  *)
(* once: a failed open_file or a remove leaks no descriptor.               *)
(***************************************************************************)
FileSlots == {s \in DOMAIN seglist : seglist[s].type = "file" /\ ~IsMaps(s)}

FdsAccounted ==
    Alive => /\ fds = {seglist[s].fd : s \in FileSlots}
             /\ \A s, t \in FileSlots : seglist[s].fd = seglist[t].fd => s = t

(***************************************************************************)
(* No mapping is orphaned: a page some segment mapped lies in the range    *)
(* that segment records, so unmap and remove give it back -- also after    *)
(* failed maps, remaps with other ranges and MAP_FIXED overlaps.           *)
(***************************************************************************)
NoOrphanPage ==
    \A p \in Pages : vm[p].owner \in Slot =>
        LET s == vm[p].owner
        IN  /\ s \in DOMAIN seglist /\ IsMapped(s)
            /\ p \in PagesIn(seglist[s].start, seglist[s].length)

(***************************************************************************)
(* As long as nobody asks for fixed addresses, a mapped segment still has  *)
(* every page it records (no operation on another segment took one), and   *)
(* for anon and file segments with the protection "show" prints.           *)
(***************************************************************************)
OwnerOf(s) == IF IsMaps(s) THEN Task ELSE s

MappedIntact ==
    Alive => \A s \in DOMAIN seglist : IsMapped(s) =>
        \A p \in PagesIn(seglist[s].start, seglist[s].length) :
            /\ vm[p].owner = OwnerOf(s)
            /\ seglist[s].type # "shm" /\ ~IsMaps(s) => vm[p].prot = seglist[s].prot

(***************************************************************************)
(* A range given to mbind, mlock or get_mempolicy, or touched while the    *)
(* segment is mapped, is never empty and, as long as nobody asks for fixed *)
(* addresses, all of it is memory of the named segment.  (touch does not   *)
(* check that the segment is mapped, the others do.)                       *)
(***************************************************************************)
CallsInside ==
    call.op = "sys" \/ (call.op = "touch" /\ IsMapped(call.slot)) =>
        /\ call.length > 0
        /\ call.start % PageSize = 0
        /\ call.start + call.length =< (NPages + 1) * PageSize
        /\ \A p \in PagesIn(call.start, call.length) : vm[p].owner = OwnerOf(call.slot)

(***************************************************************************)
(* The table implements SegmentNames.  A name stands for the segment in    *)
(* use that has it; slots, the saved slot and the kernel are hidden.  So   *)
(* no operation puts one segment in another's place, loses one, invents    *)
(* one, or takes away a segment of the task's own image, and what an       *)
(* operation reports is true of the names.                                 *)
(***************************************************************************)
InUseNames == {seglist[s].name : s \in {t \in DOMAIN seglist : InUse(t)}}

Abstraction(s) ==
    [type |-> seglist[s].type, task |-> IsMaps(s), mapped |-> IsMapped(s)]

Promise == INSTANCE SegmentNames WITH
    segs  <- [n \in InUseNames |-> Abstraction(Lowest(Named(seglist, n)))],
    ret   <- ret,
    phase <- IF ~Alive THEN "ended" ELSE IF maps # <<>> THEN "loading" ELSE "open"

TableImplemented == Promise!Spec

\* touch and where of a segment that exists end, with success or an error.
RangeOpsReturn == phase \notin {"spin", "killed"}

=============================================================================
