---------------------------- MODULE SegmentNames ----------------------------
(***************************************************************************)
(* What segment.h promises its callers: a bounded table from names to      *)
(* segments.  Nothing is said of slots, of the slot saved ahead of need,   *)
(* or of the kernel; SegmentTable implements this.                         *)
(***************************************************************************)
EXTENDS Naturals, FiniteSets, Functions

CONSTANTS Names, MaxSegments

VARIABLES
    segs,       \* registered name -> [type, task, mapped]
    ret,        \* what the last operation reported
    phase       \* "loading" the task's maps, "open", or "ended"

vars == <<segs, ret, phase>>

Types   == {"anon", "file", "shm"}
Segment == [type : Types, task : BOOLEAN, mapped : BOOLEAN]

Known(n) == n \in DOMAIN segs
Room     == Cardinality(DOMAIN segs) < MaxSegments

With(n, seg) == [m \in DOMAIN segs \cup {n} |-> IF m = n THEN seg ELSE segs[m]]

Says(r) == phase = "open" /\ ret' = r /\ UNCHANGED phase

\* segment_register(): a known name is an error, "full" means full, a new
\* segment is not mapped, and a failure leaves no trace
Register(n, type) ==
    \/ Known(n) /\ Says("err") /\ UNCHANGED segs
    \/ ~Known(n) /\ ~Room /\ Says("full") /\ UNCHANGED segs
    \/ ~Known(n) /\ Room /\ Says("err") /\ UNCHANGED segs
    \/ /\ ~Known(n) /\ Room /\ Says("ok")
       /\ segs' = With(n, [type |-> type, task |-> FALSE, mapped |-> FALSE])

\* a line of the task's maps: mapped, and ignored when there is no place
Load(n, type) ==
    /\ phase = "loading" /\ phase' \in {"loading", "open", "ended"} /\ ret' = "ok"
    /\ \/ UNCHANGED segs
       \/ /\ ~Known(n) /\ Room
          /\ segs' = With(n, [type |-> type, task |-> TRUE, mapped |-> TRUE])

\* an operation that leaves the table alone succeeds only on a known name
Use(n) == (Says("err") \/ (Known(n) /\ Says("ok"))) /\ UNCHANGED segs

Map(n) ==
    /\ Known(n) /\ Says("ok")
    /\ segs' = [segs EXCEPT ![n].mapped = TRUE]

\* the task's own segments are neither unmapped nor removed
Unmap(n) ==
    /\ Known(n) /\ ~segs[n].task /\ Says("ok")
    /\ segs' = [segs EXCEPT ![n].mapped = FALSE]

Remove(n) ==
    /\ Known(n) /\ ~segs[n].task /\ Says("ok")
    /\ segs' = Restrict(segs, DOMAIN segs \ {n})

\* segment_cleanup(), or death by a signal
End ==
    /\ phase = "open" /\ phase' = "ended" /\ ret' \in {"ok", "err", ret}
    /\ segs' \in {segs, Restrict(segs, {n \in DOMAIN segs : segs[n].type # "shm"})}

Init == segs = <<>> /\ ret = "ok" /\ phase \in {"loading", "open"}

Next ==
    \/ \E n \in Names :
          \/ \E type \in Types : Register(n, type) \/ Load(n, type)
          \/ Use(n) \/ Map(n) \/ Unmap(n) \/ Remove(n)
    \/ End

Spec == Init /\ [][Next]_vars

=============================================================================
