---------------------------- MODULE SegmentRange ----------------------------
(***************************************************************************)
(* The size arithmetic of segment.c: rounding to a segment's page size and *)
(* the clipping of a user's <offset> <length> to a segment.                *)
(*                                                                         *)
(* size_t and addresses are the naturals below Word, and wrap around.  The *)
(* code rounds with a bit mask (pagesize - 1); for a power of two that is  *)
(* the arithmetic below, and for a page size of 0 (a segment that was      *)
(* never mapped, or one read from /proc/<pid>/maps) the mask is all ones   *)
(* and every size rounds to 0.  UserRangeProofs proves it of RangeMask.    *)
(***************************************************************************)
EXTENDS Integers

CONSTANT
    Word        \* number of values of a size_t: 2^64 in the code

ASSUME WordAssumption == Word \in Nat \ {0, 1}

Size == 0 .. Word - 1

\* (void *)-1 and (size_t)-1 are the same bits.
MAP_FAILED == Word - 1
BOGUS_SIZE == Word - 1

round_down(size, pagesize) ==
    IF pagesize = 0 THEN 0 ELSE size - (size % pagesize)

\* Faulty: a size that is a whole number of pages grows by one.
round_up_past(size, pagesize) ==
    IF pagesize = 0 THEN 0 ELSE round_down((size + pagesize) % Word, pagesize)

round_up(size, pagesize) ==
    IF pagesize = 0 THEN 0 ELSE round_down((size + pagesize - 1) % Word, pagesize)

\* Faulty: an offset just past the end is accepted.
RangeAccepted_at_end(offset, seglen, pagesize) == round_down(offset, pagesize) =< seglen

(***************************************************************************)
(* The clipping that segment_touch, segment_mbind, segment_location and    *)
(* segment_lock_unlock all repeat.  A range is refused when its rounded    *)
(* offset is past the end of the segment; otherwise the length is rounded  *)
(* up and silently truncated to the end of the segment.                    *)
(***************************************************************************)
RangeAccepted(offset, seglen, pagesize) == round_down(offset, pagesize) < seglen

ClipOffset(offset, pagesize) == round_down(offset, pagesize)

\* Faulty: the length is not truncated to the end of the segment.
ClipLength_unbounded(offset, length, seglen, pagesize) ==
    IF length = 0 THEN seglen - round_down(offset, pagesize) ELSE round_up(length, pagesize)

ClipLength(offset, length, seglen, pagesize) ==
    LET maxlength == seglen - round_down(offset, pagesize)
        rounded   == IF length = 0 THEN 0 ELSE round_up(length, pagesize)
    IN  IF rounded = 0 \/ rounded > maxlength THEN maxlength ELSE rounded

=============================================================================
