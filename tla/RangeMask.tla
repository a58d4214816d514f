----------------------------- MODULE RangeMask ------------------------------
(***************************************************************************)
(* The rounding of segment.c as the code computes it, with a bit mask in   *)
(* size_t arithmetic, against the arithmetic of SegmentRange that the      *)
(* other modules use, on the ranges of UserRange.                          *)
(***************************************************************************)
EXTENDS UserRange, Bits

CONSTANT
    WordBits    \* bits of a size_t, 64 in the code

ASSUME RangeMaskAssumption ==
    /\ WordBits \in Nat /\ Word = Pow2[WordBits]
    /\ \A ps \in PageSizes \ {0} : \E k \in 0 .. WordBits : ps = Pow2[k]

Complement(x) == Word - 1 - x

\* Faulty: the page size itself as the mask.
pagemask_off(pagesize) == pagesize

pagemask(pagesize) == (pagesize - 1) % Word

round_down_to_segment_pagesize(size, pagesize) ==
    And(size, Complement(pagemask(pagesize)), WordBits)

round_up_to_segment_pagesize(size, pagesize) ==
    And((size + pagemask(pagesize)) % Word, Complement(pagemask(pagesize)), WordBits)

-----------------------------------------------------------------------------
(***************************************************************************)
(* Both ways of rounding agree for every page size, 0 included.            *)
(***************************************************************************)
MaskIsRounding ==
    \A ps \in PageSizes :
        /\ round_down_to_segment_pagesize(length, ps) = round_down(length, ps)
        /\ round_up_to_segment_pagesize(length, ps) = round_up(length, ps)

=============================================================================
