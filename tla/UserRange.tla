----------------------------- MODULE UserRange ------------------------------
(***************************************************************************)
(* The range a user types, what get_range() makes of it, and what rounding *)
(* and clipping that range to a segment means for the bytes the user asked *)
(* for.  The state is the two words typed, enumerated, and the range.      *)
(***************************************************************************)
EXTENDS TypedRange

CONSTANTS
    PageSizes,      \* powers of two, and 0
    MaxNum          \* bound: the largest number written

\* Word is a power of two as well, so every page size divides it.
ASSUME UserRangeAssumption ==
    /\ PageSizes \subseteq Size /\ MaxNum \in Nat
    /\ \A ps \in PageSizes \ {0} : Word % ps = 0

VARIABLES
    args,           \* the two words typed
    range           \* what get_range() made of them, or Untyped

vars == <<args, range>>

Scales  == {"", "p", "k", "m", "g", "?"}
Numbers == {Num(n, s) : n \in 0 .. MaxNum, s \in Scales}
Untyped == [ok |-> FALSE, given |-> TRUE, offset |-> 0, length |-> 0, rest |-> <<>>]

offset == range.offset
length == range.length

Init ==
    /\ args \in Numbers \X (Numbers \cup {Minus(1, ""), Minus(2, ""), [k |-> "star"]})
    /\ range = Untyped

Parse == range = Untyped /\ range' = get_range(args) /\ UNCHANGED args

Next == Parse

Spec == Init /\ [][Next]_vars

-----------------------------------------------------------------------------
(***************************************************************************)
(* Rounding up gives the smallest multiple of the page size that is no     *)
(* less, or wraps around to 0 when no size_t is.                           *)
(***************************************************************************)
RoundsToNextPage ==
    \A ps \in PageSizes \ {0} :
        LET above == {m \in Size : m >= length /\ m % ps = 0}
        IN  IF above = {} THEN round_up(length, ps) = 0
            ELSE /\ round_up(length, ps) \in above
                 /\ \A m \in above : round_up(length, ps) =< m

(***************************************************************************)
(* The bytes of a segment of seglen bytes from offset on, length of them,  *)
(* or all the rest for a length of 0; and the bytes the clipped range has. *)
(***************************************************************************)
Asked(seglen) ==
    {b \in 0 .. seglen - 1 : b >= offset /\ (length # 0 => b < offset + length)}
Clipped(seglen, ps) ==
    LET first == ClipOffset(offset, ps)
    IN  first .. first + ClipLength(offset, length, seglen, ps) - 1

SegLengths(ps) == {n \in Size : n % ps = 0}

(***************************************************************************)
(* A clipped range never leaves the segment, and if the user's offset is   *)
(* page aligned it has every byte of the segment the user asked for.  With *)
(* an unaligned offset it need not: offset and length are rounded apart.   *)
(***************************************************************************)
ClipsInside ==
    \A ps \in PageSizes \ {0} : \A seglen \in SegLengths(ps) :
        RangeAccepted(offset, seglen, ps) =>
            /\ Clipped(seglen, ps) # {} /\ Clipped(seglen, ps) \subseteq 0 .. seglen - 1
            /\ offset % ps = 0 => Asked(seglen) \subseteq Clipped(seglen, ps)

(***************************************************************************)
(* get_range() keeps what the user typed: numbers with a scale factor, and *)
(* '*', whose product a size_t can hold are accepted and are exactly what  *)
(* the command works on; only SIZE_MAX itself, which is the error value,   *)
(* is refused.  A product that does not fit wraps around silently.         *)
(***************************************************************************)
Factor(w) ==
    CASE w.scale = "" -> 1 [] w.scale = "p" -> PageSize
      [] w.scale = "k" -> Kilo [] w.scale = "m" -> Kilo * Kilo [] w.scale = "g" -> Kilo * Kilo * Kilo

Meant(w) == IF w.k = "star" THEN 0 ELSE w.num * Factor(w)

Plausible(w) == w.k = "num" => ~w.neg /\ w.scale # "?"

TypedRangeKept ==
    /\ range # Untyped /\ Plausible(args[1]) /\ Plausible(args[2])
    /\ Meant(args[1]) < Word /\ Meant(args[2]) < Word
    => /\ range.ok <=> Meant(args[1]) # BOGUS_SIZE /\ Meant(args[2]) # BOGUS_SIZE
       /\ range.ok => offset = Meant(args[1]) /\ length = Meant(args[2])

=============================================================================
