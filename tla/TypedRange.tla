----------------------------- MODULE TypedRange -----------------------------
(***************************************************************************)
(* The sizes and ranges a user types, as commands.c reads them.            *)
(*                                                                         *)
(* A typed word is a record whose field k says what it looks like.  A      *)
(* "num" is a number as strtoul() sees it, with the character after it:    *)
(* num is the number written, of any size, neg says that a minus sign      *)
(* comes first, and scale is the next character ("" at the end of the      *)
(* word, "?" for one that is no scale factor).  Text after the scale is    *)
(* not looked at.  A scale letter alone reads as 0, as Minus(0, "k") does. *)
(* A "star" begins with '*'.  Arguments are a sequence of words: splitting *)
(* a line at white space is not modelled.                                  *)
(***************************************************************************)
EXTENDS SegmentRange, Sequences

CONSTANTS
    PageSize,   \* gcp->pagesize
    Kilo        \* 1 << KILO_SHIFT, 1024 in the code

ASSUME ScaleAssumption == PageSize \in Nat \ {0} /\ Kilo \in Nat \ {0}

Num(n, s)   == [k |-> "num", neg |-> FALSE, num |-> n, scale |-> s]
Minus(n, s) == [k |-> "num", neg |-> TRUE, num |-> n, scale |-> s]

\* an unsigned long: too large a number saturates, a minus sign negates
strtoul(w) ==
    IF w.num >= Word THEN Word - 1
    ELSE IF w.neg THEN (Word - w.num) % Word ELSE w.num

\* Faulty: 'm' is scaled like 'k'.
size_kmgp_m(w) ==
    CASE w.scale = ""  -> strtoul(w)
      [] w.scale = "p" -> (strtoul(w) * PageSize) % Word
      [] w.scale \in {"k", "m"} -> (strtoul(w) * Kilo) % Word
      [] w.scale = "g" -> (strtoul(w) * Kilo * Kilo * Kilo) % Word
      [] OTHER         -> BOGUS_SIZE

\* multiplication and shifts wrap around
size_kmgp(w) ==
    CASE w.scale = ""  -> strtoul(w)
      [] w.scale = "p" -> (strtoul(w) * PageSize) % Word
      [] w.scale = "k" -> (strtoul(w) * Kilo) % Word
      [] w.scale = "m" -> (strtoul(w) * Kilo * Kilo) % Word
      [] w.scale = "g" -> (strtoul(w) * Kilo * Kilo * Kilo) % Word
      [] OTHER         -> BOGUS_SIZE

\* BOGUS_SIZE is the error; any word that is no number has no scale either.
get_scaled_value(w) == IF w.k = "num" THEN size_kmgp(w) ELSE BOGUS_SIZE

\* isdigit() of the first character
StartsWithDigit(args) ==
    /\ args # <<>>
    /\ \/ Head(args).k = "num" /\ ~Head(args).neg
       \/ Head(args).k = "list"

RangeError  == [ok |-> FALSE, given |-> FALSE, offset |-> 0, length |-> 0, rest |-> <<>>]

(***************************************************************************)
(* get_range(): an optional <offset> <length>.  Only a digit begins one,   *)
(* an offset needs a length, and a length of '*' is 0: up to the end.      *)
(***************************************************************************)
get_range(args) ==
    IF ~StartsWithDigit(args)
    THEN [ok |-> TRUE, given |-> FALSE, offset |-> 0, length |-> 0, rest |-> args]
    ELSE LET offset == get_scaled_value(args[1])
             length == IF args[2].k = "star" THEN 0 ELSE get_scaled_value(args[2])
         IN  IF offset = BOGUS_SIZE \/ Len(args) = 1 THEN RangeError
             ELSE IF length = BOGUS_SIZE THEN RangeError
             ELSE [ok |-> TRUE, given |-> TRUE, offset |-> offset, length |-> length,
                   rest |-> SubSeq(args, 3, Len(args))]

=============================================================================
