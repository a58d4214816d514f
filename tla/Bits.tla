-------------------------------- MODULE Bits --------------------------------
(***************************************************************************)
(* The bits of a number, as the masks of memtoy use them.  Powers of two   *)
(* are a recursive function, so that facts about them can be proved.       *)
(***************************************************************************)
EXTENDS Integers

Pow2[n \in Nat] == IF n = 0 THEN 1 ELSE 2 * Pow2[n - 1]

Bit(n, b) == (n \div Pow2[b]) % 2 = 1

\* The bits that x and y have in common, below each of the lowest w.
Common(x, y, w) ==
    LET low[i \in 0 .. w] ==
          IF i = 0 THEN 0
          ELSE low[i - 1] + (IF Bit(x, i - 1) /\ Bit(y, i - 1) THEN Pow2[i - 1] ELSE 0)
    IN  low

And(x, y, w) == Common(x, y, w)[w]

=============================================================================
