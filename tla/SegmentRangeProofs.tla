------------------------ MODULE SegmentRangeProofs --------------------------
(***************************************************************************)
(* What rounding and clipping promise, for every page size and segment;    *)
(* and the facts about numbers, loops and bits that other proofs use.      *)
(***************************************************************************)
EXTENDS SegmentRange, Bits, WellFoundedInduction, TLAPS

\* A set of numbers that is not empty has a least one.
LEMMA LeastNumber ==
    ASSUME NEW S, S \subseteq Nat, S # {}
    PROVE  \E d \in S : \A e \in S : d =< e
<1> DEFINE R == OpToRel(<, Nat)
<1>1. PICK d \in S : \A e \in S : ~(<<e, d>> \in R)
  <2> HIDE DEF R
  <2>1. IsWellFoundedOn(R, Nat)
    BY NatLessThanWellFounded DEF R
  <2> QED
    BY <2>1, WFMin
<1>2. \A e \in S : ~(e < d)
  BY <1>1 DEF OpToRel
<1> QED
  BY <1>2

\* Rounding down stays at or below the size, by less than a page.
LEMMA RoundDown ==
    ASSUME NEW size \in Nat, NEW ps \in Nat \ {0}
    PROVE  /\ round_down(size, ps) \in Nat
           /\ round_down(size, ps) =< size /\ size < round_down(size, ps) + ps
BY DEF round_down

\* Quotient and remainder.
LEMMA DivMod ==
    ASSUME NEW a \in Nat, NEW n \in Nat \ {0}
    PROVE  a = n * (a \div n) + (a % n) /\ a \div n \in Nat /\ a % n \in 0..n-1
OBVIOUS

\* A multiple leaves no remainder.
LEMMA MultMod ==
    ASSUME NEW q \in Nat, NEW n \in Nat \ {0}
    PROVE  (q * n) % n = 0
<1> DEFINE a == q * n
           d == a \div n
           m == a % n
<1>1. a \in Nat 
  OBVIOUS
<1>2. a = n * d + m /\ d \in Nat /\ m \in 0..n-1
  BY <1>1, DivMod
<1> HIDE DEF d, m
<1>3. n * (q - d) = m
  BY <1>2 DEF a
<1>4. q - d >= 1 => n * (q - d) >= n
  <2> SUFFICES ASSUME q - d >= 1 PROVE n * (q - d) >= n
    OBVIOUS
  <2>1. PICK k \in Nat : q - d = k + 1
    BY <1>2
  <2>2. n * (k + 1) = n * k + n /\ n * k >= 0
    OBVIOUS
  <2> QED
    BY <2>1, <2>2
<1>5. q - d =< -1 => n * (q - d) =< -n
  <2> SUFFICES ASSUME q - d =< -1 PROVE n * (q - d) =< -n
    OBVIOUS
  <2>1. PICK k \in Nat : d - q = k + 1
    BY <1>2
  <2>2. n * (k + 1) = n * k + n /\ n * k >= 0
    OBVIOUS
  <2>3. n * (q - d) = - (n * (d - q))
    BY <1>2
  <2> QED
    BY <2>1, <2>2, <2>3
<1>6. m = 0
  BY <1>2, <1>3, <1>4, <1>5
<1> QED
  BY <1>6 DEF m

\* What leaves no remainder is a multiple.
LEMMA Divides ==
    ASSUME NEW a \in Nat, NEW n \in Nat \ {0}, a % n = 0
    PROVE  \E q \in Nat : a = q * n
<1> DEFINE q == a \div n
<1>1. a = n * q + (a % n) /\ q \in Nat
  BY DivMod
<1> HIDE DEF q
<1>2. a = q * n
  BY <1>1
<1> QED
  BY <1>1, <1>2

\* The sum of two multiples is one.
LEMMA SumMod ==
    ASSUME NEW a \in Nat, NEW b \in Nat, NEW n \in Nat \ {0}, a % n = 0, b % n = 0
    PROVE  (a + b) % n = 0
<1>1. PICK p \in Nat : a = p * n
  BY Divides
<1>2. PICK q \in Nat : b = q * n
  BY Divides
<1>3. a + b = (p + q) * n /\ p + q \in Nat
  BY <1>1, <1>2
<1>4. ((p + q) * n) % n = 0
  BY <1>3, MultMod
<1> QED
  BY <1>3, <1>4

\* A multiple of a multiple is one.
LEMMA TransMod ==
    ASSUME NEW a \in Nat, NEW b \in Nat \ {0}, NEW n \in Nat \ {0}, b % n = 0, a % b = 0
    PROVE  a % n = 0
<1>1. PICK p \in Nat : a = p * b
  BY Divides
<1>2. PICK q \in Nat : b = q * n
  BY Divides
<1>3. a = (p * q) * n /\ p * q \in Nat
  BY <1>1, <1>2
<1>4. ((p * q) * n) % n = 0
  BY <1>3, MultMod
<1> QED
  BY <1>3, <1>4

\* What rounding down gives is a multiple of the page size.
LEMMA RoundMod ==
    ASSUME NEW a \in Nat, NEW n \in Nat \ {0}
    PROVE  round_down(a, n) % n = 0
<1> DEFINE q == a \div n
<1>1. a = n * q + (a % n) /\ q \in Nat
  BY DivMod
<1> HIDE DEF q
<1>2. round_down(a, n) = q * n
  BY <1>1 DEF round_down
<1>3. (q * n) % n = 0
  BY <1>1, MultMod
<1> QED
  BY <1>2, <1>3

(***************************************************************************)
(* The range that segment_touch, segment_mbind, segment_location and       *)
(* segment_lock_unlock use is not empty and ends inside the segment,       *)
(* whatever the user typed and however the rounded length wrapped around.  *)
(***************************************************************************)
THEOREM ClipInSegment ==
    ASSUME NEW offset \in Size, NEW length \in Size, NEW seglen \in Size,
           NEW ps \in Size, RangeAccepted(offset, seglen, ps)
    PROVE  /\ ClipLength(offset, length, seglen, ps) > 0
           /\ ClipOffset(offset, ps) + ClipLength(offset, length, seglen, ps) =< seglen
<1>1. offset \in Nat /\ length \in Nat /\ seglen \in Nat /\ ps \in Nat
  BY WordAssumption DEF Size
<1>2. round_down(offset, ps) \in Nat
  BY <1>1, RoundDown DEF round_down
<1>3. round_up(length, ps) \in Nat
  <2>1. (length + ps - 1) % Word \in Nat \/ ps = 0
    BY <1>1, WordAssumption
  <2> QED
    BY <2>1, <1>1, RoundDown DEF round_up
<1> QED
  BY <1>1, <1>2, <1>3 DEF RangeAccepted, ClipOffset, ClipLength

-----------------------------------------------------------------------------
(***************************************************************************)
(* Loops and powers of two.  What a recursive function computes is proved  *)
(* by looking at the least number for which it would be false.             *)
(***************************************************************************)

\* The values of a loop, before its first step and after each of n steps.
LoopTo(T, base, step, n, f) ==
    f \in [0 .. n -> T] /\ f[0] = base /\ \A i \in 1 .. n : f[i] = step[<<i, f[i - 1]>>]

\* A loop whose steps keep a set of values runs for any number of steps.
LEMMA LoopExists ==
    ASSUME NEW T, NEW base \in T, NEW step \in [Nat \X T -> T], NEW n \in Nat
    PROVE  \E f : LoopTo(T, base, step, n, f)
<1> DEFINE Run(m, f) == f[0] = base /\ \A i \in 1 .. m : f[i] = step[<<i, f[i - 1]>>]
           Runs(m) == \E f \in [0 .. m -> T] : Run(m, f)
           stuck  == {m \in Nat : ~Runs(m)}
<1> SUFFICES ASSUME stuck # {} PROVE FALSE
  BY DEF LoopTo
<1>1. PICK m \in stuck : \A e \in stuck : m =< e
  <2>1. stuck \subseteq Nat
    OBVIOUS
  <2> HIDE DEF stuck
  <2> QED
    BY <2>1, LeastNumber
<1>2. m \in Nat /\ ~Runs(m)
  BY <1>1
<1>3. m # 0
  <2> DEFINE f == [i \in 0 .. 0 |-> base]
  <2>1. f \in [0 .. 0 -> T] /\ Run(0, f)
    OBVIOUS
  <2>2. Runs(0)
    BY <2>1
  <2> QED
    BY <1>2, <2>2
<1>4. m - 1 \in Nat /\ Runs(m - 1)
  <2> HIDE DEF Runs
  <2>1. m - 1 \in Nat /\ ~(m =< m - 1)
    BY <1>2, <1>3
  <2> QED
    BY <1>1, <2>1
<1>5. PICK f \in [0 .. m - 1 -> T] : Run(m - 1, f)
  BY <1>4
<1> DEFINE last == step[<<m, f[m - 1]>>]
           g == [i \in 0 .. m |-> IF i = m THEN last ELSE f[i]]
<1>6. last \in T
  <2>1. f[m - 1] \in T
    BY <1>4
  <2> QED
    BY <1>2, <2>1
<1> HIDE DEF last
<1>7. g \in [0 .. m -> T]
  <2>1. ASSUME NEW i \in 0 .. m PROVE (IF i = m THEN last ELSE f[i]) \in T
    <3>1. i # m => i \in 0 .. m - 1
      BY <1>2
    <3> QED
      BY <1>6, <3>1
  <2> QED
    BY <2>1
<1>8. ASSUME NEW i \in 0 .. m PROVE g[i] = IF i = m THEN last ELSE f[i]
  OBVIOUS
<1> HIDE DEF g
<1>9. Run(m, g)
  <2>1. g[0] = base
    BY <1>2, <1>3, <1>5, <1>8
  <2>2. ASSUME NEW i \in 1 .. m PROVE g[i] = step[<<i, g[i - 1]>>]
    <3>1. i \in 0 .. m /\ i - 1 \in 0 .. m /\ i - 1 # m
      BY <1>2
    <3>2. g[i - 1] = f[i - 1]
      BY <1>8, <3>1
    <3>3. CASE i = m
      <4>1. g[i] = last
        BY <1>8, <3>1, <3>3
      <4> QED
        BY <3>2, <3>3, <4>1 DEF last
    <3>4. CASE i # m
      <4>1. g[i] = f[i] /\ i \in 1 .. m - 1
        BY <1>2, <1>8, <3>1, <3>4
      <4> QED
        BY <1>5, <3>2, <4>1
    <3> QED
      BY <3>3, <3>4
  <2> QED
    BY <2>1, <2>2
<1> QED
  BY <1>2, <1>7, <1>9

\* The powers of two up to the n-th.
PowersTo(n, f) == f \in [0 .. n -> Nat] /\ f[0] = 1 /\ \A i \in 1 .. n : f[i] = 2 * f[i - 1]

\* They exist.
LEMMA PowersExist == ASSUME NEW n \in Nat PROVE \E f : PowersTo(n, f)
<1> DEFINE step == [p \in Nat \X Nat |-> 2 * p[2]]
<1>1. step \in [Nat \X Nat -> Nat]
  OBVIOUS
<1>2. \A i \in Nat : \A v \in Nat : step[<<i, v>>] = 2 * v
  OBVIOUS
<1> HIDE DEF step
<1>3. PICK f \in [0 .. n -> Nat] : f[0] = 1 /\ \A i \in 1 .. n : f[i] = step[<<i, f[i - 1]>>]
  <2>1. 1 \in Nat
    OBVIOUS
  <2>2. \E f : LoopTo(Nat, 1, step, n, f)
    BY <1>1, <2>1, LoopExists
  <2> QED
    BY <2>2 DEF LoopTo
<1>4. ASSUME NEW i \in 1 .. n PROVE f[i] = 2 * f[i - 1]
  <2>1. i \in Nat /\ f[i - 1] \in Nat
    OBVIOUS
  <2> QED
    BY <1>2, <1>3, <2>1
<1> QED
  BY <1>3, <1>4 DEF PowersTo

\* They do not depend on how many are computed.
LEMMA PowersAgree ==
    ASSUME NEW n \in Nat, NEW m \in Nat, NEW f, NEW g, PowersTo(n, f), PowersTo(m, g),
           NEW i \in Nat, i =< n, i =< m
    PROVE  f[i] = g[i]
<1> DEFINE odd == {j \in Nat : j =< n /\ j =< m /\ f[j] # g[j]}
<1> SUFFICES ASSUME odd # {} PROVE FALSE
  OBVIOUS
<1>1. PICK j \in odd : \A e \in odd : j =< e
  <2>1. odd \subseteq Nat
    OBVIOUS
  <2> HIDE DEF odd
  <2> QED
    BY <2>1, LeastNumber
<1>2. j \in Nat /\ j =< n /\ j =< m /\ f[j] # g[j]
  BY <1>1
<1>3. j # 0
  BY <1>2 DEF PowersTo
<1>4. j - 1 \in Nat /\ f[j - 1] = g[j - 1]
  BY <1>1, <1>2, <1>3
<1>5. j \in 1 .. n /\ j \in 1 .. m
  BY <1>2, <1>3
<1> QED
  BY <1>2, <1>4, <1>5 DEF PowersTo

\* Pow2 is what its definition says.
LEMMA Pow2Unfolds == Pow2 = [n \in Nat |-> IF n = 0 THEN 1 ELSE 2 * Pow2[n - 1]]
<1> DEFINE upto(n) == CHOOSE f : PowersTo(n, f)
           F == [n \in Nat |-> upto(n)[n]]
<1>1. ASSUME NEW n \in Nat PROVE PowersTo(n, upto(n))
  BY PowersExist
<1> HIDE DEF upto
<1>2. ASSUME NEW n \in Nat PROVE F[n] = IF n = 0 THEN 1 ELSE 2 * F[n - 1]
  <2>1. CASE n = 0
    <3>1. F[0] = upto(0)[0] /\ PowersTo(0, upto(0))
      BY <1>1
    <3> QED
      BY <2>1, <3>1 DEF PowersTo
  <2>2. CASE n # 0
    <3>1. n - 1 \in Nat /\ n - 1 =< n /\ n \in 1 .. n
      BY <2>2
    <3>2. PowersTo(n, upto(n)) /\ PowersTo(n - 1, upto(n - 1))
      BY <1>1, <3>1
    <3>3. upto(n)[n] = 2 * upto(n)[n - 1]
      BY <3>1, <3>2 DEF PowersTo
    <3>4. upto(n)[n - 1] = upto(n - 1)[n - 1]
      BY <3>1, <3>2, PowersAgree
    <3>5. F[n] = upto(n)[n] /\ F[n - 1] = upto(n - 1)[n - 1]
      BY <3>1
    <3> QED
      BY <2>2, <3>3, <3>4, <3>5
  <2> QED
    BY <2>1, <2>2
<1>3. F = [n \in Nat |-> F[n]]
  OBVIOUS
<1> HIDE DEF F
<1> DEFINE Def(f) == f = [n \in Nat |-> IF n = 0 THEN 1 ELSE 2 * f[n - 1]]
<1>4. Def(F)
  BY <1>2, <1>3
<1>5. Pow2 = CHOOSE f : Def(f)
  BY DEF Pow2
<1> HIDE DEF Def
<1>6. Def(Pow2)
  BY <1>4, <1>5
<1> QED
  BY <1>6 DEF Def

\* A power of two is twice the one before, and positive.
LEMMA Pow2Next ==
    /\ Pow2[0] = 1
    /\ \A n \in Nat : Pow2[n] \in Nat \ {0} /\ Pow2[n + 1] = 2 * Pow2[n]
<1>1. \A n \in Nat : Pow2[n] = IF n = 0 THEN 1 ELSE 2 * Pow2[n - 1]
  <2> DEFINE G == [n \in Nat |-> IF n = 0 THEN 1 ELSE 2 * Pow2[n - 1]]
  <2>1. \A n \in Nat : G[n] = IF n = 0 THEN 1 ELSE 2 * Pow2[n - 1]
    OBVIOUS
  <2>2. Pow2 = G
    BY Pow2Unfolds
  <2> HIDE DEF G
  <2> QED
    BY <2>1, <2>2
<1>2. Pow2[0] = 1
  BY <1>1
<1>3. ASSUME NEW n \in Nat PROVE Pow2[n + 1] = 2 * Pow2[n]
  <2>1. n + 1 \in Nat /\ n + 1 # 0 /\ (n + 1) - 1 = n
    OBVIOUS
  <2> QED
    BY <1>1, <2>1
<1>4. ASSUME NEW n \in Nat PROVE Pow2[n] \in Nat \ {0}
  <2> DEFINE odd == {j \in Nat : Pow2[j] \notin Nat \ {0}}
  <2> SUFFICES ASSUME odd # {} PROVE FALSE
    OBVIOUS
  <2>1. PICK j \in odd : \A e \in odd : j =< e
    <3>1. odd \subseteq Nat
      OBVIOUS
    <3> HIDE DEF odd
    <3> QED
      BY <3>1, LeastNumber
  <2>2. j \in Nat /\ Pow2[j] \notin Nat \ {0}
    BY <2>1
  <2>3. j # 0
    BY <1>2, <2>2
  <2>4. j - 1 \in Nat /\ Pow2[j - 1] \in Nat \ {0}
    BY <2>1, <2>2, <2>3
  <2>5. Pow2[j] = 2 * Pow2[j - 1]
    BY <1>1, <2>2, <2>3
  <2> QED
    BY <2>2, <2>4, <2>5
<1> QED
  BY <1>2, <1>3, <1>4

\* Exponents add.
LEMMA Pow2Sum ==
    ASSUME NEW a \in Nat, NEW b \in Nat
    PROVE  Pow2[a + b] = Pow2[a] * Pow2[b]
<1> DEFINE odd == {j \in Nat : Pow2[a + j] # Pow2[a] * Pow2[j]}
<1> SUFFICES ASSUME odd # {} PROVE FALSE
  OBVIOUS
<1>1. PICK j \in odd : \A e \in odd : j =< e
  <2>1. odd \subseteq Nat
    OBVIOUS
  <2> HIDE DEF odd
  <2> QED
    BY <2>1, LeastNumber
<1>2. j \in Nat /\ Pow2[a + j] # Pow2[a] * Pow2[j]
  BY <1>1
<1>3. j # 0
  <2>1. Pow2[a] \in Nat /\ Pow2[0] = 1 /\ a + 0 = a
    BY Pow2Next
  <2>2. Pow2[a] * Pow2[0] = Pow2[a]
    BY <2>1
  <2> QED
    BY <1>2, <2>1, <2>2
<1>4. PICK k \in Nat : j = k + 1
  BY <1>2, <1>3
<1>5. Pow2[a + k] = Pow2[a] * Pow2[k]
  BY <1>1, <1>4
<1>6. Pow2[(a + k) + 1] = 2 * Pow2[a + k] /\ Pow2[k + 1] = 2 * Pow2[k]
  BY Pow2Next
<1>7. Pow2[a] \in Nat /\ Pow2[k] \in Nat
  BY Pow2Next
<1>8. Pow2[a] * (2 * Pow2[k]) = 2 * (Pow2[a] * Pow2[k])
  BY <1>7
<1>9. a + j = (a + k) + 1
  BY <1>4
<1> QED
  BY <1>2, <1>4, <1>5, <1>6, <1>8, <1>9

-----------------------------------------------------------------------------
(***************************************************************************)
(* Quotients, remainders and bits.                                         *)
(***************************************************************************)

\* Quotient and remainder are the only ones there are.
LEMMA DivIs ==
    ASSUME NEW a \in Nat, NEW n \in Nat \ {0}, NEW q \in Nat, NEW r \in Nat,
           a = q * n + r, r < n
    PROVE  a \div n = q /\ a % n = r
<1> DEFINE d == a \div n
           m == a % n
<1>1. a = n * d + m /\ d \in Nat /\ m \in 0 .. n - 1
  BY DivMod
<1> HIDE DEF d, m
<1>2. d = q
  <2>1. CASE d < q
    <3>1. PICK e \in Nat : q = d + 1 + e
      BY <1>1, <2>1
    <3>2. q * n = n * d + n + e * n /\ e * n \in Nat /\ n * d \in Nat
      BY <1>1, <3>1
    <3> QED
      BY <1>1, <3>2
  <2>2. CASE d > q
    <3>1. PICK e \in Nat : d = q + 1 + e
      BY <1>1, <2>2
    <3>2. n * d = q * n + n + n * e /\ n * e \in Nat /\ q * n \in Nat
      BY <1>1, <3>1
    <3> QED
      BY <1>1, <3>2
  <2> QED
    BY <1>1, <2>1, <2>2
<1>3. n * d = q * n
  BY <1>1, <1>2
<1> QED
  BY <1>1, <1>2, <1>3 DEF d, m

\* Dividing twice is dividing by the product.
LEMMA DivTwice ==
    ASSUME NEW a \in Nat, NEW m \in Nat \ {0}, NEW n \in Nat \ {0}
    PROVE  a \div (m * n) = (a \div m) \div n
<1> DEFINE q == a \div m
           r == a % m
           u == q \div n
           s == q % n
<1>1. a = m * q + r /\ q \in Nat /\ r \in 0 .. m - 1
  BY DivMod
<1>2. q = n * u + s /\ u \in Nat /\ s \in 0 .. n - 1
  <2> HIDE DEF q
  <2> QED
    BY <1>1, DivMod
<1> HIDE DEF q, r, u, s
<1>3. m * n \in Nat \ {0}
  <2>1. PICK k \in Nat : n = k + 1
    OBVIOUS
  <2>2. m * n = m * k + m /\ m * k \in Nat
    BY <2>1
  <2> QED
    BY <2>2
<1>4. m * s + r \in Nat /\ m * s + r < m * n
  <2>1. PICK k \in Nat : n = s + 1 + k
    BY <1>2
  <2>2. m * n = m * s + m + m * k /\ m * k \in Nat /\ m * s \in Nat
    BY <1>2, <2>1
  <2> QED
    BY <1>1, <2>2
<1>5. a = u * (m * n) + (m * s + r)
  <2>1. m * q = m * (n * u) + m * s
    BY <1>2
  <2>2. m * (n * u) = u * (m * n)
    BY <1>2
  <2> QED
    BY <1>1, <1>2, <2>1, <2>2
<1> DEFINE p == m * n
           t == m * s + r
<1>6. p \in Nat \ {0} /\ t \in Nat /\ t < p /\ a = u * p + t
  BY <1>3, <1>4, <1>5
<1> HIDE DEF p, t
<1>7. a \div p = u
  BY <1>2, <1>6, DivIs
<1> QED
  BY <1>7 DEF p, u, q

\* One more bit of a number.
LEMMA BitSplit ==
    ASSUME NEW a \in Nat, NEW p \in Nat \ {0}
    PROVE  a % (2 * p) = (a % p) + (IF (a \div p) % 2 = 1 THEN p ELSE 0)
<1> DEFINE q == a \div p
           r == a % p
           u == q \div 2
           s == q % 2
<1>1. a = p * q + r /\ q \in Nat /\ r \in 0 .. p - 1
  BY DivMod
<1>2. q = 2 * u + s /\ u \in Nat /\ s \in 0 .. 1
  <2> HIDE DEF q
  <2> QED
    BY <1>1, DivMod
<1> HIDE DEF q, r, u, s
<1>3. a = u * (2 * p) + (p * s + r)
  <2>1. p * q = p * (2 * u) + p * s
    BY <1>2
  <2>2. p * (2 * u) = u * (2 * p)
    BY <1>2
  <2> QED
    BY <1>1, <1>2, <2>1, <2>2
<1>4. p * s = IF s = 1 THEN p ELSE 0
  BY <1>2
<1>5. p * s + r \in Nat /\ p * s + r < 2 * p /\ 2 * p \in Nat \ {0}
  BY <1>1, <1>2, <1>4
<1> DEFINE d == 2 * p
           t == p * s + r
<1>6. a % d = t
  <2>1. d \in Nat \ {0} /\ t \in Nat /\ t < d /\ a = u * d + t
    BY <1>3, <1>5
  <2> HIDE DEF d, t
  <2> QED
    BY <1>2, <2>1, DivIs
<1>7. a % d = r + (IF s = 1 THEN p ELSE 0)
  BY <1>1, <1>4, <1>6
<1> QED
  BY <1>7 DEF r, s, q

\* An even number and one more.
LEMMA Parity ==
    ASSUME NEW n \in Nat
    PROVE  (2 * n) % 2 = 0 /\ (2 * n + 1) % 2 = 1
OBVIOUS

\* The bits of a multiple of a power of two: none below it, and above it
\* those of the number itself.
LEMMA RoundBits ==
    ASSUME NEW x \in Nat, NEW k \in Nat, NEW b \in Nat
    PROVE  Bit(round_down(x, Pow2[k]), b) <=> k =< b /\ Bit(x, b)
<1> DEFINE p == Pow2[k]
           q == x \div p
           z == round_down(x, p)
<1>1. p \in Nat \ {0} /\ Pow2[b] \in Nat \ {0}
  BY Pow2Next
<1>2. x = p * q + (x % p) /\ q \in Nat /\ x % p \in 0 .. p - 1
  BY <1>1, DivMod
<1>3. z = q * p
  <2> HIDE DEF q, p
  <2>1. z = x - (x % p)
    BY <1>1 DEF round_down
  <2> QED
    BY <1>1, <1>2, <2>1
<1>4. z \div p = q
  <2>1. z \in Nat /\ z = q * p + 0
    BY <1>1, <1>2, <1>3
  <2> HIDE DEF z, q, p
  <2> QED
    BY <1>1, <1>2, <2>1, DivIs
<1>5. z \in Nat
  <2> HIDE DEF z, q, p
  <2>1. q * p \in Nat
    BY <1>1, <1>2
  <2> QED
    BY <1>3, <2>1
<1> HIDE DEF z, q
<1>6. CASE k =< b
  <2>1. PICK c \in Nat : b = k + c
    BY <1>6
  <2> DEFINE e == Pow2[c]
  <2>2. Pow2[b] = p * e /\ e \in Nat \ {0}
    BY <2>1, Pow2Sum, Pow2Next
  <2> HIDE DEF p, e
  <2>3. z \div (p * e) = q \div e
    BY <1>1, <1>4, <1>5, <2>2, DivTwice
  <2>4. x \div (p * e) = q \div e
    BY <1>1, <2>2, DivTwice DEF q
  <2> QED
    BY <1>6, <2>2, <2>3, <2>4 DEF Bit, z, p
<1>7. CASE ~(k =< b)
  <2>1. PICK c \in Nat : k = b + (c + 1)
    BY <1>7
  <2> DEFINE e == Pow2[c]
             f == Pow2[b]
  <2>2. e \in Nat /\ Pow2[c + 1] = 2 * e /\ f \in Nat \ {0}
    BY Pow2Next
  <2>3. p = f * (2 * e)
    BY <2>1, <2>2, Pow2Sum
  <2> HIDE DEF p, e, f
  <2>4. z = (2 * (q * e)) * f + 0
    <3>1. q * (f * (2 * e)) = (2 * (q * e)) * f
      BY <1>2, <2>2
    <3>2. q * (f * (2 * e)) \in Nat
      BY <1>2, <2>2
    <3> QED
      BY <1>3, <2>3, <3>1, <3>2
  <2>5. q * e \in Nat /\ 2 * (q * e) \in Nat
    BY <1>2, <2>2
  <2>6. z \div f = 2 * (q * e)
    BY <1>5, <2>2, <2>4, <2>5, DivIs
  <2>7. (2 * (q * e)) % 2 = 0
    BY <2>5, Parity
  <2>8. ~Bit(z, b)
    BY <2>6, <2>7 DEF Bit, f
  <2> QED
    BY <1>7, <2>8 DEF z, p
<1> QED
  BY <1>6, <1>7

\* The bits of the mask that rounds to a power of two.
LEMMA MaskBits ==
    ASSUME NEW w \in Nat, NEW k \in 0 .. w, NEW b \in 0 .. w - 1
    PROVE  /\ Pow2[w] - Pow2[k] \in Nat
           /\ Bit(Pow2[w] - Pow2[k], b) <=> k =< b
<1> DEFINE m == Pow2[w] - Pow2[k]
<1>1. PICK c \in Nat : w = k + c
  OBVIOUS
<1>2. Pow2[k] \in Nat \ {0} /\ Pow2[c] \in Nat \ {0} /\ Pow2[b] \in Nat \ {0}
  BY Pow2Next
<1>3. Pow2[w] = Pow2[k] * Pow2[c]
  BY <1>1, Pow2Sum
<1>4. PICK d \in Nat : Pow2[c] = d + 1
  BY <1>2
<1>5. m = d * Pow2[k] /\ m \in Nat
  <2>1. Pow2[k] * (d + 1) = d * Pow2[k] + Pow2[k] /\ d * Pow2[k] \in Nat
    BY <1>2
  <2> QED
    BY <1>2, <1>3, <1>4, <2>1
<1> HIDE DEF m
<1>6. CASE b < k
  <2>1. PICK e \in Nat : k = b + (e + 1)
    BY <1>6
  <2> DEFINE f == Pow2[b]
             g == Pow2[e]
  <2>2. g \in Nat /\ f \in Nat \ {0} /\ Pow2[e + 1] = 2 * g
    BY Pow2Next
  <2>3. Pow2[k] = f * (2 * g)
    BY <2>1, <2>2, Pow2Sum
  <2> HIDE DEF f, g
  <2>4. m = (2 * (d * g)) * f + 0 /\ d * g \in Nat /\ 2 * (d * g) \in Nat
    <3>1. d * (f * (2 * g)) = (2 * (d * g)) * f
      BY <2>2
    <3> QED
      BY <1>5, <2>2, <2>3, <3>1
  <2>5. m \div f = 2 * (d * g)
    BY <1>5, <2>2, <2>4, DivIs
  <2>6. (2 * (d * g)) % 2 = 0
    BY <2>4, Parity
  <2> QED
    BY <1>5, <1>6, <2>5, <2>6 DEF Bit, f, m
<1>7. CASE k =< b
  <2>1. PICK e \in Nat : w = b + (e + 1)
    OBVIOUS
  <2>2. PICK h \in Nat : b = k + h
    BY <1>7
  <2> DEFINE f == Pow2[b]
             g == Pow2[e]
  <2>3. g \in Nat \ {0} /\ f \in Nat \ {0} /\ Pow2[e + 1] = 2 * g
    BY Pow2Next
  <2>4. Pow2[w] = f * (2 * g)
    BY <2>1, <2>3, Pow2Sum
  <2>5. Pow2[k] =< f
    <3>1. f = Pow2[k] * Pow2[h] /\ Pow2[h] \in Nat \ {0}
      <4>1. k \in Nat
        OBVIOUS
      <4>2. Pow2[k + h] = Pow2[k] * Pow2[h]
        BY <4>1, Pow2Sum
      <4>3. Pow2[h] \in Nat \ {0}
        BY Pow2Next
      <4> QED
        BY <2>2, <4>2, <4>3
    <3>2. PICK i \in Nat : Pow2[h] = i + 1
      BY <3>1
    <3>3. Pow2[k] * (i + 1) = Pow2[k] * i + Pow2[k] /\ Pow2[k] * i \in Nat
      BY <1>2
    <3> QED
      BY <1>2, <3>1, <3>2, <3>3
  <2>6. PICK j \in Nat : g = j + 1
    BY <2>3
  <2> HIDE DEF f, g
  <2>7. f * (2 * g) = (2 * j + 1) * f + f
    <3>1. f * (2 * (j + 1)) = (2 * j + 1) * f + f
      BY <2>3
    <3> QED
      BY <2>6, <3>1
  <2>8. m = (2 * j + 1) * f + (f - Pow2[k]) /\ f - Pow2[k] \in Nat /\ f - Pow2[k] < f
    <3>1. (2 * j + 1) * f \in Nat
      BY <2>3
    <3> QED
      BY <1>2, <2>3, <2>4, <2>5, <2>7, <3>1 DEF m
  <2>9. m \div f = 2 * j + 1
    <3> DEFINE r == f - Pow2[k]
    <3>1. r \in Nat /\ r < f /\ m = (2 * j + 1) * f + r /\ 2 * j + 1 \in Nat
      BY <2>8
    <3> HIDE DEF r
    <3> QED
      BY <1>5, <2>3, <3>1, DivIs
  <2>10. (2 * j + 1) % 2 = 1
    BY Parity
  <2> QED
    BY <1>5, <1>7, <2>9, <2>10 DEF Bit, f, m
<1> QED
  BY <1>6, <1>7

\* The equation that defines the bits two numbers have in common.
CommonTo(x, y, w, f) ==
    f = [i \in 0 .. w |-> IF i = 0 THEN 0
                          ELSE f[i - 1] + (IF Bit(x, i - 1) /\ Bit(y, i - 1) THEN Pow2[i - 1] ELSE 0)]

\* A number has, below a bit, the bits below the one before and that one.
LEMMA LowBits ==
    ASSUME NEW z \in Nat
    PROVE  /\ z % Pow2[0] = 0
           /\ \A i \in Nat \ {0} :
                 z % Pow2[i] = (z % Pow2[i - 1]) + (IF Bit(z, i - 1) THEN Pow2[i - 1] ELSE 0)
<1>1. z % Pow2[0] = 0
  BY Pow2Next
<1>2. ASSUME NEW i \in Nat \ {0}
      PROVE  z % Pow2[i] = (z % Pow2[i - 1]) + (IF Bit(z, i - 1) THEN Pow2[i - 1] ELSE 0)
  <2> DEFINE p == Pow2[i - 1]
  <2>1. i - 1 \in Nat /\ (i - 1) + 1 = i
    OBVIOUS
  <2>2. p \in Nat \ {0} /\ Pow2[i] = 2 * p
    BY <2>1, Pow2Next
  <2>3. Bit(z, i - 1) <=> (z \div p) % 2 = 1
    BY DEF Bit
  <2> HIDE DEF p
  <2>4. z % (2 * p) = (z % p) + (IF (z \div p) % 2 = 1 THEN p ELSE 0)
    BY <2>2, BitSplit
  <2>5. z % Pow2[i] = (z % p) + (IF Bit(z, i - 1) THEN p ELSE 0)
    BY <2>2, <2>3, <2>4
  <2> QED
    BY <2>5 DEF p
<1> QED
  BY <1>1, <1>2

\* The bits two numbers have in common make the number that has those bits.
LEMMA AndIs ==
    ASSUME NEW x, NEW y, NEW w \in Nat, NEW z \in Nat,
           \A b \in 0 .. w - 1 : Bit(z, b) <=> Bit(x, b) /\ Bit(y, b)
    PROVE  And(x, y, w) = z % Pow2[w]
<1> DEFINE Step(i) == IF Bit(x, i - 1) /\ Bit(y, i - 1) THEN Pow2[i - 1] ELSE 0
           Low(i) == z % Pow2[i]
           low == Common(x, y, w)
           g == [i \in 0 .. w |-> Low(i)]
<1>1. Low(0) = 0
  BY LowBits
<1>2. ASSUME NEW i \in 1 .. w PROVE Low(i) = Low(i - 1) + Step(i)
  <2>1. i \in Nat \ {0} /\ i - 1 \in 0 .. w - 1
    OBVIOUS
  <2>2. Low(i) = Low(i - 1) + (IF Bit(z, i - 1) THEN Pow2[i - 1] ELSE 0)
    BY <2>1, LowBits
  <2>3. Bit(z, i - 1) <=> Bit(x, i - 1) /\ Bit(y, i - 1)
    BY <2>1
  <2> QED
    BY <2>2, <2>3
<1> HIDE DEF Low
<1>3. g = [i \in 0 .. w |-> IF i = 0 THEN 0 ELSE g[i - 1] + Step(i)]
  <2>1. ASSUME NEW i \in 0 .. w PROVE g[i] = IF i = 0 THEN 0 ELSE g[i - 1] + Step(i)
    <3>1. i = 0 \/ (i \in 1 .. w /\ i - 1 \in 0 .. w)
      OBVIOUS
    <3> HIDE DEF Step
    <3> QED
      BY <1>1, <1>2, <3>1
  <2>2. g = [i \in 0 .. w |-> g[i]]
    OBVIOUS
  <2> HIDE DEF g, Step
  <2> QED
    BY <2>1, <2>2
<1>4. CommonTo(x, y, w, g)
  BY <1>3 DEF CommonTo
<1>5. low = CHOOSE f : CommonTo(x, y, w, f)
  BY DEF Common, CommonTo
<1> HIDE DEF g
<1>6. CommonTo(x, y, w, low)
  BY <1>4, <1>5
<1> HIDE DEF low
<1>7. low = [i \in 0 .. w |-> IF i = 0 THEN 0 ELSE low[i - 1] + Step(i)]
  BY <1>6 DEF CommonTo
<1> HIDE DEF Step
<1>8. ASSUME NEW i \in 0 .. w PROVE low[i] = IF i = 0 THEN 0 ELSE low[i - 1] + Step(i)
  BY <1>7
<1> DEFINE odd == {j \in Nat : j =< w /\ low[j] # Low(j)}
<1>9. odd = {}
  <2> SUFFICES ASSUME odd # {} PROVE FALSE
    OBVIOUS
  <2>1. PICK j \in odd : \A e \in odd : j =< e
    <3>1. odd \subseteq Nat
      OBVIOUS
    <3> HIDE DEF odd
    <3> QED
      BY <3>1, LeastNumber
  <2>2. j \in Nat /\ j =< w /\ low[j] # Low(j)
    BY <2>1
  <2>3. j # 0
    BY <1>1, <1>8, <2>2
  <2>4. j - 1 \in Nat /\ low[j - 1] = Low(j - 1)
    BY <2>1, <2>2, <2>3
  <2>5. j \in 1 .. w /\ j \in 0 .. w
    BY <2>2, <2>3
  <2> QED
    BY <1>2, <1>8, <2>2, <2>3, <2>4, <2>5
<1>10. low[w] = Low(w)
  BY <1>9
<1> QED
  BY <1>10 DEF And, low, Low

\* Zero has no bits.
LEMMA NoBits == \A b \in Nat : ~Bit(0, b)
<1> SUFFICES ASSUME NEW b \in Nat PROVE ~Bit(0, b)
  OBVIOUS
<1>1. Pow2[b] \in Nat \ {0}
  BY Pow2Next
<1> DEFINE p == Pow2[b]
<1> HIDE DEF p
<1>2. p \in Nat \ {0} /\ 0 = 0 * p + 0
  BY <1>1 DEF p
<1>3. 0 \div p = 0
  BY <1>2, DivIs
<1> QED
  BY <1>3 DEF Bit, p

\* A number shifted left by k bits, and k bits below it.
LEMMA JoinBits ==
    ASSUME NEW q \in Nat, NEW k \in Nat, NEW r \in Nat, r < Pow2[k], NEW c \in Nat
    PROVE  /\ c < k => (Bit(q * Pow2[k] + r, c) <=> Bit(r, c))
           /\ k =< c => (Bit(q * Pow2[k] + r, c) <=> Bit(q, c - k))
<1> DEFINE p == Pow2[k]
           a == q * p + r
           f == Pow2[c]
<1>1. p \in Nat \ {0} /\ f \in Nat \ {0}
  BY Pow2Next
<1>2. a \in Nat
  BY <1>1
<1>3. ASSUME c < k PROVE Bit(a, c) <=> Bit(r, c)
  <2>1. PICK d \in Nat : k = c + (d + 1)
    BY <1>3
  <2> DEFINE e == Pow2[d]
  <2>2. e \in Nat /\ Pow2[d + 1] = 2 * e
    BY Pow2Next
  <2>3. p = f * (2 * e)
    BY <2>1, <2>2, Pow2Sum
  <2> HIDE DEF e
  <2> DEFINE u == r \div f
             t == r % f
             h == q * e
  <2>4. r = f * u + t /\ u \in Nat /\ t \in 0 .. f - 1
    <3> HIDE DEF f
    <3> QED
      BY <1>1, DivMod
  <2> HIDE DEF p, f, u, t
  <2>5. q * (f * (2 * e)) = (2 * h) * f /\ h \in Nat
    BY <1>1, <2>2
  <2>6. q * p = (2 * h) * f
    BY <2>3, <2>5
  <2> HIDE DEF h
  <2>7. (2 * h + u) * f = (2 * h) * f + f * u
    BY <1>1, <2>4, <2>5
  <2>8. a = (2 * h + u) * f + t /\ 2 * h + u \in Nat /\ t \in Nat /\ t < f
    <3>1. (2 * h) * f \in Nat /\ f * u \in Nat
      BY <1>1, <2>4, <2>5
    <3> QED
      BY <1>1, <2>4, <2>5, <2>6, <2>7, <3>1
  <2>9. a \div f = 2 * h + u
    <3> DEFINE v == 2 * h + u
    <3>1. v \in Nat /\ a = v * f + t
      BY <2>8
    <3> HIDE DEF v, a
    <3>2. a \div f = v
      BY <1>1, <1>2, <2>8, <3>1, DivIs
    <3> QED
      BY <3>2 DEF v
  <2>10. (2 * h + u) % 2 = u % 2
    BY <2>4, <2>5
  <2> HIDE DEF a
  <2>11. Bit(a, c) <=> u % 2 = 1
    BY <2>9, <2>10 DEF Bit, f
  <2> QED
    BY <2>11 DEF Bit, u, f
<1>4. ASSUME k =< c PROVE Bit(a, c) <=> Bit(q, c - k)
  <2>1. PICK d \in Nat : c = k + d /\ c - k = d
    BY <1>4
  <2> DEFINE e == Pow2[d]
  <2>2. e \in Nat \ {0} /\ f = p * e
    BY <2>1, Pow2Sum, Pow2Next
  <2>3. r < p
    OBVIOUS
  <2> HIDE DEF p, e
  <2>4. a \div p = q
    <3>1. a = q * p + r
      OBVIOUS
    <3> HIDE DEF a
    <3> QED
      BY <1>1, <1>2, <2>3, <3>1, DivIs
  <2> HIDE DEF a
  <2>5. a \div (p * e) = q \div e
    BY <1>1, <1>2, <2>2, <2>4, DivTwice
  <2> QED
    BY <2>1, <2>2, <2>5 DEF Bit, e
<1> QED
  BY <1>3, <1>4 DEF a, p

=============================================================================
