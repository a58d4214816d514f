-------------------------- MODULE UserRangeProofs ---------------------------
(***************************************************************************)
(* Proofs about the ranges a user types, and about the masks that round    *)
(* them, for a size_t of any width, any page sizes that divide it, any     *)
(* scale factors and any numbers.                                          *)
(***************************************************************************)
EXTENDS RangeMask, SegmentRangeProofs, TLAPS

\* Reduction of a sum that overflows at most once.
LEMMA WrapOnce ==
    ASSUME NEW a \in Nat, NEW n \in Nat \ {0}, a < n + n
    PROVE  a % n = IF a < n THEN a ELSE a - n
<1> DEFINE q == a \div n
           m == a % n
<1>1. a = n * q + m /\ q \in Nat /\ m \in 0 .. n - 1
  BY DivMod
<1> HIDE DEF q, m
<1>2. CASE q = 0
  BY <1>1, <1>2 DEF m
<1>3. CASE q = 1
  BY <1>1, <1>3 DEF m
<1>4. q < 2
  <2> SUFFICES ASSUME q >= 2 PROVE FALSE
    BY <1>1
  <2>1. PICK r \in Nat : q = 2 + r
    BY <1>1
  <2>2. n * q = n + n + n * r /\ n * r \in Nat
    BY <2>1
  <2> QED
    BY <1>1, <2>2
<1> QED
  BY <1>1, <1>2, <1>3, <1>4

\* Two different multiples of n are n apart.
LEMMA MultiplesApart ==
    ASSUME NEW a \in Nat, NEW b \in Nat, NEW n \in Nat \ {0}, a % n = 0, b % n = 0, a < b
    PROVE  a + n =< b
<1>1. PICK p \in Nat : a = p * n
  BY Divides
<1>2. PICK q \in Nat : b = q * n
  BY Divides
<1>3. p < q
  <2> SUFFICES ASSUME p >= q PROVE FALSE
    BY <1>1, <1>2
  <2>1. PICK r \in Nat : p = q + r
    OBVIOUS
  <2>2. p * n = q * n + r * n /\ r * n \in Nat /\ q * n \in Nat
    BY <2>1
  <2> QED
    BY <1>1, <1>2, <2>2
<1>4. PICK r \in Nat : q = p + 1 + r
  BY <1>3
<1>5. q * n = p * n + n + r * n /\ r * n \in Nat /\ p * n \in Nat
  BY <1>4
<1> QED
  BY <1>1, <1>2, <1>5

(***************************************************************************)
(* Rounding up is to the next multiple of the page size, and wraps around  *)
(* to 0 exactly when that multiple is no size_t.                           *)
(***************************************************************************)
LEMMA RoundUp ==
    ASSUME NEW size \in Size, NEW ps \in Size \ {0}, Word % ps = 0
    PROVE  /\ size + ps - 1 < Word =>
                /\ round_up(size, ps) \in Size /\ round_up(size, ps) >= size
                /\ round_up(size, ps) % ps = 0
                /\ \A m \in Size : m >= size /\ m % ps = 0 => round_up(size, ps) =< m
           /\ size + ps - 1 >= Word =>
                /\ round_up(size, ps) = 0
                /\ \A m \in Size : m % ps = 0 => m < size
<1> DEFINE x == size + ps - 1
<1>1. /\ size \in Nat /\ ps \in Nat \ {0} /\ x \in Nat /\ x < Word + Word
      /\ size < Word /\ ps < Word /\ Word \in Nat \ {0}
  BY WordAssumption DEF Size
<1>2. round_up(size, ps) = round_down(x % Word, ps)
  BY <1>1 DEF round_up
<1>3. ASSUME x < Word
      PROVE  /\ round_up(size, ps) \in Size /\ round_up(size, ps) >= size
             /\ round_up(size, ps) % ps = 0
             /\ \A m \in Size : m >= size /\ m % ps = 0 => round_up(size, ps) =< m
  <2> DEFINE up == round_up(size, ps)
  <2>1. up = round_down(x, ps)
    <3>1. x % Word = x
      BY <1>1, <1>3, WrapOnce
    <3> QED
      BY <1>2, <3>1
  <2>2. up \in Nat /\ up =< x /\ x < up + ps
    BY <1>1, <2>1, RoundDown
  <2>3. up % ps = 0
    BY <1>1, <2>1, RoundMod
  <2> HIDE DEF up
  <2>4. ASSUME NEW m \in Size, m >= size, m % ps = 0
        PROVE  up =< m
    <3> SUFFICES ASSUME m < up PROVE FALSE
      BY <2>2 DEF Size
    <3>1. m \in Nat
      BY DEF Size
    <3>2. m + ps =< up
      BY <1>1, <2>2, <2>3, <2>4, <3>1, MultiplesApart
    <3> QED
      BY <1>1, <2>2, <2>4, <3>1, <3>2
  <2>5. up \in Size /\ up >= size
    BY <1>1, <1>3, <2>2 DEF Size
  <2> QED
    BY <2>3, <2>4, <2>5 DEF up
<1>4. ASSUME x >= Word
      PROVE  /\ round_up(size, ps) = 0
             /\ \A m \in Size : m % ps = 0 => m < size
  <2>1. x % Word = x - Word
    <3>1. ~(x < Word)
      BY <1>1, <1>4
    <3> HIDE DEF x
    <3> QED
      BY <1>1, <3>1, WrapOnce
  <2>2. x - Word \in Nat /\ x - Word < ps
    BY <1>1, <1>4
  <2>3. (x - Word) % ps = x - Word
    BY <1>1, <2>2, WrapOnce
  <2>4. round_up(size, ps) = 0
    BY <1>1, <1>2, <2>1, <2>2, <2>3 DEF round_down
  <2>5. ASSUME NEW m \in Size, m % ps = 0
        PROVE  m < size
    <3>1. m \in Nat /\ m < Word
      BY <1>1 DEF Size
    <3>2. m + ps =< Word
      BY <1>1, <2>5, <3>1, MultiplesApart
    <3> QED
      BY <1>1, <1>4, <3>1, <3>2
  <2> QED
    BY <2>4, <2>5
<1> QED
  BY <1>3, <1>4

-----------------------------------------------------------------------------
(***************************************************************************)
(* What is typed, and the two states a range is in.                        *)
(***************************************************************************)
Lengths  == Numbers \cup {Minus(1, ""), Minus(2, ""), [k |-> "star"]}
IsRange(r) == r.offset \in Size /\ r.length \in Size
RangeRead ==
    /\ args \in Numbers \X Lengths
    /\ range = Untyped \/ range = get_range(args)

\* A word that is a number.
NumWord(w) ==
    /\ w.k = "num" /\ w.num \in Nat /\ w.neg \in BOOLEAN
    /\ w.scale \in Scales

\* The first word is a number without a sign; the second a number, or '*'.
LEMMA TypedWords ==
    ASSUME NEW a \in Numbers \X Lengths
    PROVE  /\ NumWord(a[1]) /\ ~a[1].neg
           /\ NumWord(a[2]) \/ a[2].k = "star"
           /\ a # <<>> /\ Len(a) = 2 /\ Head(a) = a[1]
<1>1. a[1] \in Numbers /\ a[2] \in Lengths /\ a = <<a[1], a[2]>>
  OBVIOUS
<1>2. ASSUME NEW w \in Numbers
      PROVE  NumWord(w) /\ ~w.neg
  <2>1. PICK n \in 0 .. MaxNum, s \in Scales : w = Num(n, s)
    BY <1>2 DEF Numbers
  <2>2. n \in Nat
    BY UserRangeAssumption
  <2>3. w.k = "num" /\ w.num = n /\ w.scale = s /\ w.neg = FALSE
    BY <2>1 DEF Num
  <2> QED
    BY <2>2, <2>3, Zenon DEF NumWord
<1>3. NumWord(Minus(1, "")) /\ NumWord(Minus(2, ""))
  BY DEF NumWord, Minus, Scales
<1>4. NumWord(a[2]) \/ a[2].k = "star"
  <2>1. [k |-> "star"].k = "star"
    OBVIOUS
  <2> QED
    BY <1>1, <1>2, <1>3, <2>1, Zenon DEF Lengths
<1>5. NumWord(a[1]) /\ ~a[1].neg
  BY <1>1, <1>2
<1>6. a # <<>> /\ Len(a) = 2 /\ Head(a) = a[1]
  <2> DEFINE x == a[1]
             y == a[2]
  <2>1. a = <<x, y>>
    BY <1>1
  <2> HIDE DEF x, y
  <2>2. <<x, y>> # <<>> /\ Len(<<x, y>>) = 2 /\ Head(<<x, y>>) = x
    OBVIOUS
  <2> QED
    BY <2>1, <2>2 DEF x
<1> QED
  BY <1>4, <1>5, <1>6

\* What a number is read as is a size_t.
LEMMA ScaledSize ==
    ASSUME NEW w, NumWord(w)
    PROVE  get_scaled_value(w) \in Size
<1>1. Word \in Nat \ {0, 1} /\ w.num \in Nat /\ BOGUS_SIZE \in Size
  <2>1. w.num \in Nat
    BY Zenon DEF NumWord
  <2> QED
    BY <2>1, WordAssumption DEF BOGUS_SIZE, Size
<1>2. ASSUME NEW n \in Nat
      PROVE  n % Word \in Size
  BY <1>1 DEF Size
<1> DEFINE u == strtoul(w)
<1>3. u \in Size
  <2>1. CASE w.num >= Word
    BY <1>1, <2>1 DEF strtoul, Size
  <2>2. CASE w.num < Word
    <3>1. Word - w.num \in Nat /\ w.num \in Size
      BY <1>1, <2>2 DEF Size
    <3>2. (Word - w.num) % Word \in Size
      BY <1>2, <3>1
    <3>3. ~(w.num >= Word)
      BY <1>1, <2>2
    <3> QED
      BY <3>1, <3>2, <3>3, Zenon DEF strtoul
  <2> QED
    BY <1>1, <2>1, <2>2
<1>4. u \in Nat
  BY <1>3 DEF Size
<1> HIDE DEF u
<1>5. PageSize \in Nat /\ Kilo \in Nat
  BY ScaleAssumption
<1>6. u * PageSize \in Nat /\ u * Kilo \in Nat /\ u * Kilo * Kilo \in Nat /\ u * Kilo * Kilo * Kilo \in Nat
  BY <1>4, <1>5
<1>7. /\ (u * PageSize) % Word \in Size /\ (u * Kilo) % Word \in Size
      /\ (u * Kilo * Kilo) % Word \in Size /\ (u * Kilo * Kilo * Kilo) % Word \in Size
  BY <1>2, <1>6
<1>8. size_kmgp(w) \in Size
  BY <1>1, <1>3, <1>7, Zenon DEF size_kmgp, u
<1> QED
  BY <1>1, <1>8, Zenon DEF get_scaled_value

\* The numbers of a range that get_range() returns.
LEMMA GetRange ==
    ASSUME NEW a \in Numbers \X Lengths
    PROVE  LET o == get_scaled_value(a[1])
               l == IF a[2].k = "star" THEN 0 ELSE get_scaled_value(a[2])
           IN  /\ o \in Size /\ l \in Size
               /\ get_range(a).ok <=> o # BOGUS_SIZE /\ l # BOGUS_SIZE
               /\ get_range(a).ok => get_range(a).offset = o /\ get_range(a).length = l
               /\ IsRange(get_range(a))
<1> DEFINE o == get_scaled_value(a[1])
           l == IF a[2].k = "star" THEN 0 ELSE get_scaled_value(a[2])
           rest == SubSeq(a, 3, Len(a))
           good == [ok |-> TRUE, given |-> TRUE, offset |-> o, length |-> l, rest |-> rest]
<1>1. o \in Size /\ l \in Size /\ 0 \in Size
  <2>1. 0 \in Size
    BY WordAssumption DEF Size
  <2> QED
    BY <2>1, TypedWords, ScaledSize
<1>2. StartsWithDigit(a)
  BY TypedWords, Zenon DEF StartsWithDigit, NumWord
<1>3. Len(a) # 1
  BY TypedWords
<1>4. get_range(a) = IF o = BOGUS_SIZE THEN RangeError
                     ELSE IF l = BOGUS_SIZE THEN RangeError ELSE good
  BY <1>2, <1>3, Zenon DEF get_range
<1> HIDE DEF o, l, rest
<1>5. /\ RangeError.ok = FALSE /\ RangeError.offset = 0 /\ RangeError.length = 0
      /\ good.ok = TRUE /\ good.offset = o /\ good.length = l
  BY DEF RangeError
<1> HIDE DEF good
<1>6. CASE o = BOGUS_SIZE \/ l = BOGUS_SIZE
  <2>1. get_range(a) = RangeError
    BY <1>4, <1>6, Zenon
  <2> QED
    BY <1>1, <1>5, <1>6, <2>1, Zenon DEF IsRange, o, l
<1>7. CASE ~(o = BOGUS_SIZE \/ l = BOGUS_SIZE)
  <2>1. get_range(a) = good
    BY <1>4, <1>7, Zenon
  <2> QED
    BY <1>1, <1>5, <1>7, <2>1, Zenon DEF IsRange, o, l
<1> QED
  BY <1>6, <1>7

\* The range is the one typed as soon as there is one.
LEMMA RangeReadStep == RangeRead /\ [Next]_vars => RangeRead'
<1> SUFFICES ASSUME RangeRead, [Next]_vars PROVE RangeRead'
  OBVIOUS
<1>1. CASE Parse
  BY <1>1 DEF Parse, RangeRead
<1>2. CASE UNCHANGED vars
  BY <1>2 DEF vars, RangeRead
<1> QED
  BY <1>1, <1>2 DEF Next

\* RangeRead is inductive.
LEMMA RangeReadHolds == Spec => []RangeRead
<1>1. Init => RangeRead
  BY DEF Init, RangeRead, Lengths
<1> QED
  BY <1>1, RangeReadStep, PTL DEF Spec

\* The range is one of two sizes, before and after it is read.
LEMMA RangeSizes ==
    ASSUME RangeRead
    PROVE  offset \in Size /\ length \in Size
<1>1. CASE range = Untyped
  BY <1>1, WordAssumption DEF Untyped, offset, length, Size
<1>2. CASE range = get_range(args)
  <2>1. IsRange(get_range(args))
    BY GetRange DEF RangeRead
  <2> QED
    BY <1>2, <2>1 DEF IsRange, offset, length
<1> QED
  BY <1>1, <1>2 DEF RangeRead

-----------------------------------------------------------------------------
(***************************************************************************)
(* segment.c's round_up rounds the length of every range a user can type   *)
(* to the next page, or wraps around to 0 when there is none.              *)
(***************************************************************************)
THEOREM LengthsRoundUp == Spec => []RoundsToNextPage
<1>1. ASSUME RangeRead PROVE RoundsToNextPage
  <2> SUFFICES ASSUME NEW ps \in PageSizes \ {0}
               PROVE  LET above == {m \in Size : m >= length /\ m % ps = 0}
                      IN  IF above = {} THEN round_up(length, ps) = 0
                          ELSE /\ round_up(length, ps) \in above
                               /\ \A m \in above : round_up(length, ps) =< m
    BY DEF RoundsToNextPage
  <2> DEFINE above == {m \in Size : m >= length /\ m % ps = 0}
             up    == round_up(length, ps)
  <2>1. ps \in Size \ {0} /\ Word % ps = 0 /\ length \in Size
    BY <1>1, RangeSizes, UserRangeAssumption
  <2>2. length \in Nat /\ ps \in Nat /\ Word \in Nat
    BY <2>1, WordAssumption DEF Size
  <2>3. CASE length + ps - 1 < Word
    <3>1. /\ up \in Size /\ up >= length /\ up % ps = 0
          /\ \A m \in Size : m >= length /\ m % ps = 0 => up =< m
      BY <2>1, <2>3, RoundUp
    <3> HIDE DEF up
    <3>2. up \in above
      BY <3>1
    <3>3. \A m \in above : up =< m
      BY <3>1
    <3> HIDE DEF above
    <3>4. above # {}
      BY <3>2
    <3> QED
      BY <3>2, <3>3, <3>4 DEF above, up
  <2>4. CASE length + ps - 1 >= Word
    <3>1. up = 0 /\ \A m \in Size : m % ps = 0 => m < length
      BY <2>1, <2>4, RoundUp
    <3>2. above = {}
      BY <2>2, <3>1 DEF Size
    <3> QED
      BY <3>1, <3>2
  <2> QED
    BY <2>2, <2>3, <2>4
<1> QED
  BY <1>1, RangeReadHolds, PTL

(***************************************************************************)
(* The clipping of segment_touch(), segment_mbind(), segment_location()    *)
(* and segment_lock_unlock(): whatever the user typed, what is left is not *)
(* empty, lies in the segment, and has every byte of the segment asked for *)
(* when the offset is aligned.                                             *)
(***************************************************************************)
THEOREM ClipKeepsBytes == Spec => []ClipsInside
<1>1. ASSUME RangeRead PROVE ClipsInside
  <2> SUFFICES ASSUME NEW ps \in PageSizes \ {0}, NEW seglen \in SegLengths(ps),
                      RangeAccepted(offset, seglen, ps)
               PROVE  /\ Clipped(seglen, ps) # {} /\ Clipped(seglen, ps) \subseteq 0 .. seglen - 1
                      /\ offset % ps = 0 => Asked(seglen) \subseteq Clipped(seglen, ps)
    BY DEF ClipsInside
  <2> DEFINE first == ClipOffset(offset, ps)
             len   == ClipLength(offset, length, seglen, ps)
             up    == round_up(length, ps)
  <2>1. /\ ps \in Size /\ ps # 0 /\ Word % ps = 0 /\ seglen \in Size
        /\ offset \in Size /\ length \in Size
    BY <1>1, RangeSizes, UserRangeAssumption DEF SegLengths
  <2>2. /\ ps \in Nat \ {0} /\ seglen \in Nat /\ offset \in Nat /\ length \in Nat
        /\ Word \in Nat
    BY <2>1, WordAssumption DEF Size
  <2>3. len > 0 /\ first + len =< seglen
    BY <2>1, ClipInSegment
  <2>4. first \in Nat
    BY <2>2, RoundDown DEF ClipOffset
  <2>5. up = 0 \/ (up \in Nat /\ up >= length)
    BY <2>1, <2>2, RoundUp DEF Size
  <2>6. len = IF length = 0 \/ up = 0 \/ up > seglen - first THEN seglen - first ELSE up
    BY <2>2 DEF ClipLength, ClipOffset
  <2>7. Clipped(seglen, ps) = first .. first + len - 1
    BY DEF Clipped
  <2>8. offset % ps = 0 => first = offset
    BY <2>2 DEF ClipOffset, round_down
  <2> HIDE DEF first, len, up
  <2>9. len \in Nat
    BY <2>2, <2>4, <2>5, <2>6, <2>3
  <2>10. Clipped(seglen, ps) # {} /\ Clipped(seglen, ps) \subseteq 0 .. seglen - 1
    <3>1. first \in Clipped(seglen, ps)
      BY <2>3, <2>4, <2>7, <2>9
    <3>2. ASSUME NEW b \in Clipped(seglen, ps) PROVE b \in 0 .. seglen - 1
      BY <2>2, <2>3, <2>4, <2>7, <2>9
    <3> QED
      BY <3>1, <3>2
  <2>11. ASSUME offset % ps = 0, NEW b \in Asked(seglen)
         PROVE  b \in Clipped(seglen, ps)
    <3>1. b \in 0 .. seglen - 1 /\ b >= offset /\ (length # 0 => b < offset + length)
      BY <2>11 DEF Asked
    <3> QED
      BY <2>2, <2>4, <2>5, <2>6, <2>7, <2>8, <2>9, <2>11, <3>1
  <2> QED
    BY <2>10, <2>11
<1> QED
  BY <1>1, RangeReadHolds, PTL

\* Multiplying by a positive factor does not make a number smaller.
LEMMA FactorGrows ==
    ASSUME NEW n \in Nat, NEW f \in Nat \ {0}
    PROVE  n =< n * f /\ n * f \in Nat
<1>1. PICK g \in Nat : f = g + 1
  OBVIOUS
<1>2. n * f = n * g + n /\ n * g \in Nat
  BY <1>1
<1> QED
  BY <1>2

\* Shifting twice or three times is multiplying by the product.
LEMMA ShiftsMultiply ==
    ASSUME NEW n \in Nat, NEW c \in Nat \ {0}
    PROVE  /\ c * c \in Nat \ {0} /\ n * c * c = n * (c * c)
           /\ c * c * c \in Nat \ {0} /\ n * c * c * c = n * (c * c * c)
<1>1. c * c \in Nat \ {0} /\ c * c * c \in Nat \ {0}
  <2>1. c =< c * c /\ c * c \in Nat
    BY FactorGrows
  <2>2. c * c =< c * c * c /\ c * c * c \in Nat
    BY <2>1, FactorGrows
  <2> QED
    BY <2>1, <2>2
<1>2. n * c * c = n * (c * c)
  OBVIOUS
<1>3. n * c * c * c = n * (c * c * c)
  OBVIOUS
<1> QED
  BY <1>1, <1>2, <1>3

\* A product that fits in a size_t is what size_kmgp() computes.
LEMMA MeantRead ==
    ASSUME NEW w, NumWord(w), ~w.neg, w.scale # "?", Meant(w) < Word
    PROVE  get_scaled_value(w) = Meant(w)
<1> DEFINE n == w.num
<1>1. n \in Nat /\ w.k = "num" /\ w.neg = FALSE /\ w.scale \in {"", "p", "k", "m", "g"}
  BY Zenon DEF NumWord, Scales
<1>2. Word \in Nat \ {0} /\ PageSize \in Nat \ {0} /\ Kilo \in Nat \ {0}
  BY WordAssumption, ScaleAssumption
<1>3. Meant(w) = n * Factor(w)
  BY <1>1, Zenon DEF Meant
<1>4. strtoul(w) = IF n >= Word THEN Word - 1 ELSE n
  BY <1>1, Zenon DEF strtoul
<1>5. get_scaled_value(w) = size_kmgp(w)
  BY <1>1, Zenon DEF get_scaled_value
<1> HIDE DEF n
<1>0. n \in Nat
  BY <1>1, Zenon
<1>6. ASSUME NEW f \in Nat \ {0}, n * f < Word
      PROVE  strtoul(w) = n /\ (n * f) % Word = n * f
  <2>1. n =< n * f /\ n * f \in Nat
    BY <1>0, FactorGrows
  <2>2. ~(n >= Word) /\ n * f < Word + Word
    BY <1>0, <1>2, <1>6, <2>1
  <2>3. (n * f) % Word = n * f
    BY <1>2, <1>6, <2>1, <2>2, WrapOnce
  <2> QED
    BY <1>4, <2>2, <2>3
<1>7. CASE w.scale = ""
  <2>1. Factor(w) = 1 /\ size_kmgp(w) = strtoul(w)
    BY <1>7 DEF Factor, size_kmgp
  <2>2. n * 1 = n
    BY <1>0
  <2>3. strtoul(w) = n
    BY <1>3, <1>6, <2>1
  <2> QED
    BY <1>3, <1>5, <2>1, <2>2, <2>3
<1>8. CASE w.scale = "p"
  <2>1. Factor(w) = PageSize /\ size_kmgp(w) = (strtoul(w) * PageSize) % Word
    BY <1>8 DEF Factor, size_kmgp
  <2>2. strtoul(w) = n /\ (n * PageSize) % Word = n * PageSize
    BY <1>2, <1>3, <1>6, <2>1
  <2> QED
    BY <1>3, <1>5, <2>1, <2>2
<1>9. CASE w.scale = "k"
  <2>1. Factor(w) = Kilo /\ size_kmgp(w) = (strtoul(w) * Kilo) % Word
    BY <1>9 DEF Factor, size_kmgp
  <2>2. strtoul(w) = n /\ (n * Kilo) % Word = n * Kilo
    BY <1>2, <1>3, <1>6, <2>1
  <2> QED
    BY <1>3, <1>5, <2>1, <2>2
<1>10. CASE w.scale = "m"
  <2> DEFINE f == Kilo * Kilo
  <2>1. Factor(w) = f /\ size_kmgp(w) = (strtoul(w) * Kilo * Kilo) % Word
    BY <1>10 DEF Factor, size_kmgp
  <2>2. f \in Nat \ {0} /\ n * Kilo * Kilo = n * f
    BY <1>0, <1>2, ShiftsMultiply
  <2> HIDE DEF f
  <2>3. strtoul(w) = n /\ (n * f) % Word = n * f
    BY <1>3, <1>6, <2>1, <2>2
  <2> QED
    BY <1>3, <1>5, <2>1, <2>2, <2>3
<1>11. CASE w.scale = "g"
  <2> DEFINE f == Kilo * Kilo * Kilo
  <2>1. Factor(w) = f /\ size_kmgp(w) = (strtoul(w) * Kilo * Kilo * Kilo) % Word
    BY <1>11 DEF Factor, size_kmgp
  <2>2. f \in Nat \ {0} /\ n * Kilo * Kilo * Kilo = n * f
    BY <1>0, <1>2, ShiftsMultiply
  <2> HIDE DEF f
  <2>3. strtoul(w) = n /\ (n * f) % Word = n * f
    BY <1>3, <1>6, <2>1, <2>2
  <2> QED
    BY <1>3, <1>5, <2>1, <2>2, <2>3
<1> QED
  BY <1>1, <1>7, <1>8, <1>9, <1>10, <1>11

(***************************************************************************)
(* get_range() works on exactly what was typed as long as it fits in a     *)
(* size_t, whatever the scale factors, and refuses only the error value.   *)
(***************************************************************************)
THEOREM RangeAsTyped == Spec => []TypedRangeKept
<1>1. ASSUME RangeRead PROVE TypedRangeKept
  <2> SUFFICES ASSUME range # Untyped, Plausible(args[1]), Plausible(args[2]),
                      Meant(args[1]) < Word, Meant(args[2]) < Word
               PROVE  /\ range.ok <=> Meant(args[1]) # BOGUS_SIZE /\ Meant(args[2]) # BOGUS_SIZE
                      /\ range.ok => offset = Meant(args[1]) /\ length = Meant(args[2])
    BY Zenon DEF TypedRangeKept
  <2>1. args \in Numbers \X Lengths /\ range = get_range(args)
    BY <1>1 DEF RangeRead
  <2>2. /\ NumWord(args[1]) /\ ~args[1].neg
        /\ NumWord(args[2]) \/ args[2].k = "star"
    BY <2>1, TypedWords
  <2> DEFINE o == get_scaled_value(args[1])
             l == IF args[2].k = "star" THEN 0 ELSE get_scaled_value(args[2])
  <2>3. /\ range.ok <=> o # BOGUS_SIZE /\ l # BOGUS_SIZE
        /\ range.ok => offset = o /\ length = l
    BY <2>1, GetRange, Zenon DEF offset, length
  <2>4. o = Meant(args[1])
    <3>1. args[1].scale # "?"
      BY <2>2, Zenon DEF Plausible, NumWord
    <3> QED
      BY <2>2, <3>1, MeantRead
  <2>5. l = Meant(args[2])
    <3>1. CASE args[2].k = "star"
      BY <3>1, Zenon DEF Meant
    <3>2. CASE args[2].k # "star"
      <4>1. NumWord(args[2]) /\ ~args[2].neg /\ args[2].scale # "?"
        BY <2>2, <3>2, Zenon DEF Plausible, NumWord
      <4>2. get_scaled_value(args[2]) = Meant(args[2])
        BY <4>1, MeantRead
      <4> QED
        BY <3>2, <4>2, Zenon
    <3> QED
      BY <3>1, <3>2
  <2> HIDE DEF o, l
  <2> QED
    BY <2>3, <2>4, <2>5, Zenon
<1> QED
  BY <1>1, RangeReadHolds, PTL

-----------------------------------------------------------------------------
(***************************************************************************)
(* Rounding with the mask.                                                 *)
(***************************************************************************)

\* The mask of a page size, and the mask of a page size of 0.
LEMMA MaskIs ==
    /\ pagemask(0) = Word - 1
    /\ \A ps \in PageSizes \ {0} : pagemask(ps) = ps - 1
<1>1. Word \in Nat /\ Word > 1
  BY WordAssumption
<1>2. (0 - 1) % Word = Word - 1
  <2> DEFINE q == (0 - 1) \div Word
             m == (0 - 1) % Word
  <2>1. -1 = Word * q + m /\ q \in Int /\ m \in 0 .. Word - 1
    BY <1>1
  <2> HIDE DEF q, m
  <2>2. q < 0
    <3> SUFFICES ASSUME q \in Nat PROVE FALSE
      BY <2>1
    <3>1. Word * q \in Nat
      BY <1>1
    <3> QED
      BY <2>1, <3>1
  <2>3. q >= -1
    <3> SUFFICES ASSUME ~(q >= -1) PROVE FALSE
      OBVIOUS
    <3>1. PICK r \in Nat : q = -2 - r
      BY <2>1
    <3>2. Word * q = -2 * Word - Word * r /\ Word * r \in Nat
      BY <1>1, <3>1
    <3> QED
      BY <1>1, <2>1, <3>2
  <2>4. q = -1
    BY <2>1, <2>2, <2>3
  <2>5. m = Word - 1
    BY <1>1, <2>1, <2>4
  <2> QED
    BY <2>5 DEF m
<1>3. ASSUME NEW ps \in PageSizes \ {0} PROVE (ps - 1) % Word = ps - 1
  <2>1. ps \in 1 .. Word - 1
    BY <1>1, UserRangeAssumption DEF Size
  <2>2. ps - 1 \in Nat /\ ps - 1 < Word
    BY <1>1, <2>1
  <2> QED
    BY <1>1, <2>2, WrapOnce
<1> QED
  BY <1>2, <1>3 DEF pagemask

\* The bits of a size without those of the mask are the size rounded down.
LEMMA MaskRounds ==
    ASSUME NEW s \in Size, NEW ps \in PageSizes
    PROVE  And(s, Complement(pagemask(ps)), WordBits) = round_down(s, ps)
<1> DEFINE c == Complement(pagemask(ps))
           z == round_down(s, ps)
<1>1. s \in Nat /\ s < Word /\ Word \in Nat \ {0} /\ WordBits \in Nat /\ Word = Pow2[WordBits]
  BY WordAssumption, RangeMaskAssumption DEF Size
<1>2. z \in Nat /\ z < Word
  <2>1. ps \in Nat
    BY UserRangeAssumption, WordAssumption DEF Size
  <2>2. CASE ps = 0
    BY <1>1, <2>2 DEF round_down
  <2>3. CASE ps # 0
    <3>1. ps \in Nat \ {0}
      BY <2>1, <2>3
    <3>2. z \in Nat /\ z =< s
      BY <1>1, <3>1, RoundDown
    <3> HIDE DEF z
    <3> QED
      BY <1>1, <3>2
  <2> QED
    BY <2>2, <2>3
<1>3. ASSUME NEW b \in 0 .. WordBits - 1 PROVE Bit(z, b) <=> Bit(s, b) /\ Bit(c, b)
  <2>0. b \in Nat
    BY <1>1
  <2>1. CASE ps = 0
    <3>1. c = 0
      BY <1>1, <2>1, MaskIs DEF Complement
    <3>2. z = 0
      BY <2>1 DEF round_down
    <3>3. ~Bit(0, b)
      BY <2>0, NoBits
    <3> QED
      BY <3>1, <3>2, <3>3
  <2>2. CASE ps # 0
    <3>1. PICK k \in 0 .. WordBits : ps = Pow2[k]
      BY <2>2, RangeMaskAssumption
    <3>2. ps \in Nat /\ pagemask(ps) = ps - 1
      BY <2>2, MaskIs, UserRangeAssumption, WordAssumption DEF Size
    <3>3. c = Pow2[WordBits] - Pow2[k]
      BY <1>1, <3>1, <3>2 DEF Complement
    <3>4. k \in Nat
      BY <1>1
    <3> HIDE DEF c
    <3>5. Bit(c, b) <=> k =< b
      <4>1. Bit(Pow2[WordBits] - Pow2[k], b) <=> k =< b
        BY <1>1, MaskBits
      <4> QED
        BY <3>3, <4>1
    <3>6. Bit(z, b) <=> k =< b /\ Bit(s, b)
      BY <1>1, <2>0, <3>1, <3>4, RoundBits
    <3> HIDE DEF z
    <3> QED
      BY <3>5, <3>6
  <2> QED
    BY <2>1, <2>2
<1> HIDE DEF c, z
<1>4. And(s, c, WordBits) = z % Pow2[WordBits]
  BY <1>1, <1>2, <1>3, AndIs
<1>5. z % Word = z
  BY <1>1, <1>2, WrapOnce
<1>6. And(s, c, WordBits) = z
  BY <1>1, <1>4, <1>5
<1> QED
  BY <1>6 DEF c, z

(***************************************************************************)
(* The mask of segment.c rounds as the arithmetic the other modules use,   *)
(* for a size_t of any number of bits and any power of two as page size,   *)
(* and for a page size of 0 both give 0.                                   *)
(***************************************************************************)
THEOREM MaskRoundsExactly == Spec => []MaskIsRounding
<1>1. ASSUME RangeRead PROVE MaskIsRounding
  <2>1. length \in Size
    BY <1>1, RangeSizes
  <2> SUFFICES ASSUME NEW ps \in PageSizes
               PROVE  /\ round_down_to_segment_pagesize(length, ps) = round_down(length, ps)
                      /\ round_up_to_segment_pagesize(length, ps) = round_up(length, ps)
    BY DEF MaskIsRounding
  <2>2. round_down_to_segment_pagesize(length, ps) = round_down(length, ps)
    BY <2>1, MaskRounds DEF round_down_to_segment_pagesize
  <2> DEFINE u == (length + pagemask(ps)) % Word
  <2>3. ps \in Nat /\ length \in Nat /\ Word \in Nat \ {0}
    BY <2>1, UserRangeAssumption, WordAssumption DEF Size
  <2>4. u \in Size
    <3>1. length + pagemask(ps) \in Nat
      BY <2>3, MaskIs, WordAssumption
    <3> DEFINE t == length + pagemask(ps)
    <3> HIDE DEF t
    <3>2. t \in Nat
      BY <3>1 DEF t
    <3>3. t % Word \in 0 .. Word - 1
      BY <2>3, <3>2, DivMod
    <3> QED
      BY <3>3 DEF t, Size
  <2>5. round_up_to_segment_pagesize(length, ps) = round_down(u, ps)
    <3> HIDE DEF u
    <3>1. And(u, Complement(pagemask(ps)), WordBits) = round_down(u, ps)
      BY <2>4, MaskRounds
    <3> QED
      BY <3>1 DEF round_up_to_segment_pagesize, u
  <2>6. round_down(u, ps) = round_up(length, ps)
    <3>1. CASE ps = 0
      BY <3>1 DEF round_down, round_up
    <3>2. CASE ps # 0
      <4>1. length + pagemask(ps) = length + ps - 1
        BY <2>3, <3>2, MaskIs
      <4> QED
        BY <3>2, <4>1 DEF round_up
    <3> QED
      BY <3>1, <3>2
  <2> QED
    BY <2>2, <2>5, <2>6
<1> QED
  BY <1>1, RangeReadHolds, PTL

=============================================================================
