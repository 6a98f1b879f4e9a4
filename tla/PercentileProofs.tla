-------------------------- MODULE PercentileProofs --------------------------
(***************************************************************************)
(* What the percentile of market_stats.py returns, for a sample of any     *)
(* size: the order statistic is a member of the sample, and the percentile *)
(* lies between the lowest and the highest value and grows with p.         *)
(***************************************************************************)
EXTENDS Percentile, InductionProofs

-----------------------------------------------------------------------------
(* Order statistics. *)

(* A sample of naturals, as the prices per square metre of a group are. *)
IsSample(s) == /\ s \in [DOMAIN s -> Nat]
               /\ IsFiniteSet(DOMAIN s)
               /\ DOMAIN s # {}

(* The members at or below a value are finitely many, and more of them at or *)
(* below a higher one.                                                       *)
LEMMA AtMostMonotone ==
  ASSUME NEW s, IsSample(s), NEW v \in Int, NEW u \in Int, v <= u
  PROVE  /\ AtMost(s, v) \subseteq AtMost(s, u)
         /\ IsFiniteSet(AtMost(s, v)) /\ IsFiniteSet(AtMost(s, u))
         /\ Cardinality(AtMost(s, v)) \in Nat /\ Cardinality(AtMost(s, u)) \in Nat
         /\ Cardinality(AtMost(s, v)) <= Cardinality(AtMost(s, u))
<1>1. AtMost(s, v) \in SUBSET AtMost(s, u) /\ AtMost(s, u) \in SUBSET DOMAIN s
  BY DEF AtMost, IsSample
<1>2. IsFiniteSet(AtMost(s, u))
  BY <1>1, FS_Subset DEF IsSample
<1>3. IsFiniteSet(AtMost(s, v)) /\ Cardinality(AtMost(s, v)) <= Cardinality(AtMost(s, u))
  BY <1>1, <1>2, FS_Subset
<1> QED BY <1>1, <1>2, <1>3, FS_CardinalityType

(* sorted_data[i] exists for every index of the sample. *)
LEMMA NthExists ==
  ASSUME NEW s, IsSample(s), NEW i \in Nat, i < Size(s)
  PROVE  \E v \in {s[x] : x \in DOMAIN s} :
            /\ Cardinality(AtMost(s, v)) > i
            /\ Cardinality(AtMost(s, v - 1)) <= i
<1> DEFINE values == {s[x] : x \in DOMAIN s}
           reached == {v \in values : Cardinality(AtMost(s, v)) > i}
<1>1. values \in SUBSET Nat /\ values # {} /\ IsFiniteSet(values)
  <2>2. \A x \in DOMAIN s : s[x] \in Nat
    BY DEF IsSample
  <2>3. IsFiniteSet({s[x] : x \in DOMAIN s})
    BY FinitelyMany, Zenon DEF IsSample
  <2> QED BY <2>2, <2>3 DEF IsSample
<1>2. PICK top \in values : \A v \in values : v <= top
  <2> HIDE DEF values
  <2> QED BY <1>1, Greatest
<1>3. AtMost(s, top) = DOMAIN s
  BY <1>2 DEF AtMost
<1>4. reached # {} /\ reached \in SUBSET Nat
  BY <1>1, <1>3 DEF Size
<1>5. PICK v \in reached : \A u \in reached : v <= u
  <2> HIDE DEF reached
  <2> QED BY <1>4, Least
<1>6. v \in values /\ v \in Nat /\ Cardinality(AtMost(s, v)) > i
  BY <1>1, <1>5
<1>7. Cardinality(AtMost(s, v - 1)) <= i
  <2>1. CASE AtMost(s, v - 1) = {}
    BY <2>1, FS_EmptySet
  <2>2. CASE AtMost(s, v - 1) # {}
    <3> DEFINE lower == {s[x] : x \in AtMost(s, v - 1)}
    <3>1. AtMost(s, v - 1) \subseteq DOMAIN s /\ IsFiniteSet(AtMost(s, v - 1))
      <4>1. v - 1 \in Int /\ v - 1 <= v
        BY <1>6
      <4>2. IsFiniteSet(AtMost(s, v - 1))
        BY <1>6, <4>1, AtMostMonotone
      <4> QED BY <4>2 DEF AtMost
    <3>2. lower \in SUBSET Nat /\ lower # {} /\ IsFiniteSet(lower)
      <4>1. IsFiniteSet(lower)
        BY <3>1, FinitelyMany
      <4>2. \A x \in DOMAIN s : s[x] \in Nat
        BY DEF IsSample
      <4> QED BY <2>2, <3>1, <4>1, <4>2
    <3>3. PICK u \in lower : \A x \in lower : x <= u
      <4> HIDE DEF lower
      <4> QED BY <3>2, Greatest
    <3>4. u \in values /\ u \in Nat /\ u <= v - 1
      BY <3>1, <3>2, <3>3 DEF AtMost
    <3>5. AtMost(s, v - 1) = AtMost(s, u)
      <4>1. \A x \in DOMAIN s : s[x] \in Nat
        BY DEF IsSample
      <4> QED BY <3>3, <3>4, <4>1, <1>6 DEF AtMost
    <3>6. u \notin reached
      BY <1>5, <1>6, <3>4
    <3>7. Cardinality(AtMost(s, u)) \in Nat
      BY <3>4, AtMostMonotone
    <3> QED BY <3>4, <3>5, <3>6, <3>7
  <2> QED BY <2>1, <2>2
<1> QED BY <1>6, <1>7

(* What Nth returns. *)
LEMMA NthIs ==
  ASSUME NEW s, IsSample(s), NEW i \in Nat, i < Size(s)
  PROVE  /\ Nth(s, i) \in {s[x] : x \in DOMAIN s}
         /\ Nth(s, i) \in Nat
         /\ Cardinality(AtMost(s, Nth(s, i))) > i
         /\ Cardinality(AtMost(s, Nth(s, i) - 1)) <= i
<1>1. /\ Nth(s, i) \in {s[x] : x \in DOMAIN s}
      /\ Cardinality(AtMost(s, Nth(s, i))) > i
      /\ Cardinality(AtMost(s, Nth(s, i) - 1)) <= i
  BY NthExists, Zenon DEF Nth
<1> QED BY <1>1 DEF IsSample
(* A later position holds a value as high or higher. *)
LEMMA NthMonotone ==
  ASSUME NEW s, IsSample(s), NEW i \in Nat, NEW j \in Nat, i <= j, j < Size(s),
         Size(s) \in Nat
  PROVE  Nth(s, i) <= Nth(s, j)
<1>1. Nth(s, i) \in Nat /\ Cardinality(AtMost(s, Nth(s, i) - 1)) <= i
  BY NthIs
<1>2. Nth(s, j) \in Nat /\ Cardinality(AtMost(s, Nth(s, j))) > j
  BY NthIs
<1>3. ASSUME Nth(s, j) < Nth(s, i) PROVE FALSE
  <2>1. Nth(s, j) \in Int /\ Nth(s, i) - 1 \in Int /\ Nth(s, j) <= Nth(s, i) - 1
    BY <1>1, <1>2, <1>3
  <2>2. /\ Cardinality(AtMost(s, Nth(s, j))) \in Nat
        /\ Cardinality(AtMost(s, Nth(s, i) - 1)) \in Nat
        /\ Cardinality(AtMost(s, Nth(s, j))) <= Cardinality(AtMost(s, Nth(s, i) - 1))
    BY <2>1, AtMostMonotone
  <2> QED BY <1>1, <1>2, <2>2
<1> QED BY <1>1, <1>2, <1>3

LEMMA SizeType == ASSUME NEW s, IsSample(s) PROVE Size(s) \in Nat \ {0}
<1>1. Cardinality(DOMAIN s) \in Nat
  BY FS_CardinalityType DEF IsSample
<1>2. Cardinality(DOMAIN s) # 0
  BY FS_EmptySet DEF IsSample
<1> QED BY <1>1, <1>2 DEF Size

-----------------------------------------------------------------------------
(* Interpolation. *)

(* Where the percentile of a sample of n lies: above position lo, by at % 100 *)
(* hundredths of the way to the next one.                                    *)
LEMMA Position ==
  ASSUME NEW n \in Nat \ {0}, NEW p \in 0..100
  PROVE  /\ p * (n - 1) \in Nat
         /\ (p * (n - 1)) \div 100 \in 0..(n - 1)
         /\ (p * (n - 1)) % 100 \in 0..99
<1>1. p * (n - 1) \in Nat /\ p * (n - 1) <= 100 * (n - 1)
  OBVIOUS
<1> QED BY <1>1

(* Between two values, as far as the fraction says. *)
LEMMA Interpolation ==
  ASSUME NEW a \in Nat, NEW b \in Nat, a <= b, NEW f \in 0..99, NEW g \in 0..99, f <= g
  PROVE  /\ (f * (b - a)) \div 100 \in 0..(b - a)
         /\ (f * (b - a)) \div 100 <= (g * (b - a)) \div 100
<1> DEFINE d == b - a
<1>1. d \in Nat
  OBVIOUS
<1> HIDE DEF d
<1>2. f * d \in Nat /\ g * d \in Nat /\ f * d <= g * d /\ f * d <= 100 * d
  BY <1>1
<1>3. (f * d) \div 100 \in 0..d /\ (f * d) \div 100 <= (g * d) \div 100
  BY <1>1, <1>2
<1> QED BY <1>3 DEF d
(* The two order statistics a percentile lies between, and how far along.    *)
At(s, p) == p * (Size(s) - 1)
Low(s, p) == At(s, p) \div 100
High(s, p) == IF Low(s, p) + 1 < Size(s) THEN Low(s, p) + 1 ELSE Size(s) - 1
Along(s, p) == At(s, p) % 100

LEMMA Between ==
  ASSUME NEW s, IsSample(s), NEW p \in 0..100
  PROVE  /\ Size(s) \in Nat \ {0}
         /\ At(s, p) \in Nat
         /\ Low(s, p) \in 0..(Size(s) - 1)
         /\ High(s, p) \in 0..(Size(s) - 1)
         /\ Low(s, p) <= High(s, p)
         /\ Along(s, p) \in 0..99
         /\ Nth(s, Low(s, p)) \in Nat
         /\ Nth(s, High(s, p)) \in Nat
         /\ Nth(s, Low(s, p)) <= Nth(s, High(s, p))
         /\ PercentileOf(s, p) = Nth(s, Low(s, p))
              + (Along(s, p) * (Nth(s, High(s, p)) - Nth(s, Low(s, p)))) \div 100
         /\ PercentileOf(s, p) \in Nth(s, Low(s, p))..Nth(s, High(s, p))
<1>1. Size(s) \in Nat \ {0}
  BY SizeType
<1>2. /\ At(s, p) \in Nat
      /\ Low(s, p) \in 0..(Size(s) - 1)
      /\ Along(s, p) \in 0..99
  BY <1>1, Position DEF At, Low, Along
<1>3. High(s, p) \in 0..(Size(s) - 1) /\ Low(s, p) <= High(s, p)
  BY <1>1, <1>2 DEF High
<1>4. /\ Low(s, p) \in Nat /\ High(s, p) \in Nat
      /\ Low(s, p) < Size(s) /\ High(s, p) < Size(s)
  BY <1>1, <1>2, <1>3
<1>5. Nth(s, Low(s, p)) \in Nat /\ Nth(s, High(s, p)) \in Nat
  BY <1>4, NthIs
<1>6. Nth(s, Low(s, p)) <= Nth(s, High(s, p))
  BY <1>1, <1>3, <1>4, NthMonotone
<1>7. PercentileOf(s, p) = Nth(s, Low(s, p))
        + (Along(s, p) * (Nth(s, High(s, p)) - Nth(s, Low(s, p)))) \div 100
  BY DEF PercentileOf, At, Low, High, Along
<1>8. (Along(s, p) * (Nth(s, High(s, p)) - Nth(s, Low(s, p)))) \div 100
        \in 0..(Nth(s, High(s, p)) - Nth(s, Low(s, p)))
  <2>1. Along(s, p) <= Along(s, p)
    BY <1>2
  <2> QED BY <1>2, <1>5, <1>6, <2>1, Interpolation, Zenon
<1>9. PercentileOf(s, p) \in Nth(s, Low(s, p))..Nth(s, High(s, p))
  BY <1>5, <1>6, <1>7, <1>8
<1> QED BY <1>1, <1>2, <1>3, <1>5, <1>6, <1>7, <1>9

-----------------------------------------------------------------------------
(* What callers of percentile rely on. *)

(* The percentile of a sample of naturals is a natural. *)
THEOREM PercentileType ==
  ASSUME NEW s, IsSample(s), NEW p \in 0..100
  PROVE  PercentileOf(s, p) \in Nat
  BY Between

(* No percentile is below every value of the sample or above every value.    *)
THEOREM PercentileWithin ==
  ASSUME NEW s, IsSample(s), NEW p \in 0..100
  PROVE  \E x, y \in DOMAIN s : s[x] <= PercentileOf(s, p) /\ PercentileOf(s, p) <= s[y]
<1>1. /\ Low(s, p) \in Nat /\ Low(s, p) < Size(s)
      /\ High(s, p) \in Nat /\ High(s, p) < Size(s)
  BY Between
<1>2. PICK x \in DOMAIN s : s[x] = Nth(s, Low(s, p))
  BY <1>1, NthIs
<1>3. PICK y \in DOMAIN s : s[y] = Nth(s, High(s, p))
  BY <1>1, NthIs
<1>4. PercentileOf(s, p) \in Nth(s, Low(s, p))..Nth(s, High(s, p))
  BY Between
<1> QED BY <1>2, <1>3, <1>4

(* A higher percentile is not lower: p25 <= p50 <= p65 <= p75 of one         *)
(* sample, as compute_stats stores them.                                     *)
THEOREM PercentileGrows ==
  ASSUME NEW s, IsSample(s), NEW p \in 0..100, NEW q \in 0..100, p <= q
  PROVE  PercentileOf(s, p) <= PercentileOf(s, q)
<1> DEFINE n == Size(s)
           a == Nth(s, Low(s, p))
           b == Nth(s, High(s, p))
           c == Nth(s, Low(s, q))
<1>1. /\ n \in Nat \ {0} /\ a \in Nat /\ b \in Nat /\ c \in Nat /\ a <= b
      /\ At(s, p) \in Nat /\ At(s, q) \in Nat
      /\ Low(s, p) \in 0..(n - 1) /\ Low(s, q) \in 0..(n - 1)
      /\ High(s, p) \in 0..(n - 1)
      /\ Along(s, p) \in 0..99 /\ Along(s, q) \in 0..99
  BY Between
<1>2. At(s, p) <= At(s, q)
  <2>1. n - 1 \in Nat
    BY <1>1
  <2>2. p * (n - 1) <= q * (n - 1)
    BY <2>1
  <2> QED BY <2>2 DEF At
<1>3. CASE Low(s, p) = Low(s, q)
  <2>1. Along(s, p) <= Along(s, q)
    BY <1>1, <1>2, <1>3 DEF Low, Along
  <2>2. High(s, p) = High(s, q)
    BY <1>3 DEF High
  <2>3. (Along(s, p) * (b - a)) \div 100 <= (Along(s, q) * (b - a)) \div 100
    BY <1>1, <2>1, Interpolation, Zenon
  <2>4. /\ (Along(s, p) * (b - a)) \div 100 \in Int
        /\ (Along(s, q) * (b - a)) \div 100 \in Int
    BY <1>1
  <2> QED BY <1>1, <1>3, <2>2, <2>3, <2>4, Between
<1>4. CASE Low(s, p) # Low(s, q)
  <2>1. Low(s, p) < Low(s, q)
    BY <1>1, <1>2, <1>4 DEF Low
  <2>2. High(s, p) <= Low(s, q)
    BY <1>1, <2>1 DEF High
  <2>3. b <= c
    BY <1>1, <2>2, NthMonotone
  <2>4. PercentileOf(s, p) \in a..b /\ PercentileOf(s, q) \in c..Nth(s, High(s, q))
        /\ Nth(s, High(s, q)) \in Nat
    BY Between
  <2> QED BY <1>1, <2>3, <2>4
<1> QED BY <1>3, <1>4
=============================================================================
