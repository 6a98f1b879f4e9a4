--------------------------- MODULE AnalyzerProofs ---------------------------
(***************************************************************************)
(* Theorems of Analyzer, for every home, price, market and investor.       *)
(*                                                                         *)
(* Rounding half to even keeps the order of what it rounds; so does every  *)
(* step from there on: a higher resale value or a lower price gives a      *)
(* higher profit, margin, number of points, score and decision.  What      *)
(* compares two stored analyses is an instance of that.  What compares an  *)
(* analysis with another computation bounds the error of each rounding.    *)
(***************************************************************************)
EXTENDS Analyzer, InductionProofs

-----------------------------------------------------------------------------
(***************************************************************************)
(* Rounding.                                                               *)
(***************************************************************************)

(* The quotient and the remainder of a division. *)
LEMMA DivMod ==
  ASSUME NEW x \in Int, NEW d \in Nat \ {0}
  PROVE  x \div d \in Int /\ x % d \in 0..(d - 1) /\ x = d * (x \div d) + (x % d)
  OBVIOUS

(* There is no other quotient with a remainder below the divisor. *)
LEMMA DivModIs ==
  ASSUME NEW x \in Int, NEW d \in Nat \ {0}, NEW q \in Int, NEW r \in 0..(d-1), x = d * q + r
  PROVE  x \div d = q /\ x % d = r
  OBVIOUS

(* x / d, rounded half to even. *)
Round(x, d) == HalfEven(x \div d, x % d, d)

(* The result is at most a half from x / d. *)
LEMMA RoundNear ==
  ASSUME NEW x \in Int, NEW d \in Nat \ {0}
  PROVE  Round(x, d) \in Int /\ 2 * (d * Round(x, d)) <= 2 * x + d /\ 2 * x <= 2 * (d * Round(x, d)) + d
<1> DEFINE q == x \div d
           r == x % d
           e == Round(x, d)
<1>1. q \in Int /\ r \in 0..(d - 1) /\ x = d * q + r
  BY DivMod
<1>2. e = HalfEven(q, r, d)
  BY DEF Round
<1> HIDE DEF q, r, e
<1>3. CASE e = q /\ 2 * r <= d
  BY <1>1, <1>3 DEF e
<1>4. CASE e = q + 1 /\ 2 * r >= d
  <2>1. d * e = d * q + d /\ d * q \in Int
    BY <1>1, <1>4
  <2> QED BY <1>1, <1>4, <2>1 DEF e
<1> QED BY <1>1, <1>2, <1>3, <1>4 DEF HalfEven

(* Rounding keeps the order.  Half to even, two halves never cross. *)
LEMMA RoundGrows ==
  ASSUME NEW x \in Int, NEW y \in Int, NEW d \in Nat \ {0}, x <= y
  PROVE  Round(x, d) <= Round(y, d)
<1> DEFINE q == x \div d
           r == x % d
           k == y \div d
           s == y % d
<1>1. q \in Int /\ r \in 0..(d - 1) /\ x = d * q + r /\ k \in Int /\ s \in 0..(d - 1) /\ y = d * k + s
  BY DivMod
<1> HIDE DEF q, r, k, s
<1>2. q <= k
  BY <1>1
<1>3. HalfEven(q, r, d) \in {q, q + 1} /\ HalfEven(k, s, d) \in {k, k + 1}
  BY DEF HalfEven
<1>4. CASE q < k
  BY <1>1, <1>3, <1>4 DEF Round, q, r, k, s
<1>5. CASE q = k
  <2>1. r <= s
    BY <1>1, <1>5
  <2>2. HalfEven(q, r, d) <= HalfEven(q, s, d)
    BY <1>1, <2>1 DEF HalfEven
  <2> QED BY <1>5, <2>2 DEF Round, q, r, k, s
<1> QED BY <1>1, <1>2, <1>4, <1>5

(* Part rounds amount * n / d, once. *)
LEMMA PartRounds ==
  ASSUME NEW amount \in Nat, NEW n \in Nat, NEW d \in Nat \ {0}
  PROVE  Part(amount, n, d) = Round(amount * n, d)
<1> DEFINE q == amount \div d
           r == amount % d
           rest == r * n
           k == rest \div d
           s == rest % d
<1>1. q \in Int /\ r \in 0..(d - 1) /\ amount = d * q + r
  BY DivMod
<1>2. rest \in Int
  BY <1>1
<1>3. k \in Int /\ s \in 0..(d - 1) /\ rest = d * k + s
  BY <1>2, DivMod
<1>4. Part(amount, n, d) = HalfEven(q * n + k, s, d)
  BY DEF Part
<1> HIDE DEF q, r, k, s
<1>5. amount * n = d * (q * n + k) + s
  <2>1. amount * n = (d * q) * n + r * n
    BY <1>1
  <2>2. (d * q) * n = d * (q * n) /\ q * n \in Int
    BY <1>1
  <2>3. d * (q * n + k) = d * (q * n) + d * k
    BY <1>3, <2>2
  <2> QED BY <1>1, <1>3, <2>1, <2>2, <2>3
<1>6. (amount * n) \div d = q * n + k /\ (amount * n) % d = s
  <2>1. amount * n \in Int /\ q * n + k \in Int
    BY <1>1, <1>3
  <2> HIDE DEF rest
  <2> QED BY <1>3, <1>5, <2>1, DivModIs
<1> QED BY <1>4, <1>6 DEF Round

(* Pct rounds 10000 * value / base, once. *)
LEMMA PctRounds ==
  ASSUME NEW value \in Int, NEW base \in Nat \ {0}
  PROVE  Pct(value, base) = Round(10000 * value, base)
<1> DEFINE q == (value * 100) \div base
           r == (value * 100) % base
           rest == 100 * r
           k == rest \div base
           s == rest % base
<1>1. q \in Int /\ r \in 0..(base - 1) /\ value * 100 = base * q + r
  <2>1. value * 100 \in Int
    OBVIOUS
  <2> QED BY <2>1, DivMod
<1>2. rest \in Int
  BY <1>1
<1>3. k \in Int /\ s \in 0..(base - 1) /\ rest = base * k + s
  BY <1>2, DivMod
<1>4. Pct(value, base) = HalfEven(100 * q + k, s, base)
  BY DEF Pct
<1> HIDE DEF q, r, k, s
<1>5. 10000 * value = base * (100 * q + k) + s
  <2>1. 10000 * value = 100 * (base * q) + 100 * r /\ base * q \in Int
    BY <1>1
  <2>2. base * (100 * q + k) = 100 * (base * q) + base * k
    BY <1>1, <1>3
  <2> QED BY <1>1, <1>3, <2>1, <2>2
<1>6. (10000 * value) \div base = 100 * q + k /\ (10000 * value) % base = s
  <2>1. 10000 * value \in Int /\ 100 * q + k \in Int
    BY <1>1, <1>3
  <2> HIDE DEF rest
  <2> QED BY <1>3, <1>5, <2>1, DivModIs
<1> QED BY <1>4, <1>6 DEF Round

(* A part is at most a half from what it stands for. *)
LEMMA PartNear ==
  ASSUME NEW a \in Nat, NEW n \in Nat, NEW d \in Nat \ {0}
  PROVE  /\ Part(a, n, d) \in Nat
         /\ 2 * (d * Part(a, n, d)) <= 2 * (a * n) + d /\ 2 * (a * n) <= 2 * (d * Part(a, n, d)) + d
<1>1. a * n \in Nat
  OBVIOUS
<1>2. 0 \div d = 0 /\ 0 % d = 0
  <2>1. 0 = d * 0 + 0 /\ 0 \in 0..(d - 1)
    OBVIOUS
  <2> QED BY <2>1, DivModIs
<1>3. Round(0, d) = 0
  BY <1>2 DEF Round, HalfEven
<1>4. Round(0, d) <= Round(a * n, d) /\ Round(a * n, d) \in Int
  BY <1>1, RoundGrows, RoundNear
<1>5. /\ 2 * (d * Round(a * n, d)) <= 2 * (a * n) + d
      /\ 2 * (a * n) <= 2 * (d * Round(a * n, d)) + d
  BY <1>1, RoundNear
<1>6. Part(a, n, d) = Round(a * n, d)
  BY PartRounds
<1> QED BY <1>3, <1>4, <1>5, <1>6

(* A part of an amount is an amount. *)
LEMMA PartType ==
  ASSUME NEW a \in Nat, NEW n \in Nat, NEW d \in Nat \ {0}
  PROVE  Part(a, n, d) \in Nat
  BY PartNear

(* A larger share of a larger amount is no smaller. *)
LEMMA PartGrows ==
  ASSUME NEW a \in Nat, NEW b \in Nat, NEW n \in Nat, NEW k \in Nat, NEW d \in Nat \ {0}, a <= b, n <= k
  PROVE  Part(a, n, d) <= Part(b, k, d)
<1>1. a * n \in Nat /\ b * k \in Nat /\ a * n <= b * k
  <2>1. a * n <= b * n /\ b * n <= b * k
    OBVIOUS
  <2>2. a * n \in Nat /\ b * k \in Nat /\ b * n \in Nat
    OBVIOUS
  <2> QED BY <2>1, <2>2
<1> QED BY <1>1, RoundGrows, PartRounds

(* A percentage of the same base keeps the order. *)
LEMMA PctGrows ==
  ASSUME NEW v \in Int, NEW w \in Int, NEW base \in Nat, v <= w
  PROVE  Pct(v, base) <= Pct(w, base) /\ Pct(v, base) \in Int
<1>1. CASE base = 0
  BY <1>1 DEF Pct
<1>2. CASE base # 0
  <2>1. 10000 * v \in Int /\ 10000 * w \in Int /\ 10000 * v <= 10000 * w
    OBVIOUS
  <2> QED BY <1>2, <2>1, RoundGrows, RoundNear, PctRounds
<1> QED BY <1>1, <1>2

(* A percentage is at most half a hundredth off. *)
LEMMA PctNear ==
  ASSUME NEW v \in Int, NEW base \in Nat \ {0}
  PROVE  /\ Pct(v, base) \in Int
         /\ 2 * (base * Pct(v, base)) <= 20000 * v + base
         /\ 20000 * v <= 2 * (base * Pct(v, base)) + base
<1>1. 10000 * v \in Int
  OBVIOUS
<1>2. /\ Round(10000 * v, base) \in Int
      /\ 2 * (base * Round(10000 * v, base)) <= 2 * (10000 * v) + base
      /\ 2 * (10000 * v) <= 2 * (base * Round(10000 * v, base)) + base
  BY <1>1, RoundNear
<1> QED BY <1>2, PctRounds

(* What reaches k hundredths of a percent rounds to k at least. *)
LEMMA PctReaches ==
  ASSUME NEW v \in Int, NEW base \in Nat \ {0}, NEW k \in Int, k * base <= 10000 * v
  PROVE  k <= Pct(v, base)
<1>1. 10000 * v \in Int /\ k * base \in Int /\ k * base = base * k + 0 /\ 0 \in 0..(base - 1)
  OBVIOUS
<1>2. (k * base) \div base = k /\ (k * base) % base = 0
  BY <1>1, DivModIs
<1>3. Round(k * base, base) = k
  BY <1>2 DEF Round, HalfEven
<1>4. Round(k * base, base) <= Round(10000 * v, base)
  BY <1>1, RoundGrows
<1> QED BY <1>3, <1>4, PctRounds

-----------------------------------------------------------------------------
(***************************************************************************)
(* Points.                                                                 *)
(***************************************************************************)

(* The most points of any step. *)
LEMMA PointsReached ==
  ASSUME NEW steps \in SUBSET (0..100)
  PROVE  /\ Points(steps) \in steps \cup {0}
         /\ \A s \in steps \cup {0} : s <= Points(steps)
<1> DEFINE T == steps \cup {0}
<1>1. T \in SUBSET (0..100) /\ 0 \in T
  OBVIOUS
<1>2. IsFiniteSet(T) /\ T \in SUBSET Nat
  <2>1. IsFiniteSet(0..100) /\ 0..100 \in SUBSET Nat
    <3>1. 0 \in Int /\ 100 \in Int
      OBVIOUS
    <3>2. IsFiniteSet(0..100)
      BY <3>1, FS_Interval, Zenon
    <3> QED BY <3>2
  <2> HIDE DEF T
  <2> QED BY <1>1, <2>1, FS_Subset
<1>3. \E m \in T : \A n \in T : n <= m
  <2> HIDE DEF T
  <2> QED BY <1>1, <1>2, Greatest
<1>4. \E m \in T : \A n \in T : m >= n
  BY <1>1, <1>3
<1>5. Max(T) \in T /\ \A n \in T : Max(T) >= n
  BY <1>4 DEF Max
<1>6. Points(steps) = Max(T)
  BY DEF Points
<1> HIDE DEF T
<1>7. Points(steps) \in T /\ \A s \in T : s <= Points(steps)
  BY <1>1, <1>5, <1>6
<1> QED BY <1>7 DEF T

(* Who reaches more steps gets no fewer points. *)
LEMMA PointsGrow ==
  ASSUME NEW A \in SUBSET (0..100), NEW B \in SUBSET (0..100),
         \A a \in A : \E b \in B : a <= b
  PROVE  Points(A) <= Points(B)
<1>1. Points(A) \in A \cup {0} /\ Points(B) \in B \cup {0} /\ \A s \in B \cup {0} : s <= Points(B)
  BY PointsReached
<1>2. 0 <= Points(B) /\ Points(A) \in Int /\ Points(B) \in Int
  <2>1. A \cup {0} \in SUBSET (0..100) /\ B \cup {0} \in SUBSET (0..100)
    OBVIOUS
  <2>2. Points(A) \in 0..100 /\ Points(B) \in 0..100
    BY <1>1, <2>1
  <2> QED BY <2>2
<1>3. CASE Points(A) \in A
  <2>1. PICK b \in B : Points(A) <= b
    BY <1>3
  <2>2. b <= Points(B) /\ b \in Int
    BY <1>1
  <2> QED BY <1>2, <2>1, <2>2
<1> QED BY <1>1, <1>2, <1>3

(* A higher margin earns no fewer points. *)
LEMMA MarginPointsGrow ==
  ASSUME NEW m \in Int, NEW n \in Int, m <= n
  PROVE  MarginPoints(m) \in 0..25 /\ MarginPoints(m) <= MarginPoints(n)
<1> DEFINE A(k) == {Step(k >= 3500, 25), Step(k >= 3000, 20), Step(k >= 2500, 12), Step(k >= 1500, 6)}
<1>1. \A k : A(k) \in SUBSET (0..25) /\ A(k) \in SUBSET (0..100)
  BY DEF Step
<1>2. /\ Step(m >= 3500, 25) <= Step(n >= 3500, 25) /\ Step(m >= 3000, 20) <= Step(n >= 3000, 20)
      /\ Step(m >= 2500, 12) <= Step(n >= 2500, 12) /\ Step(m >= 1500, 6) <= Step(n >= 1500, 6)
  BY DEF Step
<1>3. \A a \in A(m) : \E b \in A(n) : a <= b
  BY <1>2
<1>4. MarginPoints(m) = Points(A(m)) /\ MarginPoints(n) = Points(A(n))
  BY DEF MarginPoints
<1> HIDE DEF A
<1>5. Points(A(m)) <= Points(A(n))
  BY <1>1, <1>3, PointsGrow
<1>6. Points(A(m)) \in A(m) \cup {0}
  BY <1>1, PointsReached
<1>7. Points(A(m)) \in 0..25
  BY <1>1, <1>6
<1> QED BY <1>4, <1>5, <1>7

(* Less capital earns no fewer points. *)
LEMMA CapitalPointsGrow ==
  ASSUME NEW m \in Nat, NEW n \in Nat, n <= m
  PROVE  CapitalPoints(m) \in 0..5 /\ CapitalPoints(m) <= CapitalPoints(n)
<1> DEFINE A(k) == {Step(10 * k <= 6 * Profile.max_capital, 5), Step(10 * k <= 8 * Profile.max_capital, 4),
                    Step(k <= Profile.max_capital, 2)}
<1>1. \A k : A(k) \in SUBSET (0..5) /\ A(k) \in SUBSET (0..100)
  BY DEF Step
<1>2. /\ Step(10 * m <= 6 * Profile.max_capital, 5) <= Step(10 * n <= 6 * Profile.max_capital, 5)
      /\ Step(10 * m <= 8 * Profile.max_capital, 4) <= Step(10 * n <= 8 * Profile.max_capital, 4)
      /\ Step(m <= Profile.max_capital, 2) <= Step(n <= Profile.max_capital, 2)
  BY AmountsAssumption DEF Step
<1>3. \A a \in A(m) : \E b \in A(n) : a <= b
  BY <1>2
<1>4. CapitalPoints(m) = Points(A(m)) /\ CapitalPoints(n) = Points(A(n))
  BY DEF CapitalPoints
<1> HIDE DEF A
<1>5. Points(A(m)) <= Points(A(n))
  BY <1>1, <1>3, PointsGrow
<1>6. Points(A(m)) \in A(m) \cup {0}
  BY <1>1, PointsReached
<1>7. Points(A(m)) \in 0..5
  BY <1>1, <1>6
<1> QED BY <1>4, <1>5, <1>7

(* A lower price for the same value earns no fewer points. *)
LEMMA DiscountPointsGrow ==
  ASSUME NEW p \in Nat, NEW q \in Nat, q <= p, NEW value \in Nat
  PROVE  DiscountPoints(p, value) \in 0..30 /\ DiscountPoints(p, value) <= DiscountPoints(q, value)
<1> DEFINE A(k) == {Step(100 * (value - k) >= n * value, n) : n \in {10, 20, 30}}
<1>1. \A k : A(k) \in SUBSET (0..30) /\ A(k) \in SUBSET (0..100)
  BY DEF Step
<1>2. \A n \in {10, 20, 30} : Step(100 * (value - p) >= n * value, n) <= Step(100 * (value - q) >= n * value, n)
  <2> SUFFICES ASSUME NEW n \in {10, 20, 30}
               PROVE Step(100 * (value - p) >= n * value, n) <= Step(100 * (value - q) >= n * value, n)
    OBVIOUS
  <2>1. 100 * (value - p) <= 100 * (value - q) /\ n * value \in Int
    OBVIOUS
  <2>2. 100 * (value - p) >= n * value => 100 * (value - q) >= n * value
    BY <2>1
  <2> QED BY <2>2 DEF Step
<1>3. \A a \in A(p) : \E b \in A(q) : a <= b
  BY <1>2
<1>4. DiscountPoints(p, value) = Points(A(p)) /\ DiscountPoints(q, value) = Points(A(q))
  BY DEF DiscountPoints
<1> HIDE DEF A
<1>5. Points(A(p)) <= Points(A(q))
  BY <1>1, <1>3, PointsGrow
<1>6. Points(A(p)) \in A(p) \cup {0}
  BY <1>1, PointsReached
<1>7. Points(A(p)) \in 0..30
  BY <1>1, <1>6
<1> QED BY <1>4, <1>5, <1>7

-----------------------------------------------------------------------------
(***************************************************************************)
(* Costs.                                                                  *)
(***************************************************************************)

(* A home, whatever its values. *)
Home == [area : Nat, condo : Nat, risky : BOOLEAN, type : {"apartamento", "casa", "terreno"},
         category : {"common", "bank_owned", "auction"}, drawback : {"none", "no_parking", "walk_up"}]

(* What the assumptions say of each home, price, market and of the profile. *)
LEMMA Amounts ==
  /\ \A h \in Homes : h \in Home
  /\ \A p \in Prices : p \in Nat /\ p > 0
  /\ \A m \in Markets : m.p50 \in Nat /\ m.p65 \in Nat /\ m.p50 > 0 /\ m.p50 <= m.p65 /\ m.liquidity \in Nat
  /\ Profile.max_capital \in Nat /\ Profile.entry_pct \in 0..100 /\ Profile.interest \in Nat
<1>1. \A h \in Homes : h \in Home
  BY HomesAssumption DEF Home
<1>2. \A p \in Prices : p \in Nat /\ p > 0
  BY AmountsAssumption
<1>3. \A m \in Markets : m.p50 \in Nat /\ m.p65 \in Nat /\ m.p50 > 0 /\ m.p50 <= m.p65 /\ m.liquidity \in Nat
  <2>1. \A r \in Rates : r \in Nat /\ r > 0
    BY AmountsAssumption
  <2>2. \A l \in Liquidities : l \in Nat
    BY AmountsAssumption
  <2>3. \A m \in Markets : m.p50 \in Rates /\ m.p65 \in Rates /\ m.liquidity \in Liquidities /\ m.p50 <= m.p65
    BY DEF Markets
  <2> QED BY <2>1, <2>2, <2>3
<1>4. Profile.max_capital \in Nat /\ Profile.entry_pct \in 0..100 /\ Profile.interest \in Nat
  BY AmountsAssumption
<1> QED BY <1>1, <1>2, <1>3, <1>4

(* The combinations, by their fields. *)
LEMMA CombinationFields ==
  ASSUME NEW c \in Combinations
  PROVE  c.level \in Levels /\ c.scenario \in Scenarios /\ c.mode \in Modes /\ Months(c.scenario) \in {6, 10, 12}
<1>1. c.level \in Levels /\ c.scenario \in Scenarios /\ c.mode \in Modes
  BY DEF Combinations
<1> QED BY <1>1 DEF Scenarios, Months

(* The share of the price that pays interest. *)
Owed(c) == IF c.mode = "cash" THEN 100 ELSE 100 - Profile.entry_pct

(* The costs of holding, a natural number. *)
LEMMA HoldingIs ==
  ASSUME NEW h \in Home, NEW p \in Nat, NEW c \in Combinations
  PROVE  /\ Owed(c) * Profile.interest * Months(c.scenario) \in Nat
         /\ HoldingCosts(h, p, c) \in Nat
         /\ HoldingCosts(h, p, c) = h.condo * Months(c.scenario)
                + Part(p, Owed(c) * Profile.interest * Months(c.scenario), 120000)
<1> DEFINE n == Owed(c) * Profile.interest * Months(c.scenario)
<1>1. n \in Nat
  <2>1. Owed(c) \in Nat /\ Profile.interest \in Nat /\ Months(c.scenario) \in Nat
    BY Amounts, CombinationFields DEF Owed
  <2>2. Owed(c) * Profile.interest \in Nat
    BY <2>1
  <2> QED BY <2>1, <2>2
<1>2. HoldingCosts(h, p, c) = h.condo * Months(c.scenario) + Part(p, n, 120000)
  BY DEF HoldingCosts, Owed
<1> HIDE DEF n
<1>3. Part(p, n, 120000) \in Nat
  BY <1>1, PartType
<1>4. h.condo * Months(c.scenario) \in Nat
  BY CombinationFields DEF Home
<1> QED BY <1>1, <1>2, <1>3, <1>4 DEF n

(* The costs before the reserve. *)
Spent(h, p, c) == RenovationCost(h, c.level) + Part(p, 45, 1000) + HoldingCosts(h, p, c)

(* The costs of the works. *)
LEMMA RenovationIs ==
  ASSUME NEW h \in Home, NEW c \in Combinations
  PROVE  RenovationCost(h, c.level) \in Nat
         /\ RenovationCost(h, c.level) = IF c.level = "light" THEN 600 * h.area ELSE 1200 * h.area
  BY DEF RenovationCost, Home

(* The costs of a deal, apart from its price. *)
LEMMA CostsAre ==
  ASSUME NEW h \in Home, NEW p \in Nat, NEW c \in Combinations
  PROVE  /\ Part(p, 45, 1000) \in Nat /\ Spent(h, p, c) \in Nat
         /\ Costs(h, p, c) = Spent(h, p, c) + Part(Spent(h, p, c), 12, 100)
         /\ Costs(h, p, c) \in Nat
<1>1. Part(p, 45, 1000) \in Nat /\ RenovationCost(h, c.level) \in Nat /\ HoldingCosts(h, p, c) \in Nat
  <2>1. Part(p, 45, 1000) \in Nat
    BY PartType
  <2>2. RenovationCost(h, c.level) \in Nat
    BY RenovationIs
  <2>3. HoldingCosts(h, p, c) \in Nat
    BY HoldingIs
  <2> QED BY <2>1, <2>2, <2>3
<1>2. Spent(h, p, c) \in Nat
  BY <1>1 DEF Spent
<1>3. Part(Spent(h, p, c), 12, 100) \in Nat
  BY <1>2, PartNear
<1>4. Costs(h, p, c) = Spent(h, p, c) + Part(Spent(h, p, c), 12, 100)
  BY DEF Costs, Spent
<1> QED BY <1>1, <1>2, <1>3, <1>4

(* What costs no less to keep and to renovate costs no less. *)
LEMMA CostsGrow ==
  ASSUME NEW h \in Home, NEW p \in Nat, NEW q \in Nat, p <= q, NEW c \in Combinations, NEW d \in Combinations,
         RenovationCost(h, c.level) <= RenovationCost(h, d.level),
         HoldingCosts(h, p, c) <= HoldingCosts(h, q, d)
  PROVE  Costs(h, p, c) <= Costs(h, q, d)
<1>1. Part(p, 45, 1000) <= Part(q, 45, 1000)
  BY PartGrows
<1>2. Spent(h, p, c) \in Nat /\ Spent(h, q, d) \in Nat /\ Spent(h, p, c) <= Spent(h, q, d)
  <2>1. /\ Part(p, 45, 1000) \in Nat /\ Part(q, 45, 1000) \in Nat
        /\ Spent(h, p, c) \in Nat /\ Spent(h, q, d) \in Nat
    BY CostsAre
  <2>2. /\ RenovationCost(h, c.level) \in Nat /\ RenovationCost(h, d.level) \in Nat
        /\ HoldingCosts(h, p, c) \in Nat /\ HoldingCosts(h, q, d) \in Nat
    BY RenovationIs, HoldingIs
  <2> QED BY <1>1, <2>1, <2>2 DEF Spent
<1>3. /\ Part(Spent(h, p, c), 12, 100) <= Part(Spent(h, q, d), 12, 100)
      /\ Part(Spent(h, p, c), 12, 100) \in Nat /\ Part(Spent(h, q, d), 12, 100) \in Nat
  <2> DEFINE s == Spent(h, p, c)
             k == Spent(h, q, d)
  <2>1. s \in Nat /\ k \in Nat /\ s <= k
    BY <1>2
  <2> HIDE DEF s, k
  <2>2. Part(s, 12, 100) <= Part(k, 12, 100)
    BY <2>1, PartGrows
  <2>3. Part(s, 12, 100) \in Nat
    BY <2>1, PartType
  <2>4. Part(k, 12, 100) \in Nat
    BY <2>1, PartType
  <2> QED BY <2>2, <2>3, <2>4 DEF s, k
<1>4. /\ Costs(h, p, c) = Spent(h, p, c) + Part(Spent(h, p, c), 12, 100)
      /\ Costs(h, q, d) = Spent(h, q, d) + Part(Spent(h, q, d), 12, 100)
  BY CostsAre
<1> QED BY <1>2, <1>3, <1>4

-----------------------------------------------------------------------------
(***************************************************************************)
(* What is left of a sale.                                                 *)
(***************************************************************************)

(* The resale value less the commission. *)
Net(resale) == resale - Part(resale, 6, 100)

(* The more a home sells for, the more is left; never less than nothing. *)
LEMMA NetGrows ==
  ASSUME NEW a \in Nat, NEW b \in Nat, a <= b
  PROVE  Net(a) \in Nat /\ Net(a) <= Net(b) /\ 200 * Net(a) <= 188 * a + 100 /\ 188 * a <= 200 * Net(a) + 100
<1>1. /\ Part(a, 6, 100) \in Nat
      /\ 2 * (100 * Part(a, 6, 100)) <= 2 * (a * 6) + 100 /\ 2 * (a * 6) <= 2 * (100 * Part(a, 6, 100)) + 100
  BY PartNear
<1>2. /\ Part(b, 6, 100) \in Nat
      /\ 2 * (100 * Part(b, 6, 100)) <= 2 * (b * 6) + 100 /\ 2 * (b * 6) <= 2 * (100 * Part(b, 6, 100)) + 100
  BY PartNear
<1> QED BY <1>1, <1>2 DEF Net

(* The rate, and the share of it, that a home is expected to sell for. *)
RateOf(m, c) == IF c.scenario = "optimistic" THEN m.p65 ELSE m.p50

WorksOf(c) == IF c.level = "medium" THEN 22 ELSE 21

KeptOf(h) == CASE h.drawback = "none" -> 100
               [] h.drawback = "no_parking" -> 93
               [] h.drawback = "walk_up" -> 92

CautionOf(c) == IF c.scenario = "conservative" THEN 19 ELSE 20

ShareOf(h, c) == WorksOf(c) * KeptOf(h) * CautionOf(c)

(* The resale value is one share of the value at the rate. *)
LEMMA ResaleIs ==
  ASSUME NEW h \in Home, NEW m \in Markets, NEW c \in Combinations
  PROVE  /\ Resale(h, m, c) = Part(h.area * RateOf(m, c), ShareOf(h, c), 40000)
         /\ h.area * RateOf(m, c) \in Nat /\ ShareOf(h, c) \in Nat
         /\ Resale(h, m, c) \in Nat
<1>1. h.area * RateOf(m, c) \in Nat
  <2>1. m.p50 \in Nat /\ m.p65 \in Nat /\ h.area \in Nat
    BY Amounts DEF Home
  <2>2. RateOf(m, c) \in Nat
    BY <2>1 DEF RateOf
  <2> QED BY <2>1, <2>2
<1>2. KeptOf(h) \in {92, 93, 100} /\ WorksOf(c) \in {21, 22} /\ CautionOf(c) \in {19, 20}
  BY DEF Home, KeptOf, WorksOf, CautionOf
<1>3. ShareOf(h, c) \in Nat
  BY <1>2 DEF ShareOf
<1>4. Resale(h, m, c) = Part(h.area * RateOf(m, c), ShareOf(h, c), 40000)
  BY DEF Resale, RateOf, WorksOf, KeptOf, CautionOf, ShareOf
<1>5. Part(h.area * RateOf(m, c), ShareOf(h, c), 40000) \in Nat
  BY <1>1, <1>3, PartType
<1> QED BY <1>1, <1>3, <1>4, <1>5

(* The works add to the value, caution takes from it, and the optimist       *)
(* expects a higher rate.                                                    *)
LEMMA ResaleGrows ==
  ASSUME NEW h \in Home, NEW m \in Markets, NEW c \in Combinations, NEW d \in Combinations,
         c.level = d.level \/ d.level = "medium",
         \/ c.scenario = d.scenario
         \/ c.scenario = "conservative"
         \/ d.scenario = "optimistic"
  PROVE  Resale(h, m, c) <= Resale(h, m, d)
<1>1. h.area * RateOf(m, c) <= h.area * RateOf(m, d)
  <2>1. RateOf(m, c) \in Nat /\ RateOf(m, d) \in Nat /\ RateOf(m, c) <= RateOf(m, d)
    BY Amounts DEF RateOf
  <2>2. h.area \in Nat
    BY DEF Home
  <2> QED BY <2>1, <2>2
<1>2. ShareOf(h, c) <= ShareOf(h, d)
  <2>1. WorksOf(c) <= WorksOf(d) /\ WorksOf(c) \in {21, 22} /\ WorksOf(d) \in {21, 22}
    BY DEF WorksOf
  <2>2. CautionOf(c) <= CautionOf(d) /\ CautionOf(c) \in {19, 20} /\ CautionOf(d) \in {19, 20}
    BY DEF CautionOf
  <2>3. KeptOf(h) \in {92, 93, 100}
    BY DEF Home, KeptOf
  <2>4. /\ WorksOf(c) * KeptOf(h) \in Nat /\ WorksOf(d) * KeptOf(h) \in Nat
        /\ WorksOf(c) * KeptOf(h) <= WorksOf(d) * KeptOf(h)
    BY <2>1, <2>3
  <2> QED BY <2>2, <2>4 DEF ShareOf
<1>3. /\ Resale(h, m, c) = Part(h.area * RateOf(m, c), ShareOf(h, c), 40000)
      /\ h.area * RateOf(m, c) \in Nat /\ ShareOf(h, c) \in Nat
  BY ResaleIs
<1>4. /\ Resale(h, m, d) = Part(h.area * RateOf(m, d), ShareOf(h, d), 40000)
      /\ h.area * RateOf(m, d) \in Nat /\ ShareOf(h, d) \in Nat
  BY ResaleIs
<1> QED BY <1>1, <1>2, <1>3, <1>4, PartGrows

(* The fields of an analysis. *)
LEMMA ComputedIs ==
  ASSUME NEW h \in Home, NEW p \in Nat, NEW m \in Markets, NEW c \in Combinations
  PROVE  LET a == Computed(h, p, m, c) IN
         /\ a.profit = Net(Resale(h, m, c)) - p - Costs(h, p, c) /\ a.profit \in Int
         /\ a.capital = Capital(h, p, c) /\ a.capital \in Nat
         /\ a.margin = Pct(a.profit, Resale(h, m, c)) /\ a.margin \in Int
         /\ a.roi = Pct(a.profit, a.capital) /\ a.roi \in Int
         /\ a.score = Score(h, p, m, c, a.margin) /\ a.decision = Decide(a.score, a.margin)
<1> DEFINE a == Computed(h, p, m, c)
           resale == Resale(h, m, c)
           capital == Capital(h, p, c)
           profit == resale - TotalCost(h, p, m, c)
<1>1. /\ a.profit = profit /\ a.capital = capital
      /\ a.margin = Pct(profit, resale) /\ a.roi = Pct(profit, capital)
      /\ a.score = Score(h, p, m, c, a.margin) /\ a.decision = Decide(a.score, a.margin)
  BY DEF Computed
<1>2. resale \in Nat /\ Costs(h, p, c) \in Nat /\ Part(resale, 6, 100) \in Nat
  <2>1. resale \in Nat
    BY ResaleIs
  <2>2. Costs(h, p, c) \in Nat
    BY CostsAre
  <2> HIDE DEF resale
  <2> QED BY <2>1, <2>2, PartType
<1>3. profit = Net(resale) - p - Costs(h, p, c) /\ profit \in Int
  <2>1. profit = resale - (p + Costs(h, p, c) + Part(resale, 6, 100))
    BY DEF TotalCost
  <2> HIDE DEF resale, profit
  <2> QED BY <1>2, <2>1 DEF Net
<1>4. capital \in Nat
  <2> DEFINE share == IF c.mode = "cash" THEN 100 ELSE Profile.entry_pct + 4
  <2>1. share \in Nat
    BY Amounts
  <2>2. capital = Part(p, share, 100) + Costs(h, p, c)
    BY DEF Capital
  <2> HIDE DEF share, capital
  <2>3. Part(p, share, 100) \in Nat
    BY <2>1, PartType
  <2> QED BY <1>2, <2>2, <2>3
<1> HIDE DEF a, resale, capital, profit
<1>5. Pct(profit, resale) \in Int
  BY <1>2, <1>3, PctGrows
<1>6. Pct(profit, capital) \in Int
  BY <1>3, <1>4, PctGrows
<1> QED BY <1>1, <1>3, <1>4, <1>5, <1>6 DEF a, resale, capital

(* The capital of a deal: a share of the price, and its costs. *)
LEMMA CapitalIs ==
  ASSUME NEW h \in Home, NEW p \in Nat, NEW c \in Combinations
  PROVE  LET share == IF c.mode = "cash" THEN 100 ELSE Profile.entry_pct + 4
         IN  /\ Capital(h, p, c) = Part(p, share, 100) + Costs(h, p, c)
             /\ share \in Nat /\ Part(p, share, 100) \in Nat /\ Capital(h, p, c) \in Nat
<1> DEFINE share == IF c.mode = "cash" THEN 100 ELSE Profile.entry_pct + 4
<1>1. share \in Nat
  BY Amounts
<1>2. Capital(h, p, c) = Part(p, share, 100) + Costs(h, p, c)
  BY DEF Capital
<1> HIDE DEF share
<1>3. Part(p, share, 100) \in Nat
  BY <1>1, PartType
<1>4. Costs(h, p, c) \in Nat
  BY CostsAre
<1> QED BY <1>1, <1>2, <1>3, <1>4 DEF share

-----------------------------------------------------------------------------
(***************************************************************************)
(* Scores and decisions.                                                   *)
(***************************************************************************)

(* At most 15 points for liquidity. *)
LEMMA MinOfTwo ==
  ASSUME NEW n \in Nat PROVE Min({1500, n}) \in 0..1500
<1>1. \E x \in {1500, n} : \A y \in {1500, n} : x <= y
  <2>1. CASE n <= 1500
    BY <2>1
  <2>2. CASE 1500 <= n
    BY <2>2
  <2> QED BY <2>1, <2>2
<1>2. Min({1500, n}) \in {1500, n} /\ \A y \in {1500, n} : Min({1500, n}) <= y
  BY <1>1 DEF Min
<1> QED BY <1>2

(* Scores, in hundredths of a point. *)
ScoreRange == {s \in Nat : s <= 10000}

(* A score goes from 0 to 100, and grows with a lower price, a higher margin *)
(* and less capital.                                                         *)
LEMMA ScoreGrows ==
  ASSUME NEW h \in Home, NEW p \in Nat, NEW q \in Nat, q <= p, NEW m \in Markets,
         NEW c \in Combinations, NEW d \in Combinations, c.level = d.level,
         Capital(h, q, d) <= Capital(h, p, c),
         NEW x \in Int, NEW y \in Int, x <= y
  PROVE  Score(h, p, m, c, x) \in ScoreRange /\ Score(h, p, m, c, x) <= Score(h, q, m, d, y)
<1> DEFINE value == h.area * m.p50
           works == IF c.level = "light" THEN 10 ELSE 6
           liquidity == Min({1500, 15 * m.liquidity})
<1>1. value \in Nat /\ works \in {6, 10} /\ 15 * m.liquidity \in Nat
  <2>1. m.p50 \in Nat /\ h.area \in Nat /\ m.liquidity \in Nat
    BY Amounts DEF Home
  <2> QED BY <2>1
<1>2. /\ DiscountPoints(p, value) \in 0..30 /\ DiscountPoints(q, value) \in 0..30
      /\ DiscountPoints(p, value) <= DiscountPoints(q, value)
  <2> HIDE DEF value
  <2> QED BY <1>1, DiscountPointsGrow
<1>3. MarginPoints(x) \in 0..25 /\ MarginPoints(y) \in 0..25 /\ MarginPoints(x) <= MarginPoints(y)
  BY MarginPointsGrow
<1>4. RiskPoints(h) \in 0..10
  BY DEF RiskPoints
<1>5. Capital(h, p, c) \in Nat /\ Capital(h, q, d) \in Nat
  BY CapitalIs
<1>6. /\ CapitalPoints(Capital(h, p, c)) \in 0..5 /\ CapitalPoints(Capital(h, q, d)) \in 0..5
      /\ CapitalPoints(Capital(h, p, c)) <= CapitalPoints(Capital(h, q, d))
  BY <1>5, CapitalPointsGrow
<1>7. liquidity \in 0..1500
  BY <1>1, MinOfTwo
<1>8. /\ Score(h, p, m, c, x) = liquidity + 100 * (DiscountPoints(p, value) + MarginPoints(x)
                 + RiskPoints(h) + works + 5 + CapitalPoints(Capital(h, p, c)))
      /\ Score(h, q, m, d, y) = liquidity + 100 * (DiscountPoints(q, value) + MarginPoints(y)
                 + RiskPoints(h) + works + 5 + CapitalPoints(Capital(h, q, d)))
  BY DEF Score
<1> DEFINE old == DiscountPoints(p, value) + MarginPoints(x) + RiskPoints(h) + works + 5
                    + CapitalPoints(Capital(h, p, c))
           new == DiscountPoints(q, value) + MarginPoints(y) + RiskPoints(h) + works + 5
                    + CapitalPoints(Capital(h, q, d))
<1> HIDE DEF value, works, liquidity
<1>9. old \in 0..85 /\ new \in 0..85 /\ old <= new
  <2>1. old \in 0..85
    BY <1>1, <1>2, <1>3, <1>4, <1>6
  <2>2. new \in 0..85
    BY <1>1, <1>2, <1>3, <1>4, <1>6
  <2>3. old <= new
    <3> DEFINE a == DiscountPoints(p, value)
               b == DiscountPoints(q, value)
               e == MarginPoints(x)
               f == MarginPoints(y)
               k == CapitalPoints(Capital(h, p, c))
               l == CapitalPoints(Capital(h, q, d))
               r == RiskPoints(h)
    <3>1. /\ a \in Int /\ b \in Int /\ e \in Int /\ f \in Int /\ k \in Int /\ l \in Int
          /\ r \in Int /\ works \in Int /\ a <= b /\ e <= f /\ k <= l
      BY <1>1, <1>2, <1>3, <1>4, <1>6
    <3> HIDE DEF a, b, e, f, k, l, r
    <3>2. a + e + r + works + 5 + k <= b + f + r + works + 5 + l
      BY <3>1
    <3> QED BY <3>2 DEF a, b, e, f, k, l, r
  <2> QED BY <2>1, <2>2, <2>3
<1>10. Score(h, p, m, c, x) = liquidity + 100 * old /\ Score(h, q, m, d, y) = liquidity + 100 * new
  BY <1>8
<1> HIDE DEF old, new
<1> QED BY <1>7, <1>9, <1>10 DEF ScoreRange

(* A higher score with a higher margin gets no worse decision. *)
LEMMA DecideGrows ==
  ASSUME NEW s \in Int, NEW t \in Int, s <= t, NEW x \in Int, NEW y \in Int, x <= y
  PROVE  Rank(Decide(s, x)) <= Rank(Decide(t, y))
  BY DEF Rank, Decide

(* Less owed for less time costs no more. *)
LEMMA HoldingGrows ==
  ASSUME NEW h \in Home, NEW p \in Nat, NEW q \in Nat, p <= q, NEW c \in Combinations, NEW d \in Combinations,
         Owed(c) <= Owed(d), Months(c.scenario) <= Months(d.scenario)
  PROVE  HoldingCosts(h, p, c) <= HoldingCosts(h, q, d)
<1> DEFINE i == Profile.interest
           m == Months(c.scenario)
           n == Months(d.scenario)
<1>1. m \in Nat /\ n \in Nat /\ m <= n /\ i \in Nat
  <2>1. Months(c.scenario) \in {6, 10, 12} /\ Months(d.scenario) \in {6, 10, 12}
    BY CombinationFields
  <2> QED BY <2>1, Amounts
<1>2. Owed(c) \in Nat /\ Owed(d) \in Nat
  BY Amounts DEF Owed
<1>3. /\ Owed(c) * i * m \in Nat
      /\ HoldingCosts(h, p, c) = h.condo * m + Part(p, Owed(c) * i * m, 120000)
  BY HoldingIs
<1>4. /\ Owed(d) * i * n \in Nat
      /\ HoldingCosts(h, q, d) = h.condo * n + Part(q, Owed(d) * i * n, 120000)
  BY HoldingIs
<1> HIDE DEF i, m, n
<1>5. Owed(c) * i * m <= Owed(d) * i * n
  <2>1. Owed(c) * i \in Nat /\ Owed(d) * i \in Nat /\ Owed(c) * i <= Owed(d) * i
    BY <1>1, <1>2
  <2>2. (Owed(c) * i) * m <= (Owed(d) * i) * m /\ (Owed(d) * i) * m <= (Owed(d) * i) * n
    BY <1>1, <2>1
  <2>3. (Owed(d) * i) * m \in Nat
    BY <1>1, <2>1
  <2> QED BY <1>3, <1>4, <2>2, <2>3
<1>6. h.condo * m <= h.condo * n /\ h.condo * m \in Nat /\ h.condo * n \in Nat
  BY <1>1 DEF Home
<1> DEFINE x == Owed(c) * i * m
           y == Owed(d) * i * n
<1>7. x \in Nat /\ y \in Nat /\ x <= y
  BY <1>3, <1>4, <1>5
<1> HIDE DEF x, y
<1>8. Part(p, x, 120000) <= Part(q, y, 120000)
  BY <1>7, PartGrows
<1>9. Part(p, x, 120000) \in Nat
  BY <1>7, PartType
<1>10. Part(q, y, 120000) \in Nat
  BY <1>7, PartType
<1> QED BY <1>3, <1>4, <1>6, <1>8, <1>9, <1>10 DEF x, y

(* Selling for more, bought for less at lower costs, earns no less. *)
LEMMA ProfitGrows ==
  ASSUME NEW h \in Home, NEW p \in Nat, NEW q \in Nat, q <= p, NEW m \in Markets,
         NEW c \in Combinations, NEW d \in Combinations,
         Resale(h, m, c) <= Resale(h, m, d), Costs(h, q, d) <= Costs(h, p, c)
  PROVE  Computed(h, p, m, c).profit <= Computed(h, q, m, d).profit
<1>1. Computed(h, p, m, c).profit = Net(Resale(h, m, c)) - p - Costs(h, p, c)
  BY ComputedIs
<1>2. Computed(h, q, m, d).profit = Net(Resale(h, m, d)) - q - Costs(h, q, d)
  BY ComputedIs
<1>3. Resale(h, m, c) \in Nat /\ Resale(h, m, d) \in Nat
  BY ResaleIs
<1>4. Costs(h, p, c) \in Nat /\ Costs(h, q, d) \in Nat
  BY CostsAre
<1>5. Net(Resale(h, m, c)) <= Net(Resale(h, m, d)) /\ Net(Resale(h, m, c)) \in Nat
  BY <1>3, NetGrows
<1>6. Net(Resale(h, m, d)) \in Nat
  BY <1>3, NetGrows
<1> QED BY <1>1, <1>2, <1>4, <1>5, <1>6

-----------------------------------------------------------------------------
(***************************************************************************)
(* What is stored.                                                         *)
(***************************************************************************)

(* The inductive invariant: what is stored was analysed, at a price and a    *)
(* market, without a failure.                                                *)
DealsInv ==
    /\ home \in Homes /\ price \in Prices /\ market \in Markets
    /\ rate \in Rates \cup {0}
    /\ deals # Absent => /\ deals.price \in Prices /\ deals.market \in Markets
                         /\ ~Fails(deals.price, deals.market)

(* DealsInv is inductive. *)
LEMMA DealsKept ==
  ASSUME DealsInv, [Next]_vars PROVE DealsInv'
<1>1. CASE UNCHANGED <<home, deals>>
  <2>1. price' \in Prices /\ market' \in Markets /\ rate' \in Rates \cup {0}
    BY DEF DealsInv, Next, Reprice, Restat, Analyse, vars
  <2>2. \A p, m : Fails(p, m)' <=> Fails(p, m)
    BY <1>1 DEF Fails, Analysis
  <2> QED BY <1>1, <2>1, <2>2 DEF DealsInv
<1>2. CASE Analyse
  <2>1. UNCHANGED <<home, price, market, rate>>
    BY <1>2 DEF Analyse
  <2>2. \A p, m : Fails(p, m)' <=> Fails(p, m)
    BY <2>1 DEF Fails, Analysis
  <2>3. CASE Fails(price, market)
    <3>1. deals' = deals
      BY <1>2, <2>3 DEF Analyse
    <3> QED BY <2>1, <2>2, <3>1 DEF DealsInv
  <2>4. CASE ~Fails(price, market)
    <3>1. deals'.price = price /\ deals'.market = market
      BY <1>2, <2>4 DEF Analyse
    <3> QED BY <2>1, <2>2, <2>4, <3>1 DEF DealsInv
  <2> QED BY <2>3, <2>4
<1> QED BY <1>1, <1>2 DEF Next, Reprice, Restat, vars

(* Nothing is stored at first. *)
LEMMA DealsInitially == Init => DealsInv
  BY DEF Init, DealsInv

(* An analysis is computed for the home of the listing. *)
LEMMA AnalysisIs ==
  ASSUME home \in Homes, NEW p \in Prices, NEW m \in Markets, NEW c \in Combinations
  PROVE  Analysis(p, m, c) = Computed(home, p, m, c)
  BY DEF Analysis, Table

(* Every choice of level, scenario and mode is a combination. *)
LEMMA Combined ==
  ASSUME NEW l \in Levels, NEW s \in Scenarios, NEW m \in Modes
  PROVE  LET c == [level |-> l, scenario |-> s, mode |-> m]
         IN  c \in Combinations /\ c.level = l /\ c.scenario = s /\ c.mode = m
  BY DEF Combinations

(* The more optimistic of two scenarios promises no less: it sells for no    *)
(* less, after no more months of costs.                                      *)
LEMMA ScenarioGrows ==
  ASSUME NEW h \in Home, NEW p \in Nat, NEW m \in Markets, NEW c \in Combinations, NEW d \in Combinations,
         c.level = d.level, c.mode = d.mode,
         \/ c.scenario = "conservative" /\ d.scenario = "base"
         \/ c.scenario = "base" /\ d.scenario = "optimistic"
  PROVE  Computed(h, p, m, c).profit <= Computed(h, p, m, d).profit
<1>1. Resale(h, m, c) <= Resale(h, m, d)
  BY ResaleGrows
<1>2. Owed(d) = Owed(c) /\ Owed(d) <= Owed(c)
  <2>1. Owed(d) = Owed(c)
    BY DEF Owed
  <2>2. Owed(c) \in Int
    BY Amounts DEF Owed
  <2> QED BY <2>1, <2>2
<1>3. Months(d.scenario) <= Months(c.scenario)
  BY DEF Months
<1>4. HoldingCosts(h, p, d) <= HoldingCosts(h, p, c)
  BY <1>2, <1>3, HoldingGrows
<1>5. RenovationCost(h, d.level) <= RenovationCost(h, c.level)
  <2>1. RenovationCost(h, c.level) \in Nat
    BY RenovationIs
  <2> QED BY <2>1
<1>6. Costs(h, p, d) <= Costs(h, p, c)
  BY <1>4, <1>5, CostsGrow
<1> QED BY <1>1, <1>6, ProfitGrows

(* For any home, market and investor, the three scenarios of a stored        *)
(* analysis are in the order of their names, at each level of works and in   *)
(* both modes.                                                               *)
THEOREM ScenariosCorrect == Spec => []ScenariosOrdered
<1>1. DealsInv => ScenariosOrdered
  <2> SUFFICES ASSUME DealsInv, deals # Absent, NEW l \in Levels, NEW m \in Modes
               PROVE  LET profit(s) == Stored([level |-> l, scenario |-> s, mode |-> m]).profit
                      IN  profit("conservative") <= profit("base") /\ profit("base") <= profit("optimistic")
    BY DEF ScenariosOrdered
  <2> DEFINE of(s) == [level |-> l, scenario |-> s, mode |-> m]
  <2>1. /\ home \in Homes /\ home \in Home /\ deals.price \in Prices /\ deals.price \in Nat
        /\ deals.market \in Markets
    BY Amounts DEF DealsInv
  <2>2. \A s \in Scenarios : of(s) \in Combinations /\ of(s).level = l /\ of(s).scenario = s /\ of(s).mode = m
    BY Combined
  <2> HIDE DEF of
  <2>3. \A s \in Scenarios : Stored(of(s)) = Computed(home, deals.price, deals.market, of(s))
    BY <2>1, <2>2, AnalysisIs DEF Stored
  <2>4. {"conservative", "base", "optimistic"} = Scenarios
    BY DEF Scenarios
  <2>5. Computed(home, deals.price, deals.market, of("conservative")).profit
          <= Computed(home, deals.price, deals.market, of("base")).profit
    BY <2>1, <2>2, <2>4, ScenarioGrows
  <2>6. Computed(home, deals.price, deals.market, of("base")).profit
          <= Computed(home, deals.price, deals.market, of("optimistic")).profit
    BY <2>1, <2>2, <2>4, ScenarioGrows
  <2> QED BY <2>3, <2>4, <2>5, <2>6 DEF of
<1> QED BY <1>1, DealsInitially, DealsKept, PTL DEF Spec

(* A score goes from 0 to 100. *)
LEMMA ScoreType ==
  ASSUME NEW h \in Home, NEW p \in Nat, NEW m \in Markets, NEW c \in Combinations
  PROVE  Computed(h, p, m, c).score \in ScoreRange
<1> DEFINE x == Computed(h, p, m, c).margin
<1>1. Computed(h, p, m, c).score = Score(h, p, m, c, x) /\ x \in Int
  BY ComputedIs
<1>2. Capital(h, p, c) \in Nat
  BY CapitalIs
<1> HIDE DEF x
<1>3. Capital(h, p, c) <= Capital(h, p, c) /\ p <= p /\ x <= x
  BY <1>1, <1>2
<1>4. c.level = c.level
  OBVIOUS
<1>5. Score(h, p, m, c, x) \in ScoreRange
  BY <1>1, <1>3, <1>4, ScoreGrows, Zenon
<1> QED BY <1>1, <1>5

(* Financing owes less. *)
LEMMA FinancedIsCheaper ==
  ASSUME Profile.entry_pct + 4 <= 100, NEW h \in Home, NEW p \in Nat, NEW m \in Markets,
         NEW c \in Combinations, NEW d \in Combinations,
         c.level = d.level, c.scenario = d.scenario, c.mode = "cash", d.mode = "financed"
  PROVE  /\ Computed(h, p, m, c).score <= Computed(h, p, m, d).score
         /\ Computed(h, p, m, d).capital <= Computed(h, p, m, c).capital
<1>1. Costs(h, p, d) <= Costs(h, p, c)
  <2>1. Owed(d) <= Owed(c)
    BY Amounts DEF Owed
  <2>2. Months(c.scenario) \in {6, 10, 12}
    BY CombinationFields
  <2>3. Months(d.scenario) <= Months(c.scenario)
    BY <2>2
  <2>4. HoldingCosts(h, p, d) <= HoldingCosts(h, p, c)
    BY <2>1, <2>3, HoldingGrows
  <2>5. RenovationCost(h, c.level) \in Nat
    BY RenovationIs
  <2>6. RenovationCost(h, d.level) <= RenovationCost(h, c.level)
    BY <2>5
  <2> QED BY <2>4, <2>6, CostsGrow
<1>2. Resale(h, m, c) \in Nat /\ Resale(h, m, d) = Resale(h, m, c)
  <2>1. RateOf(m, c) = RateOf(m, d) /\ ShareOf(h, c) = ShareOf(h, d)
    BY DEF RateOf, ShareOf, WorksOf, CautionOf
  <2>2. /\ Resale(h, m, c) = Part(h.area * RateOf(m, c), ShareOf(h, c), 40000)
        /\ Resale(h, m, c) \in Nat
    BY ResaleIs
  <2>3. Resale(h, m, d) = Part(h.area * RateOf(m, d), ShareOf(h, d), 40000)
    BY ResaleIs
  <2> QED BY <2>1, <2>2, <2>3
<1>3. Computed(h, p, m, c).profit <= Computed(h, p, m, d).profit
  <2>1. Resale(h, m, c) <= Resale(h, m, d)
    BY <1>2
  <2> QED BY <1>1, <2>1, ProfitGrows
<1>4. Capital(h, p, d) <= Capital(h, p, c) /\ Capital(h, p, c) \in Nat /\ Capital(h, p, d) \in Nat
  <2> DEFINE share == Profile.entry_pct + 4
  <2>1. share \in Nat /\ share <= 100
    BY Amounts
  <2>2. Capital(h, p, d) = Part(p, share, 100) + Costs(h, p, d) /\ Part(p, share, 100) \in Nat
    BY CapitalIs
  <2>3. Capital(h, p, c) = Part(p, 100, 100) + Costs(h, p, c) /\ Part(p, 100, 100) \in Nat
    BY CapitalIs
  <2>4. Costs(h, p, c) \in Nat /\ Costs(h, p, d) \in Nat
    BY CostsAre
  <2> HIDE DEF share
  <2>5. Part(p, share, 100) <= Part(p, 100, 100)
    BY <2>1, PartGrows
  <2> QED BY <1>1, <2>2, <2>3, <2>4, <2>5
<1> DEFINE a == Computed(h, p, m, c)
           b == Computed(h, p, m, d)
<1>5. /\ a.profit \in Int /\ a.capital = Capital(h, p, c)
      /\ a.margin = Pct(a.profit, Resale(h, m, c)) /\ a.margin \in Int
      /\ a.score = Score(h, p, m, c, a.margin)
  BY ComputedIs
<1>6. /\ b.profit \in Int /\ b.capital = Capital(h, p, d)
      /\ b.margin = Pct(b.profit, Resale(h, m, d)) /\ b.margin \in Int
      /\ b.score = Score(h, p, m, d, b.margin)
  BY ComputedIs
<1> HIDE DEF a, b
<1>7. a.margin <= b.margin
  BY <1>2, <1>3, <1>5, <1>6, PctGrows DEF a, b
<1>8. Score(h, p, m, c, a.margin) <= Score(h, p, m, d, b.margin)
  <2>1. p <= p
    OBVIOUS
  <2> QED BY <1>4, <1>5, <1>6, <1>7, <2>1, ScoreGrows
<1> QED BY <1>4, <1>5, <1>6, <1>8 DEF a, b

(* For an entry of at most 96%, which with the 4% on top is no more than the *)
(* price, financing never looks worse than cash in any stored analysis.      *)
THEOREM FinancingCorrect == ASSUME Profile.entry_pct + 4 <= 100 PROVE Spec => []FinancingNoWorse
<1>1. DealsInv => FinancingNoWorse
  <2> SUFFICES ASSUME DealsInv, deals # Absent, NEW l \in Levels, NEW s \in Scenarios
               PROVE  LET of(m) == Stored([level |-> l, scenario |-> s, mode |-> m])
                      IN  of("financed").score >= of("cash").score /\ of("financed").capital <= of("cash").capital
    BY DEF FinancingNoWorse
  <2> DEFINE c == [level |-> l, scenario |-> s, mode |-> "cash"]
             d == [level |-> l, scenario |-> s, mode |-> "financed"]
  <2>1. /\ home \in Homes /\ home \in Home /\ deals.price \in Prices /\ deals.price \in Nat
        /\ deals.market \in Markets
    BY Amounts DEF DealsInv
  <2>2. {"cash", "financed"} = Modes
    BY DEF Modes
  <2>3. c \in Combinations /\ c.level = l /\ c.scenario = s /\ c.mode = "cash"
    BY <2>2, Combined
  <2>4. d \in Combinations /\ d.level = l /\ d.scenario = s /\ d.mode = "financed"
    BY <2>2, Combined
  <2> HIDE DEF c, d
  <2>5. /\ Stored(c) = Computed(home, deals.price, deals.market, c)
        /\ Stored(d) = Computed(home, deals.price, deals.market, d)
    BY <2>1, <2>3, <2>4, AnalysisIs DEF Stored
  <2>6. /\ Stored(c).score <= Stored(d).score /\ Stored(d).capital <= Stored(c).capital
    BY <2>1, <2>3, <2>4, <2>5, FinancedIsCheaper
  <2>7. Stored(c).score \in Int /\ Stored(d).score \in Int
    <3>1. Stored(c).score \in ScoreRange
      BY <2>1, <2>3, <2>5, ScoreType
    <3>2. Stored(d).score \in ScoreRange
      BY <2>1, <2>4, <2>5, ScoreType
    <3> QED BY <3>1, <3>2 DEF ScoreRange
  <2> QED BY <2>6, <2>7 DEF c, d
<1> QED BY <1>1, DealsInitially, DealsKept, PTL DEF Spec

(* The same home for less earns more on less capital, and scores no lower. *)
LEMMA CheaperScores ==
  ASSUME NEW h \in Home, NEW p \in Nat, NEW q \in Nat, q <= p, NEW m \in Markets, NEW c \in Combinations
  PROVE  LET old == Computed(h, p, m, c)
             new == Computed(h, q, m, c)
         IN  /\ old.score \in ScoreRange /\ new.score \in ScoreRange /\ old.score <= new.score
             /\ Rank(old.decision) <= Rank(new.decision)
<1> DEFINE a == Computed(h, p, m, c)
           b == Computed(h, q, m, c)
<1>1. Costs(h, q, c) <= Costs(h, p, c)
  <2>1. Owed(c) \in Nat /\ Months(c.scenario) \in {6, 10, 12}
    BY Amounts, CombinationFields DEF Owed
  <2>2. Owed(c) <= Owed(c) /\ Months(c.scenario) <= Months(c.scenario)
    BY <2>1
  <2>3. HoldingCosts(h, q, c) <= HoldingCosts(h, p, c)
    BY <2>2, HoldingGrows
  <2>4. RenovationCost(h, c.level) \in Nat
    BY RenovationIs
  <2>5. RenovationCost(h, c.level) <= RenovationCost(h, c.level)
    BY <2>4
  <2> QED BY <2>3, <2>5, CostsGrow
<1>2. Resale(h, m, c) \in Nat /\ Resale(h, m, c) <= Resale(h, m, c)
  <2>1. Resale(h, m, c) \in Nat
    BY ResaleIs
  <2> QED BY <2>1
<1>3. a.profit <= b.profit
  BY <1>1, <1>2, ProfitGrows
<1>4. Capital(h, q, c) <= Capital(h, p, c)
  <2> DEFINE share == IF c.mode = "cash" THEN 100 ELSE Profile.entry_pct + 4
  <2>1. /\ Capital(h, p, c) = Part(p, share, 100) + Costs(h, p, c) /\ share \in Nat
        /\ Part(p, share, 100) \in Nat
    BY CapitalIs
  <2>2. Capital(h, q, c) = Part(q, share, 100) + Costs(h, q, c) /\ Part(q, share, 100) \in Nat
    BY CapitalIs
  <2>3. Costs(h, p, c) \in Nat /\ Costs(h, q, c) \in Nat
    BY CostsAre
  <2> HIDE DEF share
  <2>4. share <= share
    BY <2>1
  <2>5. Part(q, share, 100) <= Part(p, share, 100)
    BY <2>1, <2>4, PartGrows
  <2> QED BY <1>1, <2>1, <2>2, <2>3, <2>5
<1>5. /\ a.profit \in Int /\ a.margin = Pct(a.profit, Resale(h, m, c)) /\ a.margin \in Int
      /\ a.score = Score(h, p, m, c, a.margin) /\ a.decision = Decide(a.score, a.margin)
  BY ComputedIs
<1>6. /\ b.profit \in Int /\ b.margin = Pct(b.profit, Resale(h, m, c)) /\ b.margin \in Int
      /\ b.score = Score(h, q, m, c, b.margin) /\ b.decision = Decide(b.score, b.margin)
  BY ComputedIs
<1>7. a.score \in ScoreRange /\ b.score \in ScoreRange
  BY ScoreType
<1> HIDE DEF a, b
<1>8. a.margin <= b.margin
  BY <1>2, <1>3, <1>5, <1>6, PctGrows
<1>9. a.score <= b.score
  <2>1. c.level = c.level
    OBVIOUS
  <2> QED BY <1>4, <1>5, <1>6, <1>8, <2>1, ScoreGrows
<1>10. Rank(a.decision) <= Rank(b.decision)
  <2>1. a.score \in Int /\ b.score \in Int
    BY <1>7 DEF ScoreRange
  <2> QED BY <1>5, <1>6, <1>8, <1>9, <2>1, DecideGrows
<1> QED BY <1>7, <1>9, <1>10 DEF a, b

(* On the same market no step makes a stored analysis worse by making the    *)
(* home cheaper.                                                             *)
THEOREM CheaperCorrect == Spec => CheaperIsBetter
<1> DEFINE Better == deals # Absent /\ deals'.market = deals.market /\ deals'.price < deals.price =>
        \A c \in Combinations :
            LET old == Analysis(deals.price, deals.market, c)
                new == Analysis(deals'.price, deals'.market, c)
            IN  new.score >= old.score /\ Rank(new.decision) >= Rank(old.decision)
<1>1. DealsInv /\ [Next]_vars => Better
  <2> SUFFICES ASSUME DealsInv, [Next]_vars, deals # Absent, deals'.market = deals.market,
                      deals'.price < deals.price, NEW c \in Combinations
               PROVE  LET old == Analysis(deals.price, deals.market, c)
                          new == Analysis(deals'.price, deals'.market, c)
                      IN  new.score >= old.score /\ Rank(new.decision) >= Rank(old.decision)
    BY Zenon
  <2> DEFINE p == deals.price
             q == deals'.price
             m == deals.market
  <2>1. p \in Prices /\ p \in Nat /\ m \in Markets /\ home \in Homes /\ home \in Home
    BY Amounts DEF DealsInv
  <2>2. q \in Prices
    <3>1. ~(deals.price < deals.price)
      BY <2>1
    <3>2. deals' # deals
      BY <3>1
    <3>3. Analyse /\ deals' = [price |-> price, market |-> market]
      BY <3>2 DEF Next, Reprice, Restat, Analyse, vars
    <3> QED BY <3>3 DEF DealsInv
  <2>3. q \in Nat /\ q <= p
    <3>1. q \in Nat
      BY <2>2, Amounts
    <3> QED BY <2>1, <3>1
  <2>4. deals'.market = m
    OBVIOUS
  <2> HIDE DEF p, q, m
  <2>5. Analysis(p, m, c) = Computed(home, p, m, c) /\ Analysis(q, m, c) = Computed(home, q, m, c)
    BY <2>1, <2>2, AnalysisIs
  <2> DEFINE old == Analysis(p, m, c)
             new == Analysis(q, m, c)
  <2>6. /\ old.score \in ScoreRange /\ new.score \in ScoreRange /\ old.score <= new.score
        /\ Rank(old.decision) <= Rank(new.decision)
    BY <2>1, <2>3, <2>5, CheaperScores
  <2>7. Rank(old.decision) \in Int /\ Rank(new.decision) \in Int
    <3>1. \A s, x : Rank(Decide(s, x)) \in Int
      BY DEF Rank, Decide
    <3>2. \A x \in Nat : LET a == Computed(home, x, m, c) IN a.decision = Decide(a.score, a.margin)
      BY <2>1, ComputedIs
    <3>3. old.decision = Decide(old.score, old.margin) /\ new.decision = Decide(new.score, new.margin)
      BY <2>1, <2>3, <2>5, <3>2
    <3> QED BY <3>1, <3>3
  <2> HIDE DEF old, new
  <2>8. new.score >= old.score /\ Rank(new.decision) >= Rank(old.decision)
    BY <2>6, <2>7 DEF ScoreRange
  <2> QED BY <2>4, <2>8 DEF old, new, p, q, m
<1> QED BY <1>1, DealsInitially, DealsKept, PTL DEF Spec, CheaperIsBetter

-----------------------------------------------------------------------------
(* What is k hundredths of a percent at most rounds to k at most. *)
LEMMA PctAtMost ==
  ASSUME NEW v \in Int, NEW base \in Nat \ {0}, NEW k \in Int, 10000 * v <= k * base
  PROVE  Pct(v, base) <= k
<1>1. 10000 * v \in Int /\ k * base \in Int /\ k * base = base * k + 0 /\ 0 \in 0..(base - 1)
  OBVIOUS
<1>2. (k * base) \div base = k /\ (k * base) % base = 0
  BY <1>1, DivModIs
<1>3. Round(k * base, base) = k
  BY <1>2 DEF Round, HalfEven
<1>4. Round(10000 * v, base) <= Round(k * base, base)
  BY <1>1, RoundGrows
<1> QED BY <1>3, <1>4, PctRounds

(* Every stored analysis fits its columns: a score from 0 to 100, a margin   *)
(* and a return of three digits.                                             *)
THEOREM TypeCorrect == Spec => []TypeOK
<1>1. DealsInv => TypeOK
  <2> SUFFICES ASSUME DealsInv, deals # Absent, NEW c \in Combinations
               PROVE  LET a == Stored(c)
                      IN  a.score \in Nat /\ a.score <= 10000 /\ Fits(a.margin) /\ Fits(a.roi)
    BY DEF DealsInv, TypeOK
  <2> DEFINE a == Stored(c)
             p == deals.price
             m == deals.market
             resale == Resale(home, m, c)
  <2>1. p \in Prices /\ p \in Nat /\ m \in Markets /\ home \in Homes /\ home \in Home
    BY Amounts DEF DealsInv
  <2>2. a = Computed(home, p, m, c)
    BY <2>1, AnalysisIs DEF Stored
  <2>3. ~Overflows(a.margin, a.roi, c)
    BY DEF DealsInv, Fails, Stored
  <2> HIDE DEF a, p, m
  <2>4. a.score \in ScoreRange
    BY <2>1, <2>2, ScoreType
  <2>5. /\ a.profit = Net(resale) - p - Costs(home, p, c) /\ a.profit \in Int
        /\ a.margin = Pct(a.profit, resale) /\ a.margin \in Int /\ a.roi \in Int
    BY <2>1, <2>2, ComputedIs
  <2>6. resale \in Nat /\ Costs(home, p, c) \in Nat
    <3>1. resale \in Nat
      BY <2>1, ResaleIs
    <3>2. Costs(home, p, c) \in Nat
      BY <2>1, CostsAre
    <3> QED BY <3>1, <3>2
  <2> HIDE DEF resale
  <2>7. a.margin <= 10000
    <3>1. Net(resale) <= resale
      <4>1. Part(resale, 6, 100) \in Nat
        BY <2>6, PartType
      <4> QED BY <2>6, <4>1 DEF Net
    <3>2. Net(resale) \in Int
      <4>1. Part(resale, 6, 100) \in Nat
        BY <2>6, PartType
      <4> QED BY <2>6, <4>1 DEF Net
    <3>3. a.profit <= resale
      BY <2>1, <2>5, <2>6, <3>1, <3>2
    <3>4. CASE resale = 0
      BY <2>5, <3>4 DEF Pct
    <3>5. CASE resale # 0
      <4>1. 10000 * a.profit <= 10000 * resale
        BY <2>5, <2>6, <3>3
      <4> QED BY <2>5, <2>6, <3>5, <4>1, PctAtMost
    <3> QED BY <3>4, <3>5
  <2>8. a.margin > -100000 /\ a.roi < 100000 /\ a.roi > -100000
    BY <2>3, <2>5 DEF Overflows
  <2>9. a.score \in Nat /\ a.score <= 10000
    BY <2>4 DEF ScoreRange
  <2>10. Fits(a.margin) /\ Fits(a.roi)
    BY <2>5, <2>7, <2>8 DEF Fits
  <2> QED BY <2>9, <2>10 DEF a
<1> QED BY <1>1, DealsInitially, DealsKept, PTL DEF Spec

-----------------------------------------------------------------------------
(***************************************************************************)
(* Returns below -100%.                                                    *)
(***************************************************************************)

(* A loss beyond the capital by more than a rounding of the percentage.      *)
LEMMA LossBeyond ==
  ASSUME NEW v \in Int, NEW b \in Nat \ {0}
  PROVE  /\ Pct(v, b) < -10000 => 20000 * (v + b) <= -b
         /\ 20000 * (v + b) < -b => Pct(v, b) < -10000
<1> DEFINE r == Pct(v, b)
<1>1. r \in Int /\ 2 * (b * r) <= 20000 * v + b /\ 20000 * v <= 2 * (b * r) + b
  BY PctNear
<1> HIDE DEF r
<1>2. r < -10000 => b * r <= b * (-10001)
  <2> SUFFICES ASSUME r <= -10001 PROVE b * r <= b * (-10001)
    BY <1>1
  <2> QED BY <1>1
<1>3. r >= -10000 => b * (-10000) <= b * r
  BY <1>1
<1>4. b * r \in Int
  BY <1>1
<1>5. r < -10000 => 20000 * (v + b) <= -b
  BY <1>1, <1>2, <1>4
<1>6. 20000 * (v + b) < -b => r < -10000
  BY <1>1, <1>3, <1>4
<1> QED BY <1>5, <1>6 DEF r

(* What is left of the sale and of the price that is financed. *)
Cover(h, p, m, c) ==
    Net(Resale(h, m, c)) - p + Part(p, IF c.mode = "cash" THEN 100 ELSE Profile.entry_pct + 4, 100)

(* It is the profit and the capital together: a return below -100% makes it  *)
(* negative.                                                                 *)
LEMMA CoverIs ==
  ASSUME NEW h \in Home, NEW p \in Nat, NEW m \in Markets, NEW c \in Combinations
  PROVE  LET a == Computed(h, p, m, c)
         IN  /\ a.profit + a.capital = Cover(h, p, m, c) /\ Cover(h, p, m, c) \in Int
             /\ a.roi = Pct(a.profit, a.capital)
             /\ a.profit \in Int /\ a.capital \in Nat /\ a.roi \in Int
<1> DEFINE a == Computed(h, p, m, c)
           share == IF c.mode = "cash" THEN 100 ELSE Profile.entry_pct + 4
<1>1. /\ a.profit = Net(Resale(h, m, c)) - p - Costs(h, p, c) /\ a.profit \in Int
      /\ a.capital = Capital(h, p, c) /\ a.capital \in Nat
      /\ a.roi = Pct(a.profit, a.capital) /\ a.roi \in Int
  BY ComputedIs
<1>2. Capital(h, p, c) = Part(p, share, 100) + Costs(h, p, c) /\ Part(p, share, 100) \in Nat
  BY CapitalIs
<1>3. Costs(h, p, c) \in Nat
  BY CostsAre
<1>4. Net(Resale(h, m, c)) \in Int
  <2>1. Resale(h, m, c) \in Nat
    BY ResaleIs
  <2>2. Resale(h, m, c) <= Resale(h, m, c)
    BY <2>1
  <2>3. Net(Resale(h, m, c)) \in Nat
    BY <2>1, <2>2, NetGrows
  <2> QED BY <2>3
<1>5. Cover(h, p, m, c) = Net(Resale(h, m, c)) - p + Part(p, share, 100)
  BY DEF Cover
<1> HIDE DEF a, share
<1>6. a.profit + a.capital = Cover(h, p, m, c) /\ Cover(h, p, m, c) \in Int
  BY <1>1, <1>2, <1>3, <1>4, <1>5
<1> QED BY <1>1, <1>6 DEF a

(* Only ten months are no divisor of a year. *)
LEMMA RaisesInBase ==
  ASSUME NEW roi, NEW c \in Combinations, Raises(roi, c)
  PROVE  c.scenario = "base" /\ roi < -10000
<1>1. c.scenario \in Scenarios
  BY CombinationFields
<1>2. 12 % 12 = 0 /\ 12 % 6 = 0
  OBVIOUS
<1> QED BY <1>1, <1>2 DEF Raises, Scenarios, Months

(* What is left does not pay back the price. *)
LEMMA LossIs ==
  ASSUME NEW h \in Home, NEW p \in Nat, NEW m \in Markets, NEW c \in Combinations,
         Raises(Computed(h, p, m, c).roi, c)
  PROVE  LET a == Computed(h, p, m, c)
         IN  /\ c.scenario = "base" /\ a.capital > 0
             /\ 20000 * Cover(h, p, m, c) <= -a.capital /\ Cover(h, p, m, c) < 0
<1> DEFINE a == Computed(h, p, m, c)
<1>1. /\ a.profit + a.capital = Cover(h, p, m, c) /\ Cover(h, p, m, c) \in Int
      /\ a.roi = Pct(a.profit, a.capital)
      /\ a.profit \in Int /\ a.capital \in Nat /\ a.roi \in Int
  BY CoverIs
<1>2. c.scenario = "base" /\ a.roi < -10000
  BY RaisesInBase
<1> HIDE DEF a
<1>3. a.capital # 0
  BY <1>1, <1>2 DEF Pct
<1>4. 20000 * (a.profit + a.capital) <= -a.capital
  BY <1>1, <1>2, <1>3, LossBeyond
<1> QED BY <1>1, <1>2, <1>3, <1>4 DEF a

(* Paying cash, the price is the capital: no more than it can be lost. *)
LEMMA LossIsFinanced ==
  ASSUME NEW h \in Home, NEW p \in Nat, NEW m \in Markets, NEW c \in Combinations, c.mode = "cash"
  PROVE  Cover(h, p, m, c) >= 0
<1>1. Part(p, 100, 100) = p
  <2> DEFINE all == Part(p, 100, 100)
  <2>1. all \in Nat /\ 2 * (100 * all) <= 2 * (p * 100) + 100 /\ 2 * (p * 100) <= 2 * (100 * all) + 100
    BY PartNear
  <2> HIDE DEF all
  <2>2. all = p
    BY <2>1
  <2> QED BY <2>2 DEF all
<1>2. Resale(h, m, c) \in Nat
  BY ResaleIs
<1>3. Net(Resale(h, m, c)) \in Nat
  <2>1. Resale(h, m, c) <= Resale(h, m, c)
    BY <1>2
  <2> QED BY <1>2, <2>1, NetGrows
<1>4. Cover(h, p, m, c) = Net(Resale(h, m, c)) - p + Part(p, 100, 100)
  BY DEF Cover
<1> QED BY <1>1, <1>3, <1>4

(* 94% of the resale value is less than what has to be paid back. *)
LEMMA LossIsDear ==
  ASSUME NEW h \in Home, NEW p \in Nat, NEW m \in Markets, NEW c \in Combinations, c.mode # "cash",
         Cover(h, p, m, c) < 0
  PROVE  94 * Resale(h, m, c) < (100 - Profile.entry_pct - 4) * p + 100
<1> DEFINE resale == Resale(h, m, c)
           share == Profile.entry_pct + 4
           net == Net(resale)
           entry == Part(p, share, 100)
<1>1. share \in Nat /\ Profile.entry_pct \in Int
  BY Amounts
<1>2. resale \in Nat
  BY ResaleIs
<1>3. Cover(h, p, m, c) = net - p + entry
  BY DEF Cover
<1> HIDE DEF resale, share
<1>4. net \in Nat /\ 188 * resale <= 200 * net + 100
  <2>1. resale <= resale
    BY <1>2
  <2> QED BY <1>2, <2>1, NetGrows
<1>5. entry \in Nat /\ 2 * (p * share) <= 2 * (100 * entry) + 100
  BY <1>1, PartNear
<1> HIDE DEF net, entry
<1>6. net + entry <= p - 1
  BY <1>3, <1>4, <1>5
<1>7. p * share \in Int
  BY <1>1
<1>8. 94 * resale + p * share <= 100 * p
  BY <1>2, <1>4, <1>5, <1>6, <1>7
<1>9. (100 - Profile.entry_pct - 4) * p = 100 * p - p * share
  BY <1>1 DEF share
<1> QED BY <1>2, <1>7, <1>8, <1>9 DEF resale

(* Light works cost less than medium ones and add less to the value. *)
LEMMA LightLoses ==
  ASSUME NEW h \in Home, h.area > 0, NEW p \in Nat, NEW m \in Markets,
         NEW c \in Combinations, NEW d \in Combinations,
         d.level = "light", d.scenario = c.scenario, d.mode = c.mode,
         Raises(Computed(h, p, m, c).roi, c)
  PROVE  Raises(Computed(h, p, m, d).roi, d)
<1> DEFINE a == Computed(h, p, m, c)
           b == Computed(h, p, m, d)
           share == IF c.mode = "cash" THEN 100 ELSE Profile.entry_pct + 4
<1>1. RenovationCost(h, d.level) <= RenovationCost(h, c.level) /\ 0 < RenovationCost(h, d.level)
  BY DEF RenovationCost, Home
<1>2. HoldingCosts(h, p, d) <= HoldingCosts(h, p, c) /\ HoldingCosts(h, p, d) \in Nat
  <2>1. Owed(c) \in Int /\ Owed(d) = Owed(c)
    BY Amounts DEF Owed
  <2>2. Months(c.scenario) \in {6, 10, 12} /\ Months(d.scenario) = Months(c.scenario)
    BY CombinationFields
  <2>3. Owed(d) <= Owed(c) /\ Months(d.scenario) <= Months(c.scenario)
    BY <2>1, <2>2
  <2>4. HoldingCosts(h, p, d) <= HoldingCosts(h, p, c)
    <3>1. p <= p
      OBVIOUS
    <3> QED BY <2>3, <3>1, HoldingGrows
  <2>5. HoldingCosts(h, p, d) \in Nat
    BY HoldingIs
  <2> QED BY <2>4, <2>5
<1>3. Costs(h, p, d) <= Costs(h, p, c)
  <2>1. p <= p
    OBVIOUS
  <2> QED BY <1>1, <1>2, <2>1, CostsGrow
<1>4. Costs(h, p, c) \in Nat
  BY CostsAre
<1>5. Costs(h, p, d) \in Nat /\ Costs(h, p, d) > 0
  <2>1. /\ Costs(h, p, d) = Spent(h, p, d) + Part(Spent(h, p, d), 12, 100)
        /\ Costs(h, p, d) \in Nat /\ Spent(h, p, d) \in Nat /\ Part(p, 45, 1000) \in Nat
    BY CostsAre
  <2>2. Part(Spent(h, p, d), 12, 100) \in Nat
    BY <2>1, PartType
  <2>3. RenovationCost(h, d.level) \in Nat
    BY RenovationIs
  <2>4. Spent(h, p, d) > 0
    BY <1>1, <1>2, <2>1, <2>3 DEF Spent
  <2> QED BY <2>1, <2>2, <2>4
<1>6. Net(Resale(h, m, d)) <= Net(Resale(h, m, c)) /\ Net(Resale(h, m, c)) \in Nat /\ Net(Resale(h, m, d)) \in Nat
  <2>1. c.level \in Levels
    BY CombinationFields
  <2>2. Resale(h, m, d) <= Resale(h, m, c)
    BY <2>1, ResaleGrows DEF Levels
  <2>3. Resale(h, m, c) \in Nat
    BY ResaleIs
  <2>4. Resale(h, m, d) \in Nat
    BY ResaleIs
  <2>5. Resale(h, m, c) <= Resale(h, m, c)
    BY <2>3
  <2>6. Net(Resale(h, m, d)) <= Net(Resale(h, m, c)) /\ Net(Resale(h, m, d)) \in Nat
    BY <2>2, <2>3, <2>4, NetGrows
  <2>7. Net(Resale(h, m, c)) \in Nat
    BY <2>3, <2>5, NetGrows
  <2> QED BY <2>6, <2>7
<1>7. /\ a.profit + a.capital = Cover(h, p, m, c) /\ Cover(h, p, m, c) \in Int
      /\ a.capital \in Nat /\ a.profit \in Int
  BY CoverIs
<1>8. /\ b.profit + b.capital = Cover(h, p, m, d) /\ Cover(h, p, m, d) \in Int
      /\ b.roi = Pct(b.profit, b.capital) /\ b.capital \in Nat /\ b.profit \in Int
  BY CoverIs
<1>9. c.scenario = "base" /\ 20000 * Cover(h, p, m, c) <= -a.capital
  BY LossIs
<1>10. /\ Cover(h, p, m, c) = Net(Resale(h, m, c)) - p + Part(p, share, 100)
       /\ Cover(h, p, m, d) = Net(Resale(h, m, d)) - p + Part(p, share, 100)
  BY DEF Cover
<1>11. /\ Capital(h, p, c) = Part(p, share, 100) + Costs(h, p, c) /\ Part(p, share, 100) \in Nat
  BY CapitalIs
<1>12. Capital(h, p, d) = Part(p, share, 100) + Costs(h, p, d)
  BY CapitalIs
<1>13. a.capital = Capital(h, p, c)
  BY ComputedIs
<1>14. b.capital = Capital(h, p, d)
  BY ComputedIs
<1> HIDE DEF a, b, share
<1>15. Cover(h, p, m, d) <= Cover(h, p, m, c)
  BY <1>6, <1>10, <1>11
<1>16. b.capital <= a.capital /\ b.capital > 0
  BY <1>3, <1>4, <1>5, <1>11, <1>12, <1>13, <1>14
<1>17. CASE c.level = "light"
  <2>1. c = d
    BY <1>17 DEF Combinations
  <2> QED BY <2>1
<1>18. CASE c.level = "medium"
  <2>1. RenovationCost(h, d.level) < RenovationCost(h, c.level)
    BY <1>18 DEF RenovationCost, Home
  <2>2. Costs(h, p, d) < Costs(h, p, c)
    <3> DEFINE less == Spent(h, p, d)
               more == Spent(h, p, c)
    <3>1. /\ Costs(h, p, d) = less + Part(less, 12, 100) /\ less \in Nat
          /\ Part(p, 45, 1000) \in Nat
      BY CostsAre
    <3>2. Costs(h, p, c) = more + Part(more, 12, 100) /\ more \in Nat
      BY CostsAre
    <3>3. RenovationCost(h, c.level) \in Nat
      BY RenovationIs
    <3>4. RenovationCost(h, d.level) \in Nat
      BY RenovationIs
    <3>5. HoldingCosts(h, p, c) \in Nat
      BY HoldingIs
    <3>6. less < more
      BY <1>2, <2>1, <3>1, <3>3, <3>4, <3>5 DEF Spent
    <3> HIDE DEF less, more
    <3>7. Part(less, 12, 100) <= Part(more, 12, 100)
      BY <3>1, <3>2, <3>6, PartGrows
    <3>8. Part(less, 12, 100) \in Nat
      BY <3>1, PartType
    <3>9. Part(more, 12, 100) \in Nat
      BY <3>2, PartType
    <3> QED BY <3>1, <3>2, <3>6, <3>7, <3>8, <3>9
  <2>3. b.capital < a.capital
    BY <1>4, <1>5, <1>11, <1>12, <1>13, <1>14, <2>2
  <2>4. 20000 * (b.profit + b.capital) < -b.capital
    BY <1>7, <1>8, <1>9, <1>15, <2>3
  <2>5. b.roi < -10000
    BY <1>8, <1>16, <2>4, LossBeyond
  <2>6. 12 % 10 # 0
    OBVIOUS
  <2> QED BY <1>9, <2>5, <2>6 DEF Raises, Months, b
<1> QED BY <1>17, <1>18, CombinationFields DEF Levels

(* For any home, price and market an analysis raises in financed base        *)
(* combinations only, in the light one if in any, and only at a price that   *)
(* 94% of the resale value does not repay.                                   *)
THEOREM RaisesCorrect == Spec => []RaisesWhenDear
<1>1. DealsInv => RaisesWhenDear
  <2> SUFFICES ASSUME DealsInv, home.area > 0, NEW c \in Combinations, Raises(Analysis(price, market, c).roi, c)
               PROVE  /\ c.scenario = "base" /\ c.mode = "financed"
                      /\ Raises(Analysis(price, market, [c EXCEPT !.level = "light"]).roi,
                                [c EXCEPT !.level = "light"])
                      /\ 94 * Resale(home, market, c) < (100 - Profile.entry_pct - 4) * price + 100
    BY DEF RaisesWhenDear
  <2> DEFINE d == [c EXCEPT !.level = "light"]
  <2>1. price \in Prices /\ price \in Nat /\ market \in Markets /\ home \in Homes /\ home \in Home
    BY Amounts DEF DealsInv
  <2>2. d \in Combinations /\ d.level = "light" /\ d.scenario = c.scenario /\ d.mode = c.mode
    BY DEF Combinations, Levels
  <2> HIDE DEF d
  <2>3. /\ Analysis(price, market, c) = Computed(home, price, market, c)
        /\ Analysis(price, market, d) = Computed(home, price, market, d)
    BY <2>1, <2>2, AnalysisIs
  <2>4. c.scenario = "base" /\ Cover(home, price, market, c) < 0
    BY <2>1, <2>3, LossIs
  <2>5. Cover(home, price, market, c) \in Int
    BY <2>1, CoverIs
  <2>6. c.mode = "financed"
    <3>1. c.mode \in Modes
      BY CombinationFields
    <3>2. c.mode # "cash"
      BY <2>1, <2>4, <2>5, LossIsFinanced
    <3> QED BY <3>1, <3>2 DEF Modes
  <2>7. Raises(Analysis(price, market, d).roi, d)
    BY <2>1, <2>2, <2>3, LightLoses
  <2>8. 94 * Resale(home, market, c) < (100 - Profile.entry_pct - 4) * price + 100
    <3>1. c.mode # "cash"
      BY <2>6
    <3> QED BY <2>1, <2>4, <3>1, LossIsDear
  <2> QED BY <2>4, <2>6, <2>7, <2>8 DEF d
<1> QED BY <1>1, DealsInitially, DealsKept, PTL DEF Spec

-----------------------------------------------------------------------------
(***************************************************************************)
(* The preliminary analysis of a home that is worth an analysis.           *)
(***************************************************************************)

(* The combination GET /deals shows. *)
LEMMA CanonicalIs ==
  /\ Canonical \in Combinations /\ Canonical.level = "medium"
  /\ Canonical.scenario = "base" /\ Canonical.mode = "financed"
  BY DEF Canonical, Combinations, Levels, Scenarios, Modes

(* The costs the preliminary analysis counts. *)
FirstCosts(p) ==
    Part(p, 45, 1000) + FirstWorks + Part(FirstWorks + Part(p, 45, 1000), 12, 100)

(* It takes the works to be cheaper, and counts no months. *)
LEMMA FirstCostsLess ==
  ASSUME home \in Home, NEW p \in Nat
  PROVE  FirstCosts(p) \in Nat /\ FirstCosts(p) + 350 * home.area <= Costs(home, p, Canonical)
<1> DEFINE t == Part(p, 45, 1000)
           less == FirstWorks + t
           more == Spent(home, p, Canonical)
<1>1. t \in Nat /\ more \in Nat /\ Costs(home, p, Canonical) = more + Part(more, 12, 100)
  BY CanonicalIs, CostsAre
<1>2. FirstWorks \in Nat /\ home.area \in Nat /\ FirstWorks + 350 * home.area <= 1200 * home.area
  BY DEF FirstWorks, Home
<1>3. HoldingCosts(home, p, Canonical) \in Nat
  BY CanonicalIs, HoldingIs
<1>4. RenovationCost(home, "medium") = 1200 * home.area
  BY <1>2 DEF RenovationCost
<1>5. more = RenovationCost(home, "medium") + t + HoldingCosts(home, p, Canonical)
  BY CanonicalIs DEF Spent
<1>6. FirstCosts(p) = less + Part(less, 12, 100)
  <2>1. FirstCosts(p) = t + FirstWorks + Part(less, 12, 100)
    BY DEF FirstCosts
  <2>2. t + FirstWorks = FirstWorks + t
    BY <1>1, <1>2
  <2> QED BY <2>1, <2>2
<1> HIDE DEF t, more
<1>7. less \in Nat /\ less + 350 * home.area <= more
  BY <1>1, <1>2, <1>3, <1>4, <1>5
<1> HIDE DEF less
<1>8. less <= more
  BY <1>1, <1>2, <1>7
<1>9. Part(less, 12, 100) <= Part(more, 12, 100)
  BY <1>1, <1>7, <1>8, PartGrows
<1>10. Part(less, 12, 100) \in Nat
  <2>1. less \in Nat
    BY <1>7
  <2> QED BY <2>1, PartType
<1>11. Part(more, 12, 100) \in Nat
  BY <1>1, PartType
<1> QED BY <1>1, <1>2, <1>6, <1>7, <1>9, <1>10, <1>11

(* Works cost something wherever there is a building. *)
LEMMA FirstCostsMore ==
  ASSUME home \in Home, home.area > 0, home.type # "terreno", NEW p \in Nat
  PROVE  FirstCosts(p) > 0
<1>1. Part(p, 45, 1000) \in Nat
  BY PartType
<1>2. FirstWorks \in Nat /\ FirstWorks > 0
  BY DEF FirstWorks, Home
<1>3. FirstWorks + Part(p, 45, 1000) \in Nat
  BY <1>1, <1>2
<1> DEFINE less == FirstWorks + Part(p, 45, 1000)
<1>4. FirstCosts(p) = Part(p, 45, 1000) + FirstWorks + Part(less, 12, 100)
  BY DEF FirstCosts
<1> HIDE DEF less
<1>5. Part(less, 12, 100) \in Nat
  <2>1. less \in Nat
    BY <1>3 DEF less
  <2> QED BY <2>1, PartType
<1> QED BY <1>1, <1>2, <1>4, <1>5

(* It expects no less than the market's 65th percentile, and the analysis at *)
(* most a tenth more than the median.                                        *)
LEMMA FirstResaleMore ==
  ASSUME home \in Home, home.area > 0, NEW p \in Nat, NEW m \in Markets
  PROVE  /\ FirstResale(p, m.p65) \in Nat /\ FirstResale(p, m.p65) > 0
         /\ Resale(home, m, Canonical) \in Nat
         /\ 10 * Resale(home, m, Canonical) <= 11 * FirstResale(p, m.p65) + 5
<1> DEFINE x == home.area * m.p50
           y == home.area * m.p65
           uplift == CASE home.type = "apartamento" -> 108 [] home.type = "casa" -> 106
                       [] home.type = "terreno" -> 100
           share == ShareOf(home, Canonical)
           first == FirstResale(p, m.p65)
           resale == Resale(home, m, Canonical)
<1>1. home.area \in Nat /\ m.p50 \in Nat /\ m.p65 \in Nat /\ m.p50 > 0 /\ m.p50 <= m.p65
  BY Amounts DEF Home
<1>2. x \in Nat /\ y \in Nat /\ x <= y /\ x > 0
  <2>1. home.area * m.p50 <= home.area * m.p65
    BY <1>1
  <2>2. home.area * m.p50 > 0
    BY <1>1
  <2> QED BY <1>1, <2>1, <2>2
<1>3. uplift \in {100, 106, 108}
  BY DEF Home
<1>4. first = Part(y, uplift, 100)
  <2>1. m.p65 > 0 /\ home.area > 0
    BY <1>1
  <2> QED BY <2>1, Zenon DEF FirstResale
<1>5. resale = Part(x, share, 40000)
  <2>1. RateOf(m, Canonical) = m.p50
    BY CanonicalIs DEF RateOf
  <2> QED BY <2>1, CanonicalIs, ResaleIs
<1>6. share \in Nat /\ share <= 44000
  <2>1. KeptOf(home) \in {92, 93, 100}
    BY DEF Home, KeptOf
  <2>2. share = 22 * KeptOf(home) * 20
    BY CanonicalIs DEF ShareOf, WorksOf, CautionOf
  <2> QED BY <2>1, <2>2
<1> HIDE DEF x, y, uplift, share, first, resale
<1>7. first \in Nat /\ y <= first
  <2>1. Part(y, 100, 100) <= first
    BY <1>2, <1>3, <1>4, PartGrows
  <2>2. Part(y, 100, 100) = y
    <3> DEFINE all == Part(y, 100, 100)
    <3>1. all \in Nat /\ 2 * (100 * all) <= 2 * (y * 100) + 100 /\ 2 * (y * 100) <= 2 * (100 * all) + 100
      BY <1>2, PartNear
    <3> HIDE DEF all
    <3>2. all = y
      BY <1>2, <3>1
    <3> QED BY <3>2 DEF all
  <2>3. uplift \in Nat /\ y \in Nat
    BY <1>2, <1>3
  <2>4. first \in Nat
    BY <1>4, <2>3, PartType
  <2> QED BY <2>1, <2>2, <2>4
<1>8. resale \in Nat /\ 80000 * resale <= 88000 * x + 40000
  <2>1. Part(x, share, 40000) <= Part(x, 44000, 40000)
    <3>1. x <= x
      BY <1>2
    <3> QED BY <1>2, <1>6, <3>1, PartGrows
  <2> DEFINE most == Part(x, 44000, 40000)
  <2>2. most \in Nat /\ 2 * (40000 * most) <= 2 * (x * 44000) + 40000
    BY <1>2, PartNear
  <2> HIDE DEF most
  <2>3. resale \in Nat
    BY <1>2, <1>5, <1>6, PartType
  <2>4. resale <= most
    BY <1>5, <2>1 DEF most
  <2> QED BY <1>2, <2>2, <2>3, <2>4
<1>9. first > 0 /\ 10 * resale <= 11 * first + 5
  BY <1>2, <1>7, <1>8
<1> QED BY <1>7, <1>8, <1>9 DEF first, resale

(* A margin of 30% after the costs leaves the preliminary analysis 23%.      *)
LEMMA FirstWorth ==
  ASSUME home \in Home, home.area > 0, NEW p \in Nat, NEW m \in Markets,
         Computed(home, p, m, Canonical).margin >= 3000
  PROVE  LET first == FirstResale(p, m.p65)
             spent == p + FirstCosts(p)
         IN  /\ first \in Nat /\ first > 0 /\ spent \in Nat /\ Net(first) \in Nat
             /\ 10000 * spent <= 7041 * first
             /\ 2359 * first <= 10000 * (Net(first) - spent)
<1> DEFINE a == Computed(home, p, m, Canonical)
           resale == Resale(home, m, Canonical)
           first == FirstResale(p, m.p65)
           costs == Costs(home, p, Canonical)
           spent == p + FirstCosts(p)
<1>1. /\ a.profit = Net(resale) - p - costs /\ a.profit \in Int
      /\ a.margin = Pct(a.profit, resale) /\ a.margin \in Int
  BY CanonicalIs, ComputedIs
<1>2. first \in Nat /\ first > 0 /\ resale \in Nat /\ 10 * resale <= 11 * first + 5
  BY FirstResaleMore
<1>3. FirstCosts(p) \in Nat /\ FirstCosts(p) + 350 * home.area <= costs
  BY FirstCostsLess
<1>4. home.area \in Nat /\ home.area >= 1
  BY DEF Home
<1>5. costs \in Nat
  BY CanonicalIs, CostsAre
<1>6. a.margin >= 3000
  OBVIOUS
<1>7. spent = p + FirstCosts(p)
  OBVIOUS
<1> HIDE DEF a, resale, first, costs, spent
<1>8. 5999 * resale <= 20000 * a.profit
  <2>1. resale # 0
    BY <1>1, <1>6 DEF Pct
  <2>2. 2 * (resale * a.margin) <= 20000 * a.profit + resale
    <3>1. resale \in Nat \ {0}
      BY <1>2, <2>1
    <3> DEFINE v == a.profit
    <3>2. v \in Int
      BY <1>1
    <3> HIDE DEF v
    <3>3. 2 * (resale * Pct(v, resale)) <= 20000 * v + resale
      BY <3>1, <3>2, PctNear
    <3> QED BY <1>1, <3>3 DEF v
  <2>3. resale * 3000 <= resale * a.margin /\ resale * a.margin \in Int
    BY <1>1, <1>2, <1>6
  <2> QED BY <1>1, <1>2, <2>2, <2>3
<1>9. Net(resale) \in Nat /\ 200 * Net(resale) <= 188 * resale + 100
  <2>1. resale <= resale
    BY <1>2
  <2> QED BY <1>2, <2>1, NetGrows
<1>10. Net(first) \in Nat /\ 188 * first <= 200 * Net(first) + 100
  <2>1. first <= first
    BY <1>2
  <2> QED BY <1>2, <2>1, NetGrows
<1>11. spent \in Nat /\ spent + 350 <= p + costs
  BY <1>3, <1>4, <1>5, <1>7
<1>12. 20000 * spent + 6990000 <= 12801 * resale
  BY <1>1, <1>2, <1>5, <1>8, <1>9, <1>11
<1>13. 10000 * spent <= 7041 * first
  BY <1>2, <1>11, <1>12
<1>14. 2359 * first <= 10000 * (Net(first) - spent)
  BY <1>2, <1>10, <1>11, <1>12
<1> QED BY <1>2, <1>10, <1>11, <1>13, <1>14 DEF first, spent

(* Each step that is reached counts for what it is worth, at least. *)
LEMMA PointsAtLeast ==
  ASSUME NEW steps \in SUBSET (0..100), NEW x \in steps \cup {0}
  PROVE  Points(steps) \in Nat /\ x <= Points(steps)
<1>1. Points(steps) \in steps \cup {0} /\ x <= Points(steps)
  BY PointsReached
<1>2. steps \cup {0} \in SUBSET (0..100)
  OBVIOUS
<1>3. Points(steps) \in 0..100
  BY <1>1, <1>2
<1> QED BY <1>1, <1>3

(* 24 points for the return, 18 for the margin, 3 for a profit and 8 for     *)
(* what is known.                                                            *)
LEMMA FirstScoreReaches ==
  ASSUME home \in Home, home.area > 0, NEW profit \in Int, NEW margin \in Int, NEW roi \in Int, NEW capital \in Nat,
         profit > 0, margin >= 2000, roi >= 2444
  PROVE  FirstScore(profit, margin, roi, capital) >= 50
<1> DEFINE A == {Step(TRUE, 8), Step(roi >= 1235, 16), Step(roi >= 2444, 24),
                 Step(roi >= 4020, 30), Step(roi >= 6320, 35)}
           B == {Step(TRUE, 4), Step(margin >= 1000, 10), Step(margin >= 2000, 18), Step(margin >= 3000, 25)}
           C == {Step(TRUE, 3), Step(profit >= 15000, 7), Step(profit >= 40000, 13), Step(profit >= 80000, 20)}
           D == {Step(capital <= 150000, 10), Step(capital <= 300000, 6)}
           E == {Step(home.area > 0, 4)}
<1>1. /\ A \in SUBSET (0..100) /\ B \in SUBSET (0..100) /\ C \in SUBSET (0..100)
      /\ D \in SUBSET (0..100) /\ E \in SUBSET (0..100)
  BY DEF Step
<1>2. 24 \in A /\ 18 \in B /\ 3 \in C /\ 4 \in E
  BY DEF Step
<1>3. FirstScore(profit, margin, roi, capital) = Points(A) + Points(B) + Points(C) + Points(D) + Points(E) + 4
  BY DEF FirstScore
<1> HIDE DEF A, B, C, D, E
<1>4. Points(A) \in Nat /\ 24 <= Points(A)
  BY <1>1, <1>2, PointsAtLeast
<1>5. Points(B) \in Nat /\ 18 <= Points(B)
  BY <1>1, <1>2, PointsAtLeast
<1>6. Points(C) \in Nat /\ 3 <= Points(C)
  BY <1>1, <1>2, PointsAtLeast
<1>7. Points(D) \in Nat
  BY <1>1, PointsAtLeast
<1>8. Points(E) \in Nat /\ 4 <= Points(E)
  BY <1>1, <1>2, PointsAtLeast
<1> QED BY <1>3, <1>4, <1>5, <1>6, <1>7, <1>8

(* The shares that are computed of a price or of its costs. *)
LEMMA SharesOf ==
  ASSUME NEW p \in Nat
  PROVE  /\ Part(p, 29, 100) \in Nat
         /\ 2 * (100 * Part(p, 29, 100)) <= 2 * (p * 29) + 100
         /\ 2 * (p * 29) <= 2 * (100 * Part(p, 29, 100)) + 100
         /\ Part(p, 45, 1000) \in Nat /\ Part(p, 12, 100) \in Nat /\ Part(p, 6, 100) \in Nat
<1>1. /\ Part(p, 29, 100) \in Nat
      /\ 2 * (100 * Part(p, 29, 100)) <= 2 * (p * 29) + 100
      /\ 2 * (p * 29) <= 2 * (100 * Part(p, 29, 100)) + 100
  BY PartNear
<1>2. Part(p, 45, 1000) \in Nat
  BY PartType
<1>3. Part(p, 12, 100) \in Nat
  BY PartType
<1>4. Part(p, 6, 100) \in Nat
  BY PartType
<1> QED BY <1>1, <1>2, <1>3, <1>4

(* What GET /deals keeps of an analysis, apart from its score. *)
Worth(p, m) ==
    LET a == Computed(home, p, m, Canonical)
    IN  a.margin >= 3000 /\ a.capital <= Profile.max_capital

(* What the analysis would keep, the preliminary one keeps.                  *)
LEMMA FirstKeeps ==
  ASSUME 25 <= Profile.entry_pct, home \in Home, home.area > 0, NEW p \in Nat, p > 0, NEW m \in Markets,
         p # 1 \/ home.type # "terreno", Worth(p, m)
  PROVE  FirstKept(p, m.p65)
<1>1. /\ Part(p, 29, 100) \in Nat
      /\ 2 * (100 * Part(p, 29, 100)) <= 2 * (p * 29) + 100
      /\ 2 * (p * 29) <= 2 * (100 * Part(p, 29, 100)) + 100
      /\ Part(p, 45, 1000) \in Nat
  BY SharesOf
<1>2. \A x \in Nat : Part(x, 12, 100) \in Nat
  BY SharesOf, Zenon
<1>3. \A x \in Nat : Part(x, 6, 100) \in Nat
  BY SharesOf, Zenon
<1> DEFINE first == FirstResale(p, m.p65)
           costs == FirstCosts(p)
           spent == p + costs
           entry == Part(p, 29, 100)
           capital == entry + costs
           profit == Net(first) - spent
           look == FirstLook(p, m.p65)
           own == Capital(home, p, Canonical)
<1>4. /\ first \in Nat /\ first > 0 /\ spent \in Nat /\ Net(first) \in Nat
      /\ 10000 * spent <= 7041 * first
      /\ 2359 * first <= 10000 * (Net(first) - spent)
  BY FirstWorth DEF Worth
<1>5. costs \in Nat /\ costs + 350 * home.area <= Costs(home, p, Canonical)
  BY FirstCostsLess
<1>6. entry \in Nat /\ entry <= p /\ (p # 1 => entry > 0)
  <2>1. entry \in Nat /\ 2 * (100 * entry) <= 2 * (p * 29) + 100 /\ 2 * (p * 29) <= 2 * (100 * entry) + 100
    BY <1>1
  <2> HIDE DEF entry
  <2> QED BY <2>1
<1>7. capital \in Nat /\ capital > 0 /\ capital <= spent
  <2>1. home.type # "terreno" => costs > 0
    BY FirstCostsMore
  <2> HIDE DEF entry, costs
  <2> QED BY <1>5, <1>6, <2>1
<1>8. capital <= Profile.max_capital
  <2> DEFINE share == Profile.entry_pct + 4
  <2>1. own = Part(p, share, 100) + Costs(home, p, Canonical) /\ Part(p, share, 100) \in Nat /\ own \in Nat
    BY CanonicalIs, CapitalIs
  <2>2. share \in Nat /\ 29 <= share
    BY Amounts
  <2>3. own <= Profile.max_capital
    BY CanonicalIs, ComputedIs DEF Worth
  <2>4. Profile.max_capital \in Nat /\ Costs(home, p, Canonical) \in Nat /\ home.area \in Nat
    <3>1. Costs(home, p, Canonical) \in Nat
      BY CanonicalIs, CostsAre
    <3> QED BY <3>1, Amounts DEF Home
  <2> HIDE DEF share, own
  <2>5. entry <= Part(p, share, 100)
    <3>1. p <= p
      OBVIOUS
    <3> QED BY <2>2, <3>1, PartGrows
  <2> HIDE DEF entry, costs
  <2> QED BY <1>5, <1>6, <2>1, <2>3, <2>4, <2>5
<1>9. look.capital = capital /\ look.score = FirstScore(profit, Pct(profit, first), Pct(profit, capital), capital)
  <2> DEFINE t == Part(p, 45, 1000)
             reserve == Part(FirstWorks + t, 12, 100)
  <2>1. /\ look.capital = entry + t + FirstWorks + reserve
        /\ look.score = FirstScore(first - (p + t + FirstWorks + Part(first, 6, 100) + reserve),
                                   Pct(first - (p + t + FirstWorks + Part(first, 6, 100) + reserve), first),
                                   Pct(first - (p + t + FirstWorks + Part(first, 6, 100) + reserve), look.capital),
                                   look.capital)
    BY DEF FirstLook
  <2>2. t \in Nat /\ FirstWorks \in Nat
    <3>1. t \in Nat
      BY <1>1
    <3> QED BY <3>1 DEF FirstWorks, Home
  <2>3. costs = t + FirstWorks + reserve
    BY DEF FirstCosts
  <2>4. reserve \in Nat
    <3>1. FirstWorks + t \in Nat
      BY <2>2
    <3> HIDE DEF t
    <3> QED BY <1>2, <3>1
  <2>5. Part(first, 6, 100) \in Nat
    <3> HIDE DEF first
    <3> QED BY <1>4, <1>3
  <2> HIDE DEF look, entry, costs, first, t, reserve
  <2>6. look.capital = capital
    BY <1>6, <2>1, <2>2, <2>3, <2>4
  <2>7. first - (p + t + FirstWorks + Part(first, 6, 100) + reserve) = profit
    BY <1>4, <2>2, <2>3, <2>4, <2>5 DEF Net
  <2> HIDE DEF profit, capital
  <2> QED BY <2>1, <2>6, <2>7
<1>10. FirstKept(p, m.p65) <=> look.score >= 50 /\ look.capital <= Profile.max_capital
  BY DEF FirstKept
<1> HIDE DEF look, costs, entry
<1>11. profit \in Int /\ profit > 0 /\ 2359 * first <= 10000 * profit
  <2> HIDE DEF first, spent
  <2> QED BY <1>4
<1>12. 10000 * capital <= 7041 * first
  <2> HIDE DEF first, spent, capital
  <2> QED BY <1>4, <1>7
<1> HIDE DEF first, spent, profit, capital
<1>13. Pct(profit, first) \in Int /\ Pct(profit, first) >= 2000
  <2>1. first \in Nat \ {0} /\ 2000 * first <= 10000 * profit
    BY <1>4, <1>11
  <2>2. 2000 <= Pct(profit, first)
    BY <1>11, <2>1, PctReaches
  <2>3. Pct(profit, first) \in Int
    BY <1>11, <2>1, PctNear
  <2> QED BY <2>2, <2>3
<1>14. Pct(profit, capital) \in Int /\ Pct(profit, capital) >= 2444
  <2>1. capital \in Nat \ {0} /\ 2444 * capital <= 10000 * profit
    BY <1>4, <1>7, <1>11, <1>12
  <2>2. 2444 <= Pct(profit, capital)
    BY <1>11, <2>1, PctReaches
  <2>3. Pct(profit, capital) \in Int
    BY <1>11, <2>1, PctNear
  <2> QED BY <2>2, <2>3
<1>15. look.score >= 50
  BY <1>7, <1>9, <1>11, <1>13, <1>14, FirstScoreReaches
<1> QED BY <1>8, <1>9, <1>10, <1>15

(* What one real pays for has a building, whose works cost more. *)
NoFreeLots == 1 \in Prices => \A h \in Homes : h.area > 0 => h.type # "terreno"

(* For an entry of 25% or more, the one the preliminary analysis assumes:    *)
(* what an analysis would keep, the preliminary one shows.  The capital of a *)
(* lot of one real rounds to nothing here, and its return to zero.           *)
THEOREM ShownCorrect ==
  ASSUME 25 <= Profile.entry_pct, NoFreeLots PROVE Spec => []NotHiddenByDemo
<1>1. DealsInv => NotHiddenByDemo
  <2> SUFFICES ASSUME DealsInv, home.area > 0, rate = market.p65, Kept(price, market), NEW others \in BOOLEAN
               PROVE  Listed(others) # "demo"
    BY Zenon DEF NotHiddenByDemo
  <2>1. price \in Prices /\ price \in Nat /\ price > 0 /\ market \in Markets /\ home \in Homes /\ home \in Home
    BY Amounts DEF DealsInv
  <2> DEFINE a == Computed(home, price, market, Canonical)
  <2>2. Analysis(price, market, Canonical) = a
    BY <2>1, CanonicalIs, AnalysisIs
  <2>3. a.decision # "discard" /\ a.capital <= Profile.max_capital
    BY <2>2 DEF Kept
  <2>4. a.decision = Decide(a.score, a.margin) /\ a.margin \in Int
    BY <2>1, CanonicalIs, ComputedIs
  <2>5. a.margin >= 3000
    <3> HIDE DEF a
    <3> QED BY <2>3, <2>4 DEF Decide
  <2>6. price # 1 \/ home.type # "terreno"
    BY <2>1 DEF NoFreeLots
  <2>7. Worth(price, market)
    BY <2>3, <2>5 DEF Worth
  <2>8. FirstKept(price, market.p65)
    BY <2>1, <2>6, <2>7, FirstKeeps
  <2> QED BY <2>8 DEF Listed
<1> QED BY <1>1, DealsInitially, DealsKept, PTL DEF Spec
=============================================================================
