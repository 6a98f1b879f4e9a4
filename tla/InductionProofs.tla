-------------------------- MODULE InductionProofs --------------------------
(***************************************************************************)
(* Induction for the other proofs.  The induction theorems of the library  *)
(* take the statement as an operator; here it is a set, of naturals or of  *)
(* subsets, so that the provers can use it.  It gives the existence of a   *)
(* fold over a finite set, and the sum of a function.                      *)
(***************************************************************************)
EXTENDS Integers, FiniteSetTheorems, WellFoundedInduction, TLAPS

-----------------------------------------------------------------------------
(* Least and greatest elements. *)

(* A set of naturals has a least element: the initial segments below its     *)
(* members are finite sets, and strict inclusion is well-founded on those.   *)
LEMMA Least ==
  ASSUME NEW S \in SUBSET Nat, S # {}
  PROVE  \E m \in S : \A n \in S : m <= n
<1> DEFINE Segments == {0..n : n \in S}
<1>1. Segments \subseteq FiniteSubsetsOf(Nat)
  <2> SUFFICES ASSUME NEW n \in S PROVE 0..n \in FiniteSubsetsOf(Nat)
    OBVIOUS
  <2>1. IsFiniteSet(0..n)
    BY FS_Interval
  <2> QED BY <2>1 DEF FiniteSubsetsOf
<1>2. Segments # {}
  OBVIOUS
<1>3. IsWellFoundedOn(StrictSubsetOrdering(Nat), FiniteSubsetsOf(Nat))
  BY FS_StrictSubsetOrderingWellFounded
<1>4. PICK X \in Segments : \A Y \in Segments : <<Y, X>> \notin StrictSubsetOrdering(Nat)
  <2> HIDE DEF Segments
  <2> QED BY <1>1, <1>2, <1>3, WFMin, Zenon
<1>5. PICK m \in S : X = 0..m
  BY <1>4
<1>6. ASSUME NEW n \in S, n < m PROVE FALSE
  <2>1. 0..n \subseteq 0..m /\ m \in 0..m /\ m \notin 0..n
    BY <1>6
  <2>2. 0..n \in SUBSET Nat /\ 0..m \in SUBSET Nat /\ 0..n # 0..m
    BY <2>1
  <2>3. <<0..n, 0..m>> \in StrictSubsetOrdering(Nat)
    BY <2>1, <2>2 DEF StrictSubsetOrdering
  <2> QED BY <1>4, <1>5, <2>3
<1> QED BY <1>6

(* A finite set of naturals has a greatest element: the member that leaves   *)
(* the fewest above it.                                                      *)
LEMMA Greatest ==
  ASSUME NEW S \in SUBSET Nat, S # {}, IsFiniteSet(S)
  PROVE  \E m \in S : \A n \in S : n <= m
<1> DEFINE Above(n) == {x \in S : x > n}
           Rests == {Above(n) : n \in S}
<1>1. Rests \subseteq FiniteSubsetsOf(S)
  <2> SUFFICES ASSUME NEW n \in S PROVE Above(n) \in FiniteSubsetsOf(S)
    OBVIOUS
  <2>1. Above(n) \in SUBSET S
    OBVIOUS
  <2>2. IsFiniteSet(Above(n))
    <3> HIDE DEF Above
    <3> QED BY <2>1, FS_Subset
  <2> QED BY <2>1, <2>2 DEF FiniteSubsetsOf
<1>2. Rests # {}
  OBVIOUS
<1>3. IsWellFoundedOn(StrictSubsetOrdering(S), FiniteSubsetsOf(S))
  BY FS_StrictSubsetOrderingWellFounded
<1>4. PICK X \in Rests : \A Y \in Rests : <<Y, X>> \notin StrictSubsetOrdering(S)
  <2> HIDE DEF Rests
  <2> QED BY <1>1, <1>2, <1>3, WFMin, Zenon
<1>5. PICK m \in S : X = Above(m)
  BY <1>4
<1>6. ASSUME NEW n \in S, n > m PROVE FALSE
  <2>a. n \in Above(m) /\ n \notin Above(n)
    BY <1>6
  <2>b. ASSUME NEW x \in Above(n) PROVE x \in Above(m)
    <3>1. x \in Nat /\ n \in Nat /\ m \in Nat /\ x \in S /\ x > n
      OBVIOUS
    <3>2. x > m
      BY <1>6, <3>1
    <3> QED BY <3>1, <3>2
  <2>1. Above(n) \subseteq Above(m) /\ n \in Above(m) /\ n \notin Above(n)
    BY <2>a, <2>b
  <2>2. Above(n) \in SUBSET S /\ Above(m) \in SUBSET S /\ Above(n) # Above(m)
    BY <2>1
  <2>3. <<Above(n), Above(m)>> \in StrictSubsetOrdering(S)
    BY <2>1, <2>2 DEF StrictSubsetOrdering
  <2>4. Above(n) \in Rests
    OBVIOUS
  <2> QED BY <1>4, <1>5, <2>3, <2>4
<1> QED BY <1>6

(* Finitely many members have finitely many values. *)
LEMMA FinitelyMany ==
  ASSUME NEW s, NEW D, IsFiniteSet(D)
  PROVE  IsFiniteSet({s[x] : x \in D})
<1> DEFINE f == [x \in D |-> s[x]]
           V == {s[x] : x \in D}
<1>1. f \in Surjection(D, V)
  BY DEF Surjection
<1> QED BY <1>1, FS_Surjection

-----------------------------------------------------------------------------
(* Subsets and folds. *)

(* Among finite sets one contains no other.                                  *)
LEMMA Minimal ==
  ASSUME NEW S, NEW B, B \subseteq FiniteSubsetsOf(S), B # {}
  PROVE  \E s \in B : \A r \in B : <<r, s>> \notin StrictSubsetOrdering(S)
  BY FS_StrictSubsetOrderingWellFounded, WFMin, Zenon

(* What holds of the empty set, and of a set once it holds of the set        *)
(* without one of its members, holds of all subsets of a finite set.         *)
LEMMA ByRemoval ==
  ASSUME NEW S, IsFiniteSet(S), NEW good \in SUBSET SUBSET S, {} \in good,
         \A s \in SUBSET S : s # {} => \E x \in s : s \ {x} \in good => s \in good
  PROVE  good = SUBSET S
<1> DEFINE bad == (SUBSET S) \ good
<1> SUFFICES ASSUME bad # {} PROVE FALSE
  OBVIOUS
<1>0. bad # {}
  OBVIOUS
<1>1. bad \subseteq FiniteSubsetsOf(S)
  BY FS_Subset DEF FiniteSubsetsOf
<1>3. PICK s \in bad : \A r \in bad : <<r, s>> \notin StrictSubsetOrdering(S)
  BY <1>0, <1>1, Minimal
<1>4. s # {} /\ s \in SUBSET S
  OBVIOUS
<1>5. PICK x \in s : s \ {x} \in good => s \in good
  BY <1>4
<1>6. s \ {x} \in bad
  BY <1>4, <1>5
<1>7. <<s \ {x}, s>> \in StrictSubsetOrdering(S)
  BY <1>4 DEF StrictSubsetOrdering
<1> QED BY <1>3, <1>6, <1>7

(* A fold: c chooses the member that is taken last.                          *)
Folds(g, G, b, c, S) ==
    g = [s \in SUBSET S |-> IF s = {} THEN b ELSE G[c[s], g[s \ {c[s]}]]]

(* What is folded stays in V. *)
FoldsIn(G, b, c, S, V) ==
    /\ b \in V
    /\ G \in [S \X V -> V]
    /\ \A s \in SUBSET S : s # {} => c[s] \in s

(* A recursion over the subsets of a finite set has a solution, built on     *)
(* subsets of growing size.                                                  *)
LEMMA FoldExists ==
  ASSUME NEW S, IsFiniteSet(S), NEW V, NEW b, NEW G, NEW c, FoldsIn(G, b, c, S, V)
  PROVE  \E g \in [SUBSET S -> V] : Folds(g, G, b, c, S)
<1> USE DEF FoldsIn
<1> DEFINE Small(n) == {s \in SUBSET S : Cardinality(s) <= n}
           Upto(g, n) == /\ g \in [Small(n) -> V]
                         /\ \A s \in Small(n) : g[s] = IF s = {} THEN b ELSE G[c[s], g[s \ {c[s]}]]
           bad == {n \in Nat : ~ \E g : Upto(g, n)}
<1>1. \A s \in SUBSET S : IsFiniteSet(s) /\ Cardinality(s) \in Nat
  BY FS_Subset, FS_CardinalityType
<1>2. \A s \in SUBSET S : Cardinality(s) = 0 <=> s = {}
  BY <1>1, FS_EmptySet
<1>3. ASSUME NEW s \in SUBSET S, s # {}
      PROVE  s \ {c[s]} \in SUBSET S /\ Cardinality(s \ {c[s]}) = Cardinality(s) - 1
  BY <1>1, <1>3, FS_RemoveElement
<1>4. bad = {}
  <2> SUFFICES ASSUME bad # {} PROVE FALSE
    OBVIOUS
  <2>1. bad \in SUBSET Nat
    OBVIOUS
  <2>b. \A n \in Nat : n \notin bad => \E g : Upto(g, n)
    OBVIOUS
  <2>c. \A n \in bad : ~ \E g : Upto(g, n)
    OBVIOUS
  <2> HIDE DEF bad
  <2>2. PICK m \in bad : \A n \in bad : m <= n
    BY <2>1, Least
  <2>a. m \in Nat
    BY <2>1
  <2> HIDE DEF Upto
  <2>3. m # 0
    <3> SUFFICES ASSUME m = 0 PROVE FALSE
      OBVIOUS
    <3>a. \A s \in SUBSET S : Cardinality(s) <= 0 <=> s = {}
      BY <1>1, <1>2
    <3>b. {} \in SUBSET S
      OBVIOUS
    <3>1. Small(0) = {{}}
      BY <3>a, <3>b
    <3>2. Upto([s \in Small(0) |-> b], 0)
      BY <3>1 DEF Upto
    <3> QED BY <3>2, <2>c
  <2>4. PICK g : Upto(g, m - 1)
    <3>1. m - 1 \in Nat /\ ~(m <= m - 1)
      BY <2>3, <2>a
    <3>2. m - 1 \notin bad
      BY <3>1, <2>2
    <3> QED BY <3>1, <3>2, <2>b
  <2> DEFINE h == [s \in Small(m) |-> IF s = {} THEN b ELSE G[c[s], g[s \ {c[s]}]]]
  <2>5. ASSUME NEW s \in Small(m), s # {} PROVE s \ {c[s]} \in Small(m - 1) /\ c[s] \in S
    <3>1. Cardinality(s) \in Nat /\ Cardinality(s) <= m /\ s \in SUBSET S
      BY <1>1
    <3>2. s \ {c[s]} \in SUBSET S /\ Cardinality(s \ {c[s]}) = Cardinality(s) - 1
      BY <1>3, <2>5
    <3>3. c[s] \in S
      BY <2>5
    <3> QED BY <2>a, <3>1, <3>2, <3>3
  <2>6. h \in [Small(m) -> V]
    <3> HIDE DEF Small
    <3> QED BY <2>4, <2>5 DEF Upto
  <2>7. ASSUME NEW s \in Small(m), s # {} PROVE h[s \ {c[s]}] = g[s \ {c[s]}]
    <3>1. s \ {c[s]} \in Small(m - 1) /\ s \ {c[s]} \in Small(m)
      <4>1. s \ {c[s]} \in Small(m - 1)
        BY <2>5, <2>7
      <4>2. \A r \in Small(m - 1) : Cardinality(r) \in Nat /\ Cardinality(r) <= m - 1
        BY <1>1
      <4>3. \A r \in Small(m - 1) : r \in Small(m)
        BY <2>a, <4>2
      <4> HIDE DEF Small
      <4> QED BY <4>1, <4>3
    <3> HIDE DEF Small
    <3> QED BY <3>1, <2>4 DEF Upto
  <2>8. Upto(h, m)
    <3> HIDE DEF Small
    <3> QED BY <2>6, <2>7 DEF Upto
  <2> QED BY <2>c, <2>8
<1>5. Cardinality(S) \in Nat /\ Small(Cardinality(S)) = SUBSET S
  <2>1. \A s \in SUBSET S : Cardinality(s) <= Cardinality(S)
    BY FS_Subset
  <2> QED BY <2>1, <1>1
<1>6. PICK g : Upto(g, Cardinality(S))
  BY <1>4, <1>5
<1>7. g \in [SUBSET S -> V] /\ Folds(g, G, b, c, S)
  <2> HIDE DEF Small
  <2> QED BY <1>5, <1>6 DEF Folds
<1> QED BY <1>7

-----------------------------------------------------------------------------
(* Induction up to a number. *)

(* What holds of 0, and of a number once it holds of the one before, holds   *)
(* up to any number.                                                         *)
LEMMA UpTo ==
  ASSUME NEW n \in Nat, NEW good \in SUBSET (0..n), 0 \in good,
         \A k \in 1..n : k - 1 \in good => k \in good
  PROVE  good = 0..n
<1> DEFINE bad == (0..n) \ good
<1> SUFFICES ASSUME bad # {} PROVE FALSE
  OBVIOUS
<1>1. bad \in SUBSET Nat /\ bad # {}
  OBVIOUS
<1>2. PICK m \in bad : \A k \in bad : m <= k
  <2> HIDE DEF bad
  <2> QED BY <1>1, Least
<1>3. m \in 1..n /\ m - 1 \in 0..n /\ ~(m <= m - 1)
  OBVIOUS
<1>4. m - 1 \in good
  BY <1>2, <1>3
<1> QED BY <1>3, <1>4

-----------------------------------------------------------------------------
(* Sums, as MapThenSumSet adds. *)

First(s) == CHOOSE x \in s : TRUE

Adds(g, f, S) == g = [s \in SUBSET S |-> IF s = {} THEN 0 ELSE f[First(s)] + g[s \ {First(s)}]]

Sums(f, S) == CHOOSE g : Adds(g, f, S)

Sum(f, S) == Sums(f, S)[S]

(* The sums of the subsets, from the one of the empty set.                   *)
AreSums(h, f, S) ==
    /\ h \in [SUBSET S -> Nat]
    /\ h[{}] = 0
    /\ \A s \in SUBSET S : s # {} => First(s) \in s /\ h[s] = f[First(s)] + h[s \ {First(s)}]

(* There are such sums. *)
LEMMA SumsExist ==
  ASSUME NEW S, IsFiniteSet(S), NEW f \in [S -> Nat]
  PROVE  \E g : Adds(g, f, S)
<1> DEFINE G == [p \in S \X Nat |-> f[p[1]] + p[2]]
           c == [s \in SUBSET S |-> First(s)]
<1>1. \A s \in SUBSET S : s # {} => First(s) \in s /\ c[s] = First(s)
  BY DEF First
<1>2. G \in [S \X Nat -> Nat]
  OBVIOUS
<1>3. \E g \in [SUBSET S -> Nat] : Folds(g, G, 0, c, S)
  <2>1. \A s \in SUBSET S : s # {} => c[s] \in s
    BY <1>1
  <2>2. 0 \in Nat
    OBVIOUS
  <2>3. FoldsIn(G, 0, c, S, Nat)
    BY <1>2, <2>1, <2>2 DEF FoldsIn
  <2> HIDE DEF G, c
  <2> QED BY <2>3, FoldExists, Zenon
<1>4. PICK g \in [SUBSET S -> Nat] : Folds(g, G, 0, c, S)
  BY <1>3
<1>5. ASSUME NEW s \in SUBSET S, s # {}
      PROVE  G[c[s], g[s \ {c[s]}]] = f[First(s)] + g[s \ {First(s)}]
  BY <1>1, <1>5
<1>6. Adds(g, f, S)
  <2> HIDE DEF G, c
  <2> QED BY <1>4, <1>5 DEF Adds, Folds
<1> QED BY <1>6

(* The sums of the subsets are naturals, and are what their definition says. *)
LEMMA SumsAdd ==
  ASSUME NEW S, IsFiniteSet(S), NEW f \in [S -> Nat]
  PROVE  AreSums(Sums(f, S), f, S)
<1>1. Adds(Sums(f, S), f, S)
  BY SumsExist DEF Sums
<1>2. ASSUME NEW h, Adds(h, f, S) PROVE AreSums(h, f, S)
  <2>1. \A s \in SUBSET S : s # {} => First(s) \in s
    BY DEF First
  <2>2. /\ h[{}] = 0
        /\ \A s \in SUBSET S : s # {} => h[s] = f[First(s)] + h[s \ {First(s)}]
    BY <1>2 DEF Adds
  <2> DEFINE good == {s \in SUBSET S : h[s] \in Nat}
  <2>3. ASSUME NEW s \in SUBSET S, s # {} PROVE \E x \in s : s \ {x} \in good => s \in good
    <3>1. First(s) \in s /\ s \ {First(s)} \in SUBSET S /\ f[First(s)] \in Nat
      BY <2>1, <2>3
    <3>2. s \ {First(s)} \in good => s \in good
      <4>1. h[s] = f[First(s)] + h[s \ {First(s)}]
        BY <2>2, <2>3
      <4>2. h[s \ {First(s)}] \in Nat => h[s] \in Nat
        BY <3>1, <4>1
      <4> QED BY <4>2
    <3> QED BY <3>1, <3>2
  <2>4. {} \in good /\ good \in SUBSET SUBSET S
    BY <2>2
  <2>5. good = SUBSET S
    <3> HIDE DEF good
    <3> QED BY <2>3, <2>4, ByRemoval
  <2>6. h \in [SUBSET S -> Nat]
    BY <1>2, <2>5 DEF Adds
  <2> QED BY <2>1, <2>2, <2>6 DEF AreSums
<1> QED BY <1>1, <1>2

(* A sum is a natural. *)
LEMMA SumType ==
  ASSUME NEW S, IsFiniteSet(S), NEW f \in [S -> Nat]
  PROVE  Sum(f, S) \in Nat
<1>1. AreSums(Sums(f, S), f, S)
  BY SumsAdd
<1> QED BY <1>1 DEF AreSums, Sum

(* Larger values have larger sums. *)
LEMMA SumsGrow ==
  ASSUME NEW S, IsFiniteSet(S), NEW f \in [S -> Nat], NEW g \in [S -> Nat],
         \A x \in S : f[x] <= g[x],
         NEW F, AreSums(F, f, S), NEW H, AreSums(H, g, S)
  PROVE  F[S] <= H[S]
<1> DEFINE good == {s \in SUBSET S : F[s] <= H[s]}
<1>1. ASSUME NEW s \in SUBSET S, s # {} PROVE \E x \in s : s \ {x} \in good => s \in good
  <2>1. First(s) \in s /\ s \ {First(s)} \in SUBSET S
    BY <1>1 DEF AreSums
  <2>2. /\ F[s] = f[First(s)] + F[s \ {First(s)}] /\ F[s \ {First(s)}] \in Nat
        /\ H[s] = g[First(s)] + H[s \ {First(s)}] /\ H[s \ {First(s)}] \in Nat
        /\ f[First(s)] <= g[First(s)] /\ f[First(s)] \in Nat /\ g[First(s)] \in Nat
    BY <1>1, <2>1 DEF AreSums
  <2>3. F[s \ {First(s)}] <= H[s \ {First(s)}] => F[s] <= H[s]
    BY <2>2
  <2> QED BY <2>1, <2>3
<1>2. {} \in good /\ good \in SUBSET SUBSET S
  BY DEF AreSums
<1>3. good = SUBSET S
  <2> HIDE DEF good
  <2> QED BY <1>1, <1>2, ByRemoval
<1> QED BY <1>3

(* Larger values have a larger sum. *)
LEMMA SumMonotone ==
  ASSUME NEW S, IsFiniteSet(S), NEW f \in [S -> Nat], NEW g \in [S -> Nat],
         \A x \in S : f[x] <= g[x]
  PROVE  Sum(f, S) <= Sum(g, S)
<1>1. AreSums(Sums(f, S), f, S) /\ AreSums(Sums(g, S), g, S)
  BY SumsAdd
<1> QED BY <1>1, SumsGrow DEF Sum

(* One more in one place is one more in the sums of the sets it is in. *)
LEMMA SumsOneMore ==
  ASSUME NEW S, IsFiniteSet(S), NEW f \in [S -> Nat], NEW g \in [S -> Nat], NEW t \in S,
         g[t] = f[t] + 1, \A x \in S \ {t} : g[x] = f[x],
         NEW F, AreSums(F, f, S), NEW H, AreSums(H, g, S)
  PROVE  H[S] = F[S] + 1
<1> DEFINE extra(s) == IF t \in s THEN 1 ELSE 0
           good == {s \in SUBSET S : H[s] = F[s] + extra(s)}
<1>1. ASSUME NEW s \in SUBSET S, s # {} PROVE \E x \in s : s \ {x} \in good => s \in good
  <2> DEFINE x == First(s)
             r == s \ {First(s)}
  <2>1. x \in s /\ r \in SUBSET S
    BY <1>1 DEF AreSums
  <2>2. /\ F[s] = f[x] + F[r] /\ F[r] \in Nat
        /\ H[s] = g[x] + H[r] /\ H[r] \in Nat
        /\ f[x] \in Nat /\ g[x] \in Nat
    BY <1>1, <2>1 DEF AreSums
  <2>3. x = t => g[x] = f[x] + 1 /\ extra(r) = 0 /\ extra(s) = 1
    BY <2>1
  <2>4. x # t => g[x] = f[x] /\ extra(r) = extra(s)
    BY <2>1
  <2>5. H[r] = F[r] + extra(r) => H[s] = F[s] + extra(s)
    <3>1. extra(r) \in Nat /\ extra(s) \in Nat
      OBVIOUS
    <3> HIDE DEF extra, x, r
    <3> QED BY <2>2, <2>3, <2>4, <3>1
  <2> QED BY <2>1, <2>5
<1>2. {} \in good /\ good \in SUBSET SUBSET S
  BY DEF AreSums
<1>3. good = SUBSET S
  <2> HIDE DEF good
  <2> QED BY <1>1, <1>2, ByRemoval
<1>4. H[S] = F[S] + extra(S)
  BY <1>3
<1> QED BY <1>4

(* One more in one place is one more in the sum. *)
LEMMA SumOneMore ==
  ASSUME NEW S, IsFiniteSet(S), NEW f \in [S -> Nat], NEW g \in [S -> Nat], NEW t \in S,
         g[t] = f[t] + 1, \A x \in S \ {t} : g[x] = f[x]
  PROVE  Sum(g, S) = Sum(f, S) + 1
<1>1. AreSums(Sums(f, S), f, S) /\ AreSums(Sums(g, S), g, S)
  BY SumsAdd
<1> QED BY <1>1, SumsOneMore DEF Sum

(* Zeros add up to zero. *)
LEMMA SumZero ==
  ASSUME NEW S, IsFiniteSet(S), NEW f \in [S -> Nat], \A x \in S : f[x] = 0
  PROVE  Sum(f, S) = 0
<1>1. ASSUME NEW F, AreSums(F, f, S) PROVE F[S] = 0
  <2> DEFINE good == {s \in SUBSET S : F[s] = 0}
  <2>1. ASSUME NEW s \in SUBSET S, s # {} PROVE \E x \in s : s \ {x} \in good => s \in good
    BY <1>1, <2>1 DEF AreSums
  <2>2. {} \in good /\ good \in SUBSET SUBSET S
    BY <1>1 DEF AreSums
  <2>3. good = SUBSET S
    <3> HIDE DEF good
    <3> QED BY <2>1, <2>2, ByRemoval
  <2> QED BY <2>3
<1>2. AreSums(Sums(f, S), f, S)
  BY SumsAdd
<1> QED BY <1>1, <1>2 DEF Sum
=============================================================================
