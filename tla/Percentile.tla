----------------------------- MODULE Percentile -----------------------------
(***************************************************************************)
(* The percentile of market_stats.py: linear interpolation between the two *)
(* order statistics around position p/100 * (n - 1) of the sorted sample.  *)
(* A sample is a function from its members to integers, so equal values    *)
(* count as often as they occur.                                           *)
(***************************************************************************)
EXTENDS Integers, FiniteSets

AtMost(sample, v) == {x \in DOMAIN sample : sample[x] <= v}

(* sorted_data[i]: the least value with more than i members at or below it. *)
Nth(sample, i) ==
    CHOOSE v \in {sample[x] : x \in DOMAIN sample} :
        /\ Cardinality(AtMost(sample, v)) > i
        /\ Cardinality(AtMost(sample, v - 1)) <= i

Size(sample) == Cardinality(DOMAIN sample)

(* lo + (idx - lo) * (hi - lo), the fraction being a hundredth of a remainder. *)
PercentileOf(sample, p) ==
    LET at == p * (Size(sample) - 1)
        lo == at \div 100
        hi == IF lo + 1 < Size(sample) THEN lo + 1 ELSE Size(sample) - 1
    IN  Nth(sample, lo)
            + ((at % 100) * (Nth(sample, hi) - Nth(sample, lo))) \div 100
=============================================================================
