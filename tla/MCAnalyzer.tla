----------------------------- MODULE MCAnalyzer -----------------------------
(* Instances of Analyzer for TLC. *)
EXTENDS Analyzer

(* A flat, an auctioned house, a repossessed walk-up, a flat on the market   *)
(* and a lot without a private area.                                         *)
Examples == {
    [area |-> 72, condo |-> 600, risky |-> FALSE, type |-> "apartamento",
     category |-> "common", drawback |-> "none"],
    [area |-> 90, condo |-> 100, risky |-> TRUE, type |-> "casa",
     category |-> "auction", drawback |-> "no_parking"],
    [area |-> 40, condo |-> 350, risky |-> FALSE, type |-> "apartamento",
     category |-> "bank_owned", drawback |-> "walk_up"],
    [area |-> 0, condo |-> 0, risky |-> FALSE, type |-> "terreno",
     category |-> "auction", drawback |-> "none"]}

(* InvestorProfile as it is when nobody has changed it. *)
Default == [max_capital |-> 300000, entry_pct |-> 25, interest |-> 11]
=============================================================================
