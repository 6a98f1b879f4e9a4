------------------------------ MODULE Analyzer ------------------------------
(***************************************************************************)
(* The analysis of one property: analyze_property with its score and       *)
(* decision, stored in twelve combinations, and what GET /deals shows of   *)
(* it, the preliminary analysis included.                                  *)
(*                                                                         *)
(* Amounts are whole reais where the code keeps cents, rounded half to     *)
(* even as Decimal.quantize does; percentages are in hundredths.           *)
(***************************************************************************)
EXTENDS Integers, FiniteSets, FiniteSetsExt

CONSTANTS
    Homes,        \* what is known of a property besides its price
    Prices,       \* purchase prices
    Rates,        \* prices per square metre
    Liquidities,  \* liquidity scores, in tenths
    Profile,      \* the investor: max_capital, entry_pct, interest
    Absent

(* A home has its private area (0 when unknown), its costs a month, at most  *)
(* one drawback for its resale, and may be known to be a risk: occupied, or  *)
(* auctioned without an edital.                                              *)
ASSUME HomesAssumption ==
    Homes \subseteq [area : Nat, condo : Nat, risky : BOOLEAN,
                     type : {"apartamento", "casa", "terreno"},
                     category : {"common", "bank_owned", "auction"},
                     drawback : {"none", "no_parking", "walk_up"}]
ASSUME AmountsAssumption ==
    /\ Prices \cup Rates \subseteq Nat \ {0}
    /\ Liquidities \subseteq Nat
    /\ Profile \in [max_capital : Nat \ {0}, entry_pct : 0 .. 100, interest : Nat]

(* The median and the 65th percentile of the same sample. *)
Markets == {m \in [p50 : Rates, p65 : Rates, liquidity : Liquidities] : m.p50 <= m.p65}

VARIABLES
    home,     \* the property
    price,    \* the price of its cheapest listing
    market,   \* the statistics its analysis uses
    rate,     \* the 65th percentile GET /deals computes itself, 0 when it has none
    deals     \* the price and market of the stored analyses, or Absent

vars == <<home, price, market, rate, deals>>

Levels == {"light", "medium"}
Scenarios == {"conservative", "base", "optimistic"}
Modes == {"cash", "financed"}
Combinations == [level : Levels, scenario : Scenarios, mode : Modes]

(***************************************************************************)
(* Arithmetic.                                                             *)
(***************************************************************************)

(* The quotient q with remainder r by d, rounded half to even. *)
HalfEven(q, r, d) == IF 2 * r < d \/ (2 * r = d /\ q % 2 = 0) THEN q ELSE q + 1

(* amount * n / d, rounded once. *)
Part(amount, n, d) ==
    LET rest == (amount % d) * n
    IN  HalfEven((amount \div d) * n + rest \div d, rest % d, d)

(* _pct: 100 * value / base in hundredths, by long division. *)
Pct(value, base) ==
    IF base = 0 THEN 0
    ELSE LET whole == (value * 100) \div base
             rest == 100 * ((value * 100) % base)
         IN  HalfEven(100 * whole + rest \div base, rest % base, base)

(***************************************************************************)
(* analyze_property.                                                       *)
(***************************************************************************)

(* Mutant: the months of two scenarios are exchanged. *)
MonthsExchanged(scenario) == CASE scenario = "conservative" -> 12
                               [] scenario = "base" -> 6
                               [] scenario = "optimistic" -> 10

(* Mutant: the conservative scenario takes longer than a year. *)
MonthsLonger(scenario) == CASE scenario = "conservative" -> 14
                            [] scenario = "base" -> 10
                            [] scenario = "optimistic" -> 6

Months(scenario) == CASE scenario = "conservative" -> 12
                      [] scenario = "base" -> 10
                      [] scenario = "optimistic" -> 6

(* Resale value: the rate of the scenario, times 1.10 or 1.05 after the      *)
(* works, less for a drawback and in the conservative scenario.              *)
Resale(h, m, c) ==
    LET sqm == IF c.scenario = "optimistic" THEN m.p65 ELSE m.p50
        works == IF c.level = "medium" THEN 22 ELSE 21
        kept == CASE h.drawback = "none" -> 100
                  [] h.drawback = "no_parking" -> 93
                  [] h.drawback = "walk_up" -> 92
        caution == IF c.scenario = "conservative" THEN 19 ELSE 20
    IN  Part(h.area * sqm, works * kept * caution, 20 * 100 * 20)

RenovationCost(h, level) == h.area * (IF level = "light" THEN 600 ELSE 1200)

(* Mutant: the two modes are exchanged. *)
HoldingCostsExchanged(h, p, c) ==
    LET owed == IF c.mode = "financed" THEN 100 ELSE 100 - Profile.entry_pct
        months == Months(c.scenario)
    IN  h.condo * months + Part(p, owed * Profile.interest * months, 120000)

(* What is financed, or the whole price, costs its interest. *)
HoldingCosts(h, p, c) ==
    LET owed == IF c.mode = "cash" THEN 100 ELSE 100 - Profile.entry_pct
        months == Months(c.scenario)
    IN  h.condo * months + Part(p, owed * Profile.interest * months, 120000)

(* The costs of buying, keeping and renovating, and a reserve of 12%. *)
Costs(h, p, c) ==
    LET transaction == Part(p, 45, 1000)
        spent == RenovationCost(h, c.level) + transaction + HoldingCosts(h, p, c)
    IN  spent + Part(spent, 12, 100)

TotalCost(h, p, m, c) ==
    p + Costs(h, p, c) + Part(Resale(h, m, c), 6, 100)

(* What leaves the investor's pocket: the entry and 4%, or the price. *)
Capital(h, p, c) ==
    LET share == IF c.mode = "cash" THEN 100 ELSE Profile.entry_pct + 4
    IN  Part(p, share, 100) + Costs(h, p, c)

(***************************************************************************)
(* compute_score and decide.                                               *)
(***************************************************************************)

(* The points of the highest step that is reached. *)
Step(reached, points) == IF reached THEN points ELSE 0

Points(steps) == Max(steps \cup {0})

(* Mutant: a premium is taken for a discount. *)
PremiumPoints(p, value) ==
    Points({Step(100 * (p - value) >= n * value, n) : n \in {10, 20, 30}})

DiscountPoints(p, value) ==
    Points({Step(100 * (value - p) >= n * value, n) : n \in {10, 20, 30}})

MarginPoints(margin) ==
    Points({Step(margin >= 3500, 25), Step(margin >= 3000, 20),
            Step(margin >= 2500, 12), Step(margin >= 1500, 6)})

(* Mutant: the steps add up. *)
CapitalPointsSummed(capital) ==
    LET reached(n) == 10 * capital <= n * Profile.max_capital
    IN  (IF reached(6) THEN 5 ELSE 0) + (IF reached(8) THEN 4 ELSE 0)
        + (IF reached(10) THEN 2 ELSE 0)

CapitalPoints(capital) ==
    Points({Step(10 * capital <= 6 * Profile.max_capital, 5),
            Step(10 * capital <= 8 * Profile.max_capital, 4),
            Step(capital <= Profile.max_capital, 2)})

RiskPoints(h) == IF h.risky THEN 0 ELSE IF h.category = "auction" THEN 5 ELSE 10

(* In hundredths; every input being positive, the data earn their 5 points. *)
Score(h, p, m, c, margin) ==
    LET liquidity == 15 * m.liquidity
        works == IF c.level = "light" THEN 10 ELSE 6
    IN  Min({1500, liquidity})
        + 100 * (DiscountPoints(p, h.area * m.p50) + MarginPoints(margin)
                 + RiskPoints(h) + works + 5 + CapitalPoints(Capital(h, p, c)))

Decide(score, margin) ==
    IF score < 5000 \/ margin < 3000 THEN "discard"
    ELSE IF score <= 6500 THEN "monitor"
    ELSE IF score <= 8000 THEN "analyze"
    ELSE IF score <= 9000 THEN "priority"
    ELSE "immediate"

(* _annualize: below -100% only a whole number of periods has a real power;  *)
(* ten months are 1.2 periods.                                               *)
Raises(roi, c) == roi < -10000 /\ 12 % Months(c.scenario) # 0

(* Columns of deal_analyses are too narrow for 1000% of margin or return, or *)
(* 10000% of it a year: (1 + 904.99%)^2 in the six months of the optimistic  *)
(* scenario.  The conservative one is its return, the base one overflows     *)
(* with its return first.                                                    *)
Overflows(margin, roi, c) ==
    \/ margin <= -100000
    \/ roi >= 100000 \/ roi <= -100000
    \/ c.scenario = "optimistic" /\ roi >= 90499

Computed(h, p, m, c) ==
    LET resale == Resale(h, m, c)
        profit == resale - TotalCost(h, p, m, c)
        capital == Capital(h, p, c)
        margin == Pct(profit, resale)
        roi == Pct(profit, capital)
        score == Score(h, p, m, c, margin)
    IN  [profit |-> profit, capital |-> capital, margin |-> margin, roi |-> roi,
         score |-> score, decision |-> Decide(score, margin)]

(* All of them, computed once. *)
Table ==
    [h \in Homes |-> [p \in Prices |-> [m \in Markets |-> [c \in Combinations |-> Computed(h, p, m, c)]]]]

Analysis(p, m, c) == Table[home][p][m][c]

(* The exception or the overflow of one combination loses all of them. *)
Fails(p, m) ==
    \E c \in Combinations :
        LET a == Analysis(p, m, c) IN Raises(a.roi, c) \/ Overflows(a.margin, a.roi, c)

(***************************************************************************)
(* GET /deals, at its default filters: a score of 50, the capital of the   *)
(* profile.                                                                *)
(***************************************************************************)

Canonical == [level |-> "medium", scenario |-> "base", mode |-> "financed"]

(* The stored analysis is shown unless it is filtered out. *)
Kept(p, m) ==
    LET a == Analysis(p, m, Canonical)
    IN  a.score >= 5000 /\ a.decision # "discard" /\ a.capital <= Profile.max_capital

(* _estimated_values: from the rate, or from the price without one. *)
FirstResale(p, sqm) ==
    LET uplift == CASE home.type = "apartamento" -> 108 [] home.type = "casa" -> 106
                    [] home.type = "terreno" -> 100
        fallback == CASE home.category = "auction" -> 118
                      [] home.category = "bank_owned" -> 116
                      [] home.category = "common" -> 110
    IN  IF sqm > 0 /\ home.area > 0 THEN Part(home.area * sqm, uplift, 100)
        ELSE Part(p, fallback, 100)

FirstWorks == IF home.type = "terreno" THEN 0 ELSE home.area * 850

(* A year of the return is 80, 50, 30 or 15% from 63.20, 40.20, 24.44 or     *)
(* 12.35% on, in ten months.  A losing deal scores 45 at most, here 0.       *)
(* Bedrooms and neighbourhood are taken to be known: 4 points.               *)
FirstScore(profit, margin, roi, capital) ==
    IF profit <= 0 \/ margin <= 0 \/ roi <= 0 THEN 0
    ELSE Points({Step(TRUE, 8), Step(roi >= 1235, 16), Step(roi >= 2444, 24),
                 Step(roi >= 4020, 30), Step(roi >= 6320, 35)})
         + Points({Step(TRUE, 4), Step(margin >= 1000, 10), Step(margin >= 2000, 18),
                   Step(margin >= 3000, 25)})
         + Points({Step(TRUE, 3), Step(profit >= 15000, 7), Step(profit >= 40000, 13),
                   Step(profit >= 80000, 20)})
         + Points({Step(capital <= 150000, 10), Step(capital <= 300000, 6)})
         + Points({Step(home.area > 0, 4)}) + 4

(* The preliminary analysis of _preliminary_item. *)
FirstLook(p, sqm) ==
    LET resale == FirstResale(p, sqm)
        transaction == Part(p, 45, 1000)
        reserve == Part(FirstWorks + transaction, 12, 100)
        capital == Part(p, 29, 100) + transaction + FirstWorks + reserve
        profit == resale - (p + transaction + FirstWorks + Part(resale, 6, 100) + reserve)
    IN  [capital |-> capital,
         score |-> FirstScore(profit, Pct(profit, resale), Pct(profit, capital), capital)]

FirstKept(p, sqm) ==
    LET f == FirstLook(p, sqm) IN f.score >= 50 /\ f.capital <= Profile.max_capital

(* Mutant: the preliminary analysis is for properties never analysed. *)
ListedOnce(others) ==
    CASE deals # Absent /\ Kept(deals.price, deals.market) -> "analysis"
      [] deals # Absent /\ ~Kept(deals.price, deals.market) -> "demo"
      [] deals = Absent -> IF FirstKept(price, rate) THEN "preliminary" ELSE "demo"

(* What the dashboard shows of the property, the stored analyses of others   *)
(* passing the filters or not.  When none passes, preliminary analyses take  *)
(* their place, of the property too; when none of these does, the demo.      *)
Listed(others) ==
    IF deals # Absent /\ Kept(deals.price, deals.market) THEN "analysis"
    ELSE IF others THEN "nothing"
    ELSE IF FirstKept(price, rate) THEN "preliminary"
    ELSE "demo"

(***************************************************************************)
(* The property over time.                                                 *)
(***************************************************************************)

Init ==
    /\ home \in Homes
    /\ price \in Prices
    /\ market \in Markets
    /\ rate \in Rates \cup {0}
    /\ deals = Absent

(* A scrape stores another price: any, although out of the band of the old   *)
(* one it would be the price of another property (Ingestion).                *)
Reprice == price' \in Prices /\ UNCHANGED <<home, market, rate, deals>>

(* Other listings move the statistics. *)
Restat ==
    /\ market' \in Markets
    /\ rate' \in Rates \cup {0}
    /\ UNCHANGED <<home, price, deals>>

(* analyze_and_persist_all reaches the property: it replaces all twelve      *)
(* analyses, or none.  Without an area it is skipped.                        *)
Analyse ==
    /\ home.area > 0
    /\ deals' = IF Fails(price, market) THEN deals ELSE [price |-> price, market |-> market]
    /\ UNCHANGED <<home, price, market, rate>>

Next == Reprice \/ Restat \/ Analyse

Spec == Init /\ [][Next]_vars

-----------------------------------------------------------------------------
(***************************************************************************)
(* Properties.                                                             *)
(***************************************************************************)

Rank(decision) == CASE decision = "discard" -> 0 [] decision = "monitor" -> 1
                    [] decision = "analyze" -> 2 [] decision = "priority" -> 3
                    [] decision = "immediate" -> 4

(* The twelve rows as they are stored. *)
Stored(c) == Analysis(deals.price, deals.market, c)

(* A percentage of three digits and two decimals. *)
Fits(percent) == percent \in Int /\ -100000 < percent /\ percent < 100000

(* What is stored fits: scores go from 0 to 100, percentages into their      *)
(* columns.                                                                  *)
TypeOK ==
    /\ home \in Homes /\ price \in Prices /\ market \in Markets
    /\ rate \in Rates \cup {0}
    /\ deals # Absent => \A c \in Combinations :
        LET a == Stored(c)
        IN  a.score \in Nat /\ a.score <= 10000 /\ Fits(a.margin) /\ Fits(a.roi)

(* When a property analysed again has become cheaper on the same market, no  *)
(* combination scores lower or gets a worse decision: the steps of discount, *)
(* margin and capital all go the same way (scoring.py).                      *)
CheaperIsBetter ==
    [][deals # Absent /\ deals'.market = deals.market /\ deals'.price < deals.price =>
        \A c \in Combinations :
            LET old == Analysis(deals.price, deals.market, c)
                new == Analysis(deals'.price, deals'.market, c)
            IN  new.score >= old.score /\ Rank(new.decision) >= Rank(old.decision)]_vars

(* The scenarios deserve their names: the conservative one never promises    *)
(* more than the base one, nor that one more than the optimistic, through    *)
(* rates, months of interest and rounding.                                   *)
ScenariosOrdered ==
    deals # Absent => \A l \in Levels, m \in Modes :
        LET profit(s) == Stored([level |-> l, scenario |-> s, mode |-> m]).profit
        IN  profit("conservative") <= profit("base") /\ profit("base") <= profit("optimistic")

(* Financing never looks worse than paying cash: both pay the interest, on   *)
(* less in the first case, and it needs less capital.                        *)
FinancingNoWorse ==
    deals # Absent => \A l \in Levels, s \in Scenarios :
        LET of(m) == Stored([level |-> l, scenario |-> s, mode |-> m])
        IN  of("financed").score >= of("cash").score /\ of("financed").capital <= of("cash").capital

(* An analysis raises in a financed base combination only, in the light one  *)
(* when in any, and when the price is beyond what 94% of the resale value    *)
(* repays: what DealPipeline takes for the condition.                        *)
RaisesWhenDear ==
    home.area > 0 => \A c \in Combinations :
        Raises(Analysis(price, market, c).roi, c) =>
            /\ c.scenario = "base" /\ c.mode = "financed"
            /\ Raises(Analysis(price, market, [c EXCEPT !.level = "light"]).roi,
                      [c EXCEPT !.level = "light"])
            /\ 94 * Resale(home, market, c) < (100 - Profile.entry_pct - 4) * price + 100

(* "the dashboard never hides live scraper results behind demo data": what an *)
(* analysis would keep is shown before it runs and when the stored one is    *)
(* out of date, the preliminary look having the same statistics (line 211).  *)
NotHiddenByDemo ==
    home.area > 0 /\ rate = market.p65 /\ Kept(price, market) =>
        \A others \in BOOLEAN : Listed(others) # "demo"
=============================================================================
