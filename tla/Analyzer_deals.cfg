SPECIFICATION Spec
CONSTANTS
    Homes <- Examples
    Prices = {1, 90000, 180000, 285000, 900000}
    Rates = {4000, 7600, 8300}
    Liquidities = {50, 80}
    Profile <- Default
    Absent = Absent
INVARIANTS TypeOK ScenariosOrdered FinancingNoWorse RaisesWhenDear NotHiddenByDemo
PROPERTY CheaperIsBetter
