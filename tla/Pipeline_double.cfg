SPECIFICATION Spec
CONSTANTS
    Keys = {k1, k2}
    KindOf <- BothPortals
    flat = flat
    lot = lot
    Homes = {flat}
    Prices = {5, 12}
    NoPrice = NoPrice
    Step = 10
    Absent = Absent
    Workers = {w1, w2}
    Ids = {1, 2, 3, 4, 5}
    Area <- OneMetre
    GroupOf <- OneGroup
    Fallback <- CityFallback
    MaxTakes = 3
    MaxJobs = 3
INVARIANTS TypeOK UpToDate NobodyStuck
PROPERTY StaysAnalysed
CHECK_DEADLOCK FALSE
