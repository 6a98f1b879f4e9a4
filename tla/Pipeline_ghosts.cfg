SPECIFICATION Spec
CONSTANTS
    Keys = {k1, k2}
    KindOf <- BothPortals
    flat = flat
    lot = lot
    Homes = {flat}
    Prices = {0, 5, 12}
    NoPrice = NoPrice
    Step = 10
    Absent = Absent
    Workers = {w1}
    Ids = {1, 2, 3, 4}
    Area <- OneMetre
    GroupOf <- OneGroup
    Fallback <- CityFallback
    MaxTakes = 4
    MaxJobs = 3
INVARIANT NoGhosts
CHECK_DEADLOCK FALSE
