SPECIFICATION Spec
CONSTANTS
    sA = sA
    sB = sB
    m1 = m1
    api = api
    cron = cron
    k1 = k1
    k2 = k2
    Scrapers = {sA, sB}
    Manuals = {m1}
    Loops = {api, cron}
    LoopOf <- TwoLoops
    Keys = {k1}
    KindOf <- BankKey
    Homes = {h1}
    Prices = {8, 12}
    NoPrice = NoPrice
    Step = 10
    Absent = Absent
    MaxHistory = 2
INVARIANTS TypeOK HistoryTracksPrice DetailsWithListing
PROPERTIES TablesOnlyGrow NewIsNew
CHECK_DEADLOCK FALSE
