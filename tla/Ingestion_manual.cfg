SPECIFICATION Spec
CONSTANTS
    sA = sA
    sB = sB
    m1 = m1
    api = api
    cron = cron
    k1 = k1
    k2 = k2
    Scrapers = {sA}
    Manuals = {m1}
    Loops = {api}
    LoopOf <- OneLoop
    Keys = {k1, k2}
    KindOf <- BankAndPortal
    Homes = {h1}
    Prices = {8, 12}
    NoPrice = NoPrice
    Step = 10
    Absent = Absent
    MaxHistory = 2
INVARIANT ManualAnswered
CHECK_DEADLOCK FALSE
