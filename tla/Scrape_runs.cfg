SPECIFICATION FairSpec
CONSTANTS
    t1 = t1
    t2 = t2
    t3 = t3
    api = api
    cron = cron
    Tasks = {t1, t2, t3}
    Processes = {api, cron}
    ProcessOf <- Placed
    Servers = {api}
    LotTasks = {t3}
    MarkingTasks = {t1}
    Keys = {k1, k2}
    PoolSize = 1
    Nobody = Nobody
    MaxFetches <- Pages
    MaxLent = 1
INVARIANTS TypeOK NewAddsUp SuccessStoresAll AllRefreshed
PROPERTIES EveryRunEnds IsLedger
CHECK_DEADLOCK FALSE
