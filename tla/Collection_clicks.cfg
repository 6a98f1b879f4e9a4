SPECIFICATION Spec
CONSTANTS
    u1 = u1
    u2 = u2
    u3 = u3
    l1 = l1
    l2 = l2
    c1 = c1
    c2 = c2
    Urls = {u1, u2, u3}
    Ids = {l1, l2}
    SourceId <- IdOf
    Clicks = {c1, c2}
    Sources <- All
    StartPages <- UpToTwo
    Seeds <- Known
    MaxShown = 1
    Bounds <- Cases
INVARIANTS TypeOK OncePerUrl CountsAddUp AnalysisExclusive HistoryTrue
PROPERTIES SuccessIsComplete ButtonReturns AcceptedRuns IsLedger
CHECK_DEADLOCK FALSE
