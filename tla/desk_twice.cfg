SPECIFICATION Spec
CONSTANTS
    t1 = t1
    t2 = t2
    k1 = k1
    j1 = j1
    j2 = j2
    NoJob = NoJob
    Threads = {t1, t2}
    Tickers = {k1}
    Jobs = {j1, j2}
    MaxCrashes = 0
    MaxErrors = 0
INVARIANTS OneRunPerTicker
CHECK_DEADLOCK FALSE
