SPECIFICATION QueuedSpec
CONSTANTS
    t1 = t1
    t2 = t2
    k1 = k1
    k2 = k2
    j1 = j1
    j2 = j2
    j3 = j3
    NoJob = NoJob
    Threads = {t1, t2}
    Tickers = {k1, k2}
    Jobs = {j1, j2, j3}
    MaxCrashes = 2
    MaxFaultsTogether = 2
    MaxDrawnTogether = 2
    MaxErrors = 2
    MaxExpiries = 1
    MaxFailures = 1
    MaxRuns = 3
SYMMETRY Symmetry
INVARIANTS TypesOK GoingIsTracked OnceAlone LocalRunsHeld SubmittedOnce
PROPERTIES NothingForgottenUntold
CHECK_DEADLOCK FALSE
