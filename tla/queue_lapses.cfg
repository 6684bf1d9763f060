SPECIFICATION Spec
CONSTANTS
    j1 = j1
    w1 = w1
    w2 = w2
    s1 = s1
    s2 = s2
    NoJob = NoJob
    Jobs = {j1}
    Malformed = {}
    Workers = {w1, w2}
    Slots = {s1, s2}
    MaxDeliveries = 2
    MaxFaults <- Lapses
SYMMETRY Symmetry
INVARIANTS FinishedWasPublished DeadWasTold
CHECK_DEADLOCK FALSE
