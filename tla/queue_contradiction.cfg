SPECIFICATION Spec
CONSTANTS
    j1 = j1
    w1 = w1
    s1 = s1
    NoJob = NoJob
    Jobs = {j1}
    Malformed = {}
    Workers = {w1}
    Slots = {s1}
    MaxDeliveries = 3
    MaxFaults <- Dying
INVARIANTS TerminalIsLast
CHECK_DEADLOCK FALSE
