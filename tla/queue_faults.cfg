SPECIFICATION Spec
CONSTANTS
    j1 = j1
    j2 = j2
    w1 = w1
    w2 = w2
    s1 = s1
    s2 = s2
    NoJob = NoJob
    Jobs = {j1, j2}
    Malformed = {}
    Workers = {w1, w2}
    Slots = {s1, s2}
    MaxDeliveries = 2
    MaxFaults <- OneOfEach
SYMMETRY JobSymmetry
INVARIANTS OneHolder StartedOnce OutcomeIsLast AckedIsSettled
CHECK_DEADLOCK FALSE
