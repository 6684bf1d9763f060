SPECIFICATION FairSpec
CONSTANTS
    j1 = j1
    j2 = j2
    w1 = w1
    w2 = w2
    s1 = s1
    NoJob = NoJob
    Jobs = {j1, j2}
    Malformed = {j2}
    Workers = {w1, w2}
    Slots = {s1}
    MaxDeliveries = 1
    MaxFaults <- OneOfEach
PROPERTIES ImplementsFairJobLife
CHECK_DEADLOCK FALSE
