SPECIFICATION Spec
CONSTANTS
    p1 = p1
    t1 = t1
    t2 = t2
    NoSoul = NoSoul
    Nobody = Nobody
    Proposals = {p1}
    Turns = {t1, t2}
    MaxPending = 2
INVARIANTS RefusedStays
CHECK_DEADLOCK FALSE
