SPECIFICATION KeptSpec
CONSTANTS
    p1 = p1
    p2 = p2
    p3 = p3
    t1 = t1
    t2 = t2
    n0 = n0
    n1 = n1
    m1 = m1
    m2 = m2
    NoSoul = NoSoul
    Nobody = Nobody
    Proposals = {p1, p2, p3}
    Turns = {t1, t2}
    MaxPending = 2
    Names = {n0, n1}
    DefaultName = n0
    Memories = {m1, m2}
    MaxRows = 3
    MaxMemories = 3
    r1 = r1
    g1 = g1
    g2 = g2
    k1 = k1
    Readers = {r1}
    Topics = {g1, g2}
    Tickers = {k1}
    Keep = 2
    DbTries = 2
    MaxRuns = 4
    MaxWrites = 2
    Day = 4
    DumpAt = 1
    Slowness = 3
SYMMETRY Symmetry
INVARIANTS TypesOK OneActive PendingCapped FactsKept NotAskedAgain BackupsKept
PROPERTIES NeverUndone ReadyStays
CHECK_DEADLOCK FALSE
