SPECIFICATION Spec
CONSTANTS
    r1 = r1
    r2 = r2
    r3 = r3
    k1 = k1
    h1 = h1
    Nobody = Nobody
    Requests = {r1, r2, r3}
    Keys = {k1}
    Threads = {h1}
    MaxExpiries = 0
    MaxErrors = 0
INVARIANTS ForgottenWasDelivered
CHECK_DEADLOCK FALSE
