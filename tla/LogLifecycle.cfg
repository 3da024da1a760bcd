SPECIFICATION Spec
CONSTANTS
    Processes = {p1, p2, p3}
    p1 = p1
    p2 = p2
    p3 = p3
INVARIANTS AloneIsReachable StaleNeedsCrash
