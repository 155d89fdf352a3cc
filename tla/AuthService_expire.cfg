SPECIFICATION FairSpec
CONSTANTS
    p1 = p1
    p2 = p2
    p3 = p3
    k1 = k1
    Names = {n1}
    Registered = {n1}
    Procs = {p1, p2}
    Tokens = {k1}
    MaxLoginFailures = 3
    LoginFailTTL = 2
    MaxRetries = 1
    CountBound = 6
    Faults <- ExpireFault
    None = None
PROPERTY EveryLockoutEnds
