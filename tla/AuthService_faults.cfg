SPECIFICATION FairSpec
CONSTANTS
    p1 = p1
    p2 = p2
    p3 = p3
    k1 = k1
    Names = {n1}
    Registered = {n1}
    Procs = {p1, p2, p3}
    Tokens = {k1}
    MaxLoginFailures = 2
    LoginFailTTL = 1
    MaxRetries = 1
    CountBound = 5
    Faults <- FaultKinds
    None = None
PROPERTIES LockoutEnds LoginAnswered PasswordDecides LivesRunOut
INVARIANTS TypeOK FailuresBounded CounterWillExpire
