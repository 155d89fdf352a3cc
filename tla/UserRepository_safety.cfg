SPECIFICATION SpecRunning
CONSTANTS
    p1 = p1
    p2 = p2
    s1 = s1
    s2 = s2
    t1 = t1
    t2 = t2
    v1 = v1
    v2 = v2
    Users = {u1}
    Procs = {p1, p2}
    FillSlots = {s1, s2}
    TimerSlots = {t1, t2}
    Fields = {"nickname", "profile_picture"}
    Values = {v1, v2}
    FillBound = 1
    DeleteDelay = 2
    UserCacheTTL = 1
    NullCacheTTL = 1
    Faults <- TolerableFaults
    NullUser = NullUser
    None = None
SYMMETRY Symmetry
INVARIANTS TypeOK StaleOnlyWhileDeletePending WriteBacksCovered CreatedUserVisible
