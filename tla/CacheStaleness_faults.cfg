SPECIFICATION FairSpecAged
CONSTANTS
    s1 = s1
    v1 = v1
    v2 = v2
    Users = {u1}
    Procs = {p1}
    FillSlots = {s1}
    TimerSlots = {t1}
    Fields = {"nickname", "profile_picture"}
    Values = {v1, v2}
    FillBound = 1
    DeleteDelay = 0
    UserCacheTTL = 2
    NullCacheTTL = 1
    Faults <- FaultKinds
    NullUser = NullUser
    None = None
INVARIANTS TypeOKAged BoundedStaleness
PROPERTIES EventuallyConsistent KeepsPromise
