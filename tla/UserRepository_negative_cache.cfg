SPECIFICATION Spec
CONSTANTS
    p1 = p1
    p2 = p2
    s1 = s1
    s2 = s2
    t1 = t1
    t2 = t2
    v1 = v1
    v2 = v2
    Users = {u1}
    Procs = {p1}
    FillSlots = {s1}
    TimerSlots = {t1}
    Fields = {"nickname", "profile_picture"}
    Values = {v1, v2}
    FillBound = 2
    DeleteDelay = 1
    UserCacheTTL = 3
    NullCacheTTL = 1
    Faults <- NoFaults
    NullUser = NullUser
    None = None
PROPERTY NegativeEntryShieldsTable
