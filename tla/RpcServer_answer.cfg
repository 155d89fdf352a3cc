SPECIFICATION SpecRpc
CONSTANTS
    p1 = p1
    p2 = p2
    v1 = v1
    v2 = v2
    Users = {u1}
    Procs = {p1}
    FillSlots = {s1}
    TimerSlots = {t1}
    Tokens = {k1}
    Fields = {"nickname", "profile_picture"}
    Values = {v1, v2}
    FillBound = 1
    DeleteDelay = 2
    UserCacheTTL = 2
    NullCacheTTL = 1
    Faults <- NoFaults
    NullUser = NullUser
    Ended = Ended
    None = None
INVARIANT AnswerShowsUpdate
