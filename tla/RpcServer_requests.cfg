SPECIFICATION SpecRpc
CONSTANTS
    p1 = p1
    p2 = p2
    v1 = v1
    v2 = v2
    Users = {u1}
    Procs = {p1, p2}
    FillSlots = {s1}
    TimerSlots = {t1}
    Tokens = {k1}
    Fields = {"nickname"}
    Values = {v1, v2}
    FillBound = 1
    DeleteDelay = 1
    UserCacheTTL = 1
    NullCacheTTL = 1
    Faults <- FaultKinds
    NullUser = NullUser
    Ended = Ended
    None = None
SYMMETRY Symmetry
INVARIANTS TypeOKRpc RejectionsChangeNothing SuccessIsApplied AccessFollowsSession
PROPERTY UsesRepository
