CONSTANTS
    Call = {c1, c2, c3}
    User = {u1}
    None = None
    TTL = 1
    MaxTime = 2
    Fault = {"sign", "database", "process"}
    ForeignKey = {TRUE, FALSE}
SPECIFICATION FairSpec
INVARIANTS
    RotationIsAtomic
    ReplayIsReported
    ChainHasNoGap
    Inv
PROPERTIES
    ImplementsSessions
    EveryCallEnds
CHECK_DEADLOCK FALSE
