CONSTANTS
    Call = {c1, c2}
    User = {u1}
    None = None
    TTL = 1
    MaxTime = 1
    Fault = {}
    ForeignKey = {TRUE}
SPECIFICATION Spec
SYMMETRY Symmetry
INVARIANT HealthyRefreshSucceeds
CHECK_DEADLOCK FALSE
