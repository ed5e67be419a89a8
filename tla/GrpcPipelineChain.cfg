CONSTANTS
    Call = {c1}
    u1 = u1
    u2 = u2
    i1 = i1
    Id <- MCId
    User <- MCUser
    Request <- MCRequest
    Err <- MCErr
    MaxArrays = 0
    None = None
SPECIFICATION Spec
INVARIANT ChainIsLogged
CHECK_DEADLOCK FALSE
