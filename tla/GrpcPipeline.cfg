CONSTANTS
    Call = {c1, c2}
    u1 = u1
    u2 = u2
    i1 = i1
    Id <- MCId
    User <- MCUser
    Request <- MCRequest
    Err <- MCErr
    MaxArrays = 3
    None = None
SPECIFICATION Spec
SYMMETRY Symmetry
INVARIANTS
    AnswerIsHonest
    TransportsAgree
    LineIsCorrelated
    LoggersKeepTheirChain
    FaultsRaiseErrors
CHECK_DEADLOCK FALSE
