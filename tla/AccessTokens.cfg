CONSTANTS
    Token = {t1, t2}
    Second = 2
    TTL = 3
    MaxAge = 2
    MaxTime = 8
    MaxKey = 3
    None = None
SPECIFICATION Spec
SYMMETRY Symmetry
INVARIANTS
    TypeOK
    NeverOverstays
    OldKeysDie
    RestartKeepsTokens
CHECK_DEADLOCK FALSE
