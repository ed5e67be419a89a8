CONSTANTS
    Token = {t1, t2}
    Second = 2
    TTL = 3
    MaxAge = 2
    MaxTime = 5
    MaxKey = 3
    None = None
SPECIFICATION Spec
SYMMETRY Symmetry
INVARIANT AcceptedUntilExpiry
CHECK_DEADLOCK FALSE
