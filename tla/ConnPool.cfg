CONSTANTS
    Call = {c1, c2, c3}
    Conn = {k1, k2}
    None = None
SPECIFICATION FairSpec
INVARIANTS
    NoLeak
    NoHoldAndWait
    Inv
PROPERTY EveryCallEnds
