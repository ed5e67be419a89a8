CONSTANTS
    Http = {h1}
    Grpc = {g1}
    Timeout = 2
    MaxTime = 5
SPECIFICATION Spec
SYMMETRY Symmetry
INVARIANT StopBounded
CHECK_DEADLOCK FALSE
