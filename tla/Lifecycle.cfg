CONSTANTS
    Http = {h1, h2}
    Grpc = {g1, g2}
    Timeout = 2
    MaxTime = 5
SPECIFICATION FairSpec
INVARIANTS
    ReleasedInOrder
    Inv
PROPERTIES
    DrainedUntilDeadline
    MetricsHaveTime
    StopEnds
CHECK_DEADLOCK FALSE
