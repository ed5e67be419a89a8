CONSTANTS
    u1 = u1
    u2 = u2
    x = x
    User <- MCUser
    Unknown = {x}
    None = None
    Null = Null
    Operation <- MCOperation
SPECIFICATION FairSpec
INVARIANTS
    DataFollowsSchema
    NullsAreExplained
    SlotsKeepTheirPlace
    MeIsTheSubject
    RefusalsChangeNothing
    EffectsInOrder
PROPERTIES
    PasswordsOutliveParameters
    EveryRequestIsAnswered
CHECK_DEADLOCK FALSE
