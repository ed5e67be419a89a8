CONSTANTS
    Request = {r1, r2, r3}
    ann = ann
    bob = bob
    Mailbox = {ann, bob}
    RawEmail <- MCRawEmail
    PasswordLength <- MCPasswordLength
    NoEmail = NoEmail
SPECIFICATION Spec
SYMMETRY Symmetry
INVARIANTS
    OneAccountPerMailbox
    OneEventPerUser
    AcceptedIsDurable
    RefusedIsFinal
    ConflictIsHonest
    Inv
PROPERTY ImplementsRegistry
CHECK_DEADLOCK FALSE
