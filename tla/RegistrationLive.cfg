CONSTANTS
    Request = {r1, r2, r3}
    ann = ann
    bob = bob
    Mailbox = {ann}
    RawEmail <- MCOneRawEmail
    PasswordLength <- MCPasswordLength
    NoEmail = NoEmail
SPECIFICATION FairSpec
PROPERTY EveryCallEnds
CHECK_DEADLOCK FALSE
