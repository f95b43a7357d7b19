\* Two requests for either of two accounts, one vault transfer; two
\* extrinsics, so that one follows another, and two interruptions.
CONSTANTS
    r1 = r1
    r2 = r2
    t1 = t1
    a1 = a1
    a2 = a2
    User = User
    Requests = { r1, r2 }
    Transfers = { t1 }
    Accounts = { a1, a2 }
    MaxExtrinsics = 2
    MaxCrashes = 2
SPECIFICATION Spec
INVARIANTS
    TypeOK
    ActivatedWasAccepted
    TransfersOfRecoveredAccounts
PROPERTIES
    DecidedOnce
    AcceptedIsActivated
CHECK_DEADLOCK FALSE
