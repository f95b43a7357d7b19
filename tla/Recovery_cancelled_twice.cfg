CONSTANTS
    r1 = r1
    t1 = t1
    a1 = a1
    User = User
    Requests = { r1 }
    Transfers = { t1 }
    Accounts = { a1 }
    MaxExtrinsics = 1
    MaxCrashes = 1
SPECIFICATION Spec
INVARIANTS
    AcceptedCancelledWasAccepted
CHECK_DEADLOCK FALSE
