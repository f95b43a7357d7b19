\* Two LOCs, or two sessions of a LOC, or a request for one of its secrets.
CONSTANTS
    l1 = l1
    l2 = l2
    s1 = s1
    s2 = s2
    n1 = n1
    n2 = n2
    r1 = r1
    c1 = c1
    c2 = c2
    None = None
    Locs = { l1, l2 }
    Sessions = { s1, s2 }
    Names = { n1, n2 }
    Requests = { r1 }
    Clients = { c1, c2 }
    MAX_SECRETS = 0
    SECRET_EXPIRATION_DAYS = 0
    DAY = 2
    MaxValues = 3
SPECIFICATION Spec
SYMMETRY Symmetry
CONSTRAINT Bound
INVARIANTS
    TypeOK
    OneIdentityLoc
    PendingIsAwaited
    VerdictIsGenuine
    ReturnedAsAccepted
    UsedUpForAReason
CHECK_DEADLOCK FALSE
