\* One extrinsic with its charges, or the votes and selections of two officers.
CONSTANTS
    o1 = o1
    o2 = o2
    i1 = i1
    None = None
    Accounts = { o1, o2, i1 }
    Officers = { o1, o2 }
    Issuers = { i1 }
    BATCH_SIZE = 2
    MaxBlocks = 3
    MaxEvents = 2
    MaxCharging = 1
    MaxDrops = 1
SPECIFICATION Spec
SYMMETRY Symmetry
CONSTRAINT Bound
INVARIANTS
    TypeOK
    ChargesShown
    CaughtUpVotesAreTrue
    StuckForAReason
    SelectionFollowsChain
CHECK_DEADLOCK FALSE
