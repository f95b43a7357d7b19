\* Two batches and a half, two effects per block, one block that always throws.
CONSTANTS
    BATCH_SIZE = 2
    Steps = 1
    Poison = { 5 }
    MaxBlock = 6
    MaxTimes = 3
    MaxFailures = 2
SPECIFICATION FairSpec
INVARIANTS
    TypeOK
    SyncPointCoversAll
    OncePerDroppedJob
PROPERTIES
    AppliedInOrder
    NoReplayBehindSyncPoint
    EventuallySynchronized
    ImplementsBlockDelivery
CHECK_DEADLOCK FALSE
