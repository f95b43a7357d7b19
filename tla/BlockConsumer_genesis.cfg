\* One failure-free start is enough; the bounds are those of BlockConsumer.cfg.
CONSTANTS
    BATCH_SIZE = 2
    Steps = 1
    Poison = { 5 }
    MaxBlock = 6
    MaxTimes = 3
    MaxFailures = 2
SPECIFICATION Spec
INVARIANTS
    SyncedFromGenesis
CHECK_DEADLOCK FALSE
