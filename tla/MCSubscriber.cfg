SPECIFICATION FairSpec
CHECK_DEADLOCK FALSE
CONSTANTS
    MaxIndex = 4
    MaxCommit = 2
    MaxCrashes = 2
    Batches <- MCBatches
    ChannelCapacity = 1
    MaxPending = 2
    IndexMayFail = TRUE
INVARIANTS
    TypeOK
    NothingSkipped
    HandedOnOnce
PROPERTIES
    ReplayFromIndex
    AllExecuted
