SPECIFICATION Spec
CHECK_DEADLOCK FALSE
CONSTANTS
    MaxIndex = 2
    MaxCommit = 1
    MaxCrashes = 1
    Batches <- MCBatches
    ChannelCapacity = 1
    MaxPending = 2
    IndexMayFail = FALSE
PROPERTY
    IndexedOnce
