SPECIFICATION CoreSpec
CHECK_DEADLOCK FALSE
CONSTANTS
    Addresses <- MCAddresses
    Simulations <- MCBatches
    Cpus = {1, 2, 4}
    U32 = 256
    ReadThrough <- MCReadThrough
    Reexecutions <- MCReexecutions
INVARIANTS
    CoreTypeOK
    MergeExact
    NoOverflow
    ReadersFirst
    SnapshotConsistent
    NoCycle
    EpochsSerial
    StateDeterministic
    CollectorReplays
    AllCommittedOnce
    SerialBySequence
