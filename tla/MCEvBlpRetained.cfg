SPECIFICATION Spec
CHECK_DEADLOCK FALSE
CONSTANTS
    ZetaMax = 2
    Lambda2 = 2
    Lambda3 = 5
    Slots <- MCSlots
    Cells <- MCCells
    Keys <- MCKeys
    EncodeKey <- MCEncodeKey
    DecodeKey <- MCDecodeKey
    Values <- MCValues
    Zero = 0
    None = None
    MaxBatch = 3
    L1Capacity = 2
    PageLimit = 1
    Genesis <- MCGenesis
    Rounds = 2
    Effects <- MCEffects
    GasWeights = {1}
    StoreMayFail = TRUE
INVARIANT
    RetainedUntilCommitted
