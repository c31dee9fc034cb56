SPECIFICATION Spec
CONSTANTS
    Transactions = {1, 2, 3}
    Fingerprint <- MCFingerprint
    Slot <- MCSlot
    Fails <- MCFails
    enable_cache = TRUE
    MaxRestarts = 1
INVARIANT SimulatesOnPredecessor
CHECK_DEADLOCK FALSE
