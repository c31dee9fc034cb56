SPECIFICATION CoreSpec
CHECK_DEADLOCK FALSE
CONSTANTS
    Addresses <- MCAddresses
    Simulations <- MCPairs
    Cpus = {1}
    U32 = 256
    ReadThrough <- MCReadThrough
    Reexecutions <- MCReexecutions
INVARIANT
    ThreadsIrrelevant
