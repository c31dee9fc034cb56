SPECIFICATION FairSpec
CONSTANTS
    a1 = a1
    b1 = b1
    a2 = a2
    b2 = b2
    a3 = a3
    b3 = b3
    a4 = a4
    a5 = a5
    ByRound <- MCByRound
    Round <- MCRound
    Parents <- MCParents
    GcDepth = 1
    NewCertificateRoundLimit = 2
    ChannelCapacity = 1
    DagCapacity = 1
    Origin <- MCOrigin
    Peers <- MCPeers
    MaxItems = 3
    Sent = {a2, b3}
    MaxRestarts = 1
INVARIANTS
    TypeOK
    ParentsDelivered
    StoreDelivered
    SuspendedExact
    AssertionsHold
CHECK_DEADLOCK FALSE
PROPERTY SuspendedCaughtUp
