SPECIFICATION Spec
CHECK_DEADLOCK FALSE
CONSTANTS
    v1 = v1
    v2 = v2
    v3 = v3
    v4 = v4
    Authorities = {v1, v2, v3, v4}
    MaxRound = 5
    Leader <- MCLeader
    Dags <- MCDags
    GcDepth = 3
    MaxRestarts = 1
INVARIANTS
    TypeOK
    Agreement
    NoPanic
    CausalOnce
    SupportedCommitted
