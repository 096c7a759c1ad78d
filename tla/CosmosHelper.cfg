\* Two threads that create, two that close.  All calls end, and then the system stops.
CONSTANTS
    Calls = {c1, c2}
    Closers = {k1, k2}
    Foreign = foreign
    Absent = absent
    Deployed = deployed
    Nobody = nobody
    MaxCloses = 2
SPECIFICATION CosmosFairSpec
INVARIANTS
    CosmosTypeOK
    OwnAccount
    EnvIsRestored
    OpenIsManaged
    LaterCloseIsNoOp
PROPERTIES
    CreateEnds
CHECK_DEADLOCK FALSE
