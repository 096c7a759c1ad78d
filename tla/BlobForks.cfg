\* A state update names an older checkpoint and goes on from it.
CONSTANTS
    Channels = {c1}
    Writers = {w1}
    Readers = {}
    Forks = TRUE
    MaxId = 3
    KeepLast = 1
    Grace = 2
    PutTime = 1
    Horizon = 3
    LastTick = 6
SPECIFICATION Spec
INVARIANTS
    CommittedIsComplete
