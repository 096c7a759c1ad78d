\* Fair schedules of one writer, retention and collection; no symmetry.
CONSTANTS
    Channels = {c1}
    Writers = {w1}
    Readers = {}
    Forks = FALSE
    MaxId = 2
    KeepLast = 1
    Grace = 2
    PutTime = 1
    Horizon = 1
    LastTick = 4
SPECIFICATION FairSpec
PROPERTIES
    OrphansEnd
