\* One writer, each put based on the newest checkpoint, and one reader.
CONSTANTS
    Channels = {c1}
    Writers = {w1}
    Readers = {r1}
    Forks = FALSE
    MaxId = 3
    KeepLast = 1
    Grace = 2
    PutTime = 1
    Horizon = 1
    LastTick = 3
SPECIFICATION Spec
INVARIANTS
    TypeOK
    CommittedIsComplete
    LatestIsNotAhead
PROPERTIES
    HistoryIsKept
    ReaderSeesWhole
