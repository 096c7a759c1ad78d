\* Two attempts at a task, retention and a deletion; no reader, no collector.
CONSTANTS
    Channels = {c1}
    Writers = {w1}
    Readers = {}
    Forks = FALSE
    MaxId = 2
    KeepLast = 1
    Grace = 1
    PutTime = 0
    Horizon = 0
    LastTick = 1
    a1 = a1
    a2 = a2
    Attempts = {a1, a2}
    Batches <- MCBatches
    NoAttempt = none
    MaxDeletes = 1
SYMMETRY Symmetry
SPECIFICATION ThreadSpec
INVARIANTS
    ThreadTypeOK
    RestIsComplete
PROPERTIES
    DeletedIsGone
    OnlyOverlapsReplace
    WritesStay
