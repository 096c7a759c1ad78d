\* Two threads whose locks are stranded; no symmetry under fairness.
CONSTANTS
    None = None
    Threads = {t1, t2}
    Workers = {w1}
    Sweepers = {s1}
    Assistants = {a1}
    MaxAttempts = 2
    RunTimeout = 1
    StaleAfter = 2
    ResetStatus = "idle"
    Horizon = 0
    MaxRequests = 2
SPECIFICATION FairSpec
PROPERTIES
    BusyEnds
