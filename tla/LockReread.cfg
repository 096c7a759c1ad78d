\* The read that follows the merge of a release fails.
CONSTANTS
    None = None
    Threads = {t1}
    Workers = {w1, w2}
    Sweepers = {s1}
    Assistants = {a1, a2}
    MaxAttempts = 3
    RunTimeout = 1
    StaleAfter = 2
    ResetStatus = "error"
    Horizon = 3
    MaxRequests = 3
SYMMETRY Symmetry
SPECIFICATION RereadSpec
INVARIANTS
    RunsNeverOverlap
