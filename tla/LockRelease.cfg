\* One run that ends on a host that lives.
CONSTANTS
    None = None
    Threads = {t1}
    Workers = {w1, w2}
    Sweepers = {s1}
    Assistants = {a1, a2}
    MaxAttempts = 3
    RunTimeout = 1
    StaleAfter = 2
    ResetStatus = "error"
    Horizon = 0
    MaxRequests = 1
SYMMETRY Symmetry
SPECIFICATION Spec
PROPERTIES
    EndedRunReleases
