\* Two handlers and two sweepers on one thread, two assistants.
CONSTANTS
    None = None
    Threads = {t1}
    Workers = {w1, w2}
    Sweepers = {s1, s2}
    Assistants = {a1, a2}
    MaxAttempts = 3
    RunTimeout = 1
    StaleAfter = 2
    ResetStatus = "error"
    Horizon = 3
    MaxRequests = 3
SYMMETRY Symmetry
SPECIFICATION Spec
INVARIANTS
    TypeOK
    MutualExclusion
    HolderOwnsThread
    LockInv
PROPERTIES
    BindingIsForever
    LockIsKept
