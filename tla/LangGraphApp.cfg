\* Two handlers and one request without a lock, on one thread of one process.
CONSTANTS
    None = None
    NoApp = NoApp
    Elsewhere = elsewhere
    Threads = {t1}
    Workers = {w1, w2}
    Callers = {c1}
    Assistants = {a1, a2}
    Checkpointed = {a1}
    Keys = {k1, k2}
SYMMETRY Symmetry
SPECIFICATION AppSpec
INVARIANTS
    AppTypeOK
    RunOwnsThread
    AppIsCurrent
    HandlersKeepTheirStore
    NoRunPassesARun
    OneGraphPerThread
PROPERTIES
    LockIsKept
    OnlyOverlapsLoseKeys
