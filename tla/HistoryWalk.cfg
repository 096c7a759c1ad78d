\* Five checkpoints, pages of two, retention down to two.
CONSTANTS
    MaxId = 5
    KeepLast = 2
    Limit = 2
SPECIFICATION Spec
CHECK_DEADLOCK FALSE
INVARIANTS
    ShownInOrder
    WalkIsComplete
