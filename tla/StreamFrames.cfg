\* Streams that fit, that fill the buffer to the last byte, and overflow it.
CONSTANTS
    Sizes = {1, 2, 3, 8}
    MaxEvents = 4
    Limits = {1, 6, 7}
    MetadataSize = 2
    ErrorSize = 3
    EndSize = 1
    MaxDepth = 2
    MaxNodes = 3
    MaxHeight = 3
    MaxItems = 2
SPECIFICATION Spec
CHECK_DEADLOCK FALSE
INVARIANTS
    TypeOK
    CutIsTold
    StatusMatchesStream
    PlatformFrames
    NativeFrames

PROPERTIES
    LimitsDecide
