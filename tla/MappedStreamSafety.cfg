\* One direction, every crash, close, abort and timeout; the ring holds two
\* bytes, so that copies wrap, and cursors run into their limit at three.
SPECIFICATION Spec
CONSTANTS
    Capacity = 2
    MaxCursor = 3
    ProgressMod = 64
    MaxLen = 2
    Uses <- OneWay
    MayCrash = TRUE
INVARIANTS
    StreamIsFaithful
    NoLostWakeup
PROPERTIES
    ImplementsChannel
\* Endpoints that are both gone have nothing left to do.
CHECK_DEADLOCK FALSE
