\* A futex word of two values wraps all the time and endpoints die in the
\* middle of a notify: the timeout has to recover.
SPECIFICATION TimedSpec
CONSTANTS
    Capacity = 1
    MaxCursor = 1
    ProgressMod = 2
    MaxLen = 1
    Uses <- OneWay
    MayCrash = TRUE
PROPERTIES
    ReadyCallReturns
\* Endpoints that are both gone have nothing left to do.
CHECK_DEADLOCK FALSE
