\* One task that registers two Wakers, the second over the first or after it.
SPECIFICATION AsyncLive
CONSTANTS
    Uses = {0}
    MaxRegistrations = 2
    MayFail = TRUE
INVARIANTS
    AsyncSafe
PROPERTIES
    PollersResume
    WorkerEnds
\* A stream that was dropped, or is not polled any more, takes no step.
CHECK_DEADLOCK FALSE
