\* Two threads at one system call.
SPECIFICATION PatchSpec
CONSTANTS
    Threads = {t1, t2}
    Sites = {16}
    SyscallSites = {16}
    LengthOf <- TwoBytes
    TableSize = 1
    Regions = {}
    MaxRemaps = 0
INVARIANT DeclineIsUntouched
\* A guest that was ended takes no step.
CHECK_DEADLOCK FALSE
