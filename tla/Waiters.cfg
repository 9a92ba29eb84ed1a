\* The gate with one copy, one subscriber and the closer.  Two threads at a system call and
\* an instruction whose windows overlap, one of which a mapping call replaces in part.
SPECIFICATION WaitersSpec
CONSTANTS
    Copiers = {k1}
    Subscribers = {s1}
    Closer = c
    Threads = {t1, t2}
    Sites = {16, 20}
    SyscallSites = {16}
    LengthOf <- TwoBytes
    TableSize = 2
    Regions <- HeadOrTail
    MaxRemaps = 1
INVARIANTS
    NoWakeupLost
    PatchesAreSafe
PROPERTIES
    SleepersResume
    JumpsStay
    TrapsReturn
\* Nobody has to ask for anything, and a guest that was ended stays so.
CHECK_DEADLOCK FALSE
