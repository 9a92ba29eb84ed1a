\* Two processes and two connections.  One issue slot and one outcome, so
\* that both run out.
SPECIFICATION ServerSpec
CONSTANTS
    Conns = {c1, c2}
    Pids = {p1, p2}
    NoConn = NoConn
    NoPid = NoPid
    Configurations <- Servers
    IssueCap = 1
    OutcomeCap = 1
INVARIANTS
    LifecycleSafe
    ReservationsAccounted
    DrainIsExact
PROPERTIES
    IntentDrains
\* A server that stopped serving takes no step.
CHECK_DEADLOCK FALSE
