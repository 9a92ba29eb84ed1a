\* Two tickets and two redeeming connections: one attempt can be cancelled or
\* redeemed and a second one follow.
SPECIFICATION NativeSpec
CONSTANTS
    MaxTransitions = 2
    MaxSnapshot = 2
    MaxState = 3
    Owners = {watched}
    Watched = watched
    Conns = {c1, c2}
    None = None
    Open = Open
    Closed = Closed
INVARIANTS
    HandoverSafe
    TicketsAreSafe
PROPERTIES
    StagesGoForward
    AttemptEnds
    AuthorityWithdrawn
\* A process that was replaced or has ended takes no step.
CHECK_DEADLOCK FALSE
