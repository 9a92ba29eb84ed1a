\* Two constructions, of which one may fail at every spawn, start and step.
SPECIFICATION RegistryLive
CONSTANTS
    Connections = {c1, c2}
    Faulty = {c1}
    NoOne = NoOne
INVARIANTS
    RegistrySafe
    PublishedIsAttended
PROPERTIES
    ConstructorsReturn
    WorkersAreReclaimed
\* Both streams were closed and everything is joined.
CHECK_DEADLOCK FALSE
