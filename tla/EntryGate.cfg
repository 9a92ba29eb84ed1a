\* A vCPU thread, a copier and two closers that may publish over two bytes,
\* twice; two closes use up the identities.
SPECIFICATION GateSpec
CONSTANTS
    Members = {m1}
    Copiers = {k1}
    Closers = {c1, c2}
    Arena = 2
    MaxRun = 1
    MaxClose = 2
    MaxGeneration = 2
SYMMETRY Symmetry
INVARIANTS
    ChangesAreAlone
    KicksAreAccounted
    CloseIsHeard
    MemoryIsCoherent
\* Everybody may have left a gate that failed.
CHECK_DEADLOCK FALSE
