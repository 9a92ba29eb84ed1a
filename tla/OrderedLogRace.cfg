\* A host and a guest with two records each of three frames, and rings of one
\* slot.  The host has one credit, the guest two and bytes for one record:
\* credits, bytes and slots run out and are used again.
SPECIFICATION OrderedSpec
CONSTANTS
    Producers = 2
    Slots = 1
    PendingRecords = 3
    PendingBytes = 1
    Lengths = {1}
    MaxRecords <- RacingRecords
INVARIANTS
    BufferSafe
PROPERTIES
    ImplementsLog
