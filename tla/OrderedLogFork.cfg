\* A guest forks; it has two records to write and its child one.  The role has
\* two credits and one byte, which every record needs: a record waits for the
\* bytes, or for the credit that another is trying to pay for, until the
\* publication releases them.  Every producer lives.
SPECIFICATION GuestsSpec
CONSTANTS
    Producers = 3
    Slots = 1
    PendingRecords = 3
    PendingBytes = 1
    Lengths = {1}
    MaxRecords <- CompetingRecords
INVARIANTS
    CompleteIsOver
PROPERTIES
    WriteEnds
