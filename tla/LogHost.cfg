\* A guest of two processes at most, one-slot rings, and a budget of one chunk that a
\* record of two chunks exceeds; two records to publish of up to two bytes, and room for
\* one in the channel.
SPECIFICATION LogHostSpec
CONSTANTS
    Incarnations = 2
    RingSlots = 1
    ByteLimit = 1
    RecordLengths = {1, 2}
    Plans <- WritesOrForks
    Records = 2
    MaxLen = 2
    Slots = 1
INVARIANTS
    RetainedIsHonest
    PublicationSafe
    ReportIsTrue
PROPERTIES
    TerminalStays
    LogEnds
    WaitersReturn
    FinishReturns
\* The guest may stay idle and the launcher may never stop it.
CHECK_DEADLOCK FALSE
