\* The source's three retries, two blocks of up to two deltas, aborts anywhere.
SPECIFICATION FairSpec
CONSTANTS
    MaxRetries = 3
    MaxBlocks = 2
    MaxDeltas = 2
INVARIANTS
    TypeOK
    Assembled
    ToolReplyComplete
    AbortStopsRetries
PROPERTIES
    CallReturns
    ImplementsApi
