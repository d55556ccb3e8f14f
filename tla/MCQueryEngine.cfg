\* The engine's safety and termination on two-iteration queries.
SPECIFICATION FairSpec
CONSTANTS
    a = a
    b = b
    CallId <- MCCallId
    Batches <- MCBatches
    ReplyRoles <- MCReplyRoles
    OptionLists <- MCOptionLists
    Keeps <- MCKeeps
    MaxIterations = 2
    MaxMessages = 7
INVARIANTS
    TypeOK
    HistoryPaired
    PartialOnlyIfAborted
    RequestAnswered
PROPERTIES
    QueryReturns
