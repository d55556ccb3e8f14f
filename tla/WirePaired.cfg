\* A reply whose role build_request_body leaves out.
SPECIFICATION FairSpec
CONSTANTS
    a = a
    b = b
    CallId <- MCCallId
    Batches <- MCBatches
    ReplyRoles = {"Assistant", "System"}
    OptionLists <- MCOptionLists
    Keeps <- MCKeeps
    MaxIterations = 2
    MaxMessages = 7
INVARIANTS
    WirePaired
