\* Three changes of the memory store; two messages in memory, one of which a
\* save keeps.
SPECIFICATION Spec
CONSTANTS
    d1 = d1
    d2 = d2
    s1 = s1
    s2 = s2
    s3 = s3
    None = None
    Dir <- MCDir
    Session <- MCSession
    Ids = 2
    Keep = 1
    MaxChanges = 3
    MaxMsgs = 2
SYMMETRY SymNames
INVARIANTS
    SavedWhole
    SavedIsRead
    SessionFileOwn
CHECK_DEADLOCK FALSE
