\* Both implementations.
SPECIFICATION SessionSpec
CONSTANTS
    c1 = c1
    c2 = c2
    s1 = s1
    s2 = s2
    s3 = s3
    None = None
    Client <- MCClient
    Session <- MCSession
    Impls = {"manager", "server"}
INVARIANTS
    SessionTypeOK
    MappingBacked
CHECK_DEADLOCK FALSE
