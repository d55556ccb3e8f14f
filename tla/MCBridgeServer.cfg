\* Three connections over two runs of the server.
SPECIFICATION FairSpec
CONSTANTS
    MaxClients = 2
    MaxConns = 3
    MaxStarts = 2
INVARIANTS
    TypeOK
    StoppedEmpty
    ServedClientKnown
    NoStaleSocket
PROPERTIES
    ConnectionEnds
CHECK_DEADLOCK FALSE
