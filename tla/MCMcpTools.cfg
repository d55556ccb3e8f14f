\* Two servers that may offer the same tool; three clients, so that one can be
\* replaced after a sync while the other server has one.
SPECIFICATION Spec
CONSTANTS
    t1 = t1
    t2 = t2
    Server <- MCServer
    Tool <- MCTool
    Config <- MCConfig
    MaxClients = 3
    MaxLines = 3
SYMMETRY SymTools
INVARIANTS
    RoutedToLive
    EndpointKnown
    SyncNamesLive
CHECK_DEADLOCK FALSE
