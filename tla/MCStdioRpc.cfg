\* The three clients; a server that gets an initialize and two calls, a second one
\* after it that gets one call less; one notification.
SPECIFICATION Spec
CONSTANTS
    Impls = {"mcp", "conn", "lsp"}
    MaxKids = 2
    MaxCalls = 3
    MaxNotes = 1
INVARIANTS
    FramesOnce
    AnswersMatch
    ChildrenCollected
PROPERTIES
    CallEnds
CHECK_DEADLOCK FALSE
