\* Two messages and two subscriptions at a time: both agents publish at once
\* while a callback returns, throws or uses the bus.
SPECIFICATION Spec
CONSTANTS
    a1 = a1
    a2 = a2
    n1 = n1
    n2 = n2
    coder = coder
    tester = tester
    None = None
    Agent <- MCAgent
    TeamName <- MCTeamName
    Type <- MCType
    MaxMsgs = 2
    MaxSubs = 2
    MaxTeams = 2
    MaxTasks = 2
INVARIANTS
    SameOrder
    TasksOfMembers
    CancelHonoured
PROPERTIES
    PublishEnds
CHECK_DEADLOCK FALSE
