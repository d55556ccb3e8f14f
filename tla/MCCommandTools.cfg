\* All callers and all options, two processes, output beyond the limits.
SPECIFICATION ToolSpec
CONSTANTS
    MergeOptions = {TRUE, FALSE}
    CaptureOptions = {TRUE, FALSE}
    Inputs = {0, 2}
    MaxOutput = 2
    PipeCap = 1
    MaxWrites = 2
    ErrLimit = 1
    None = None
    d1 = d1
    Dir <- MCDir
INVARIANTS
    OutputComplete
    NoZombie
    AnswerWarranted
PROPERTIES
    ExecReturns
CHECK_DEADLOCK FALSE
