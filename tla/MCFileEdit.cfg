\* Two calls, two foreign changes, crashes anywhere, every file system.
SPECIFICATION EditSpec
CONSTANTS
    Texts <- MCTexts
    EditLists <- MCEditLists
    Clocks = {TRUE, FALSE}
    Disks = {TRUE, FALSE}
    MaxForeign = 2
    MaxCalls = 2
INVARIANTS
    FileWhole
    StaleEditCaught
    NoTempLeft
CHECK_DEADLOCK FALSE
