SPECIFICATION FairSpec
CONSTANTS
    Kinds = {"fs", "dafs"}
    Scanner = FALSE
    Fallible = {"file", "vol", "salsrv"}
    Stubborn = {"file", "vol", "salsrv", "salv"}
    SDTIME = 0
    FSSDTIME = 1
    RestartLimit = 0
    BNODE_ERROR_COUNT_MAX = 1
    BNODE_ERROR_DELAY_MAX = 1
    MaxFaults = 1
    MaxCalls = 2
    MaxReboots = 1
INVARIANT TypeOK
INVARIANT SalvagerAlone
INVARIANT KilledIsSalvaged
INVARIANT GoalIsWanted
PROPERTY StopsInTheEnd
PROPERTY RestartReturns
PROPERTY ServesInTheEnd
CHECK_DEADLOCK FALSE
