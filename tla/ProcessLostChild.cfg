SPECIFICATION FairSpec
CONSTANTS
    Task = {i, a, b}
    InitTask = i
    NoTask = NoTask
    MaxForks = 3
    MaxPid = 3
PROPERTY WaitingParentReaps
CHECK_DEADLOCK FALSE
