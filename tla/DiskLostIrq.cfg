SPECIFICATION FairSpec
CONSTANTS
    Task = {m}
    Main = m
    NoTask = NoTask
    LastLba = 0
    MaxSectors = 1
    Run = 1
    MaxTokens = 1
PROPERTY IrqEndsWait
CHECK_DEADLOCK FALSE
