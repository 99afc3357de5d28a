SPECIFICATION Spec
CONSTANTS
    main = main
    other = other
    Task <- MCTask
    Main <- main
    NoTask = NoTask
    LastLba = 1
    MaxSectors = 3
    Run = 2
    MaxTokens = 2
INVARIANTS
    TypeOK
    CommandTaken
    
    AnswerOutstanding
CHECK_DEADLOCK FALSE
