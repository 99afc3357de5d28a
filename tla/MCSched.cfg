SPECIFICATION Spec
CONSTANTS
    idle = idle
    main = main
    a = a
    b = b
    Task <- MCTask
    Idle <- idle
    Main <- main
    Slice <- MCSlice
    Nobody = Nobody
INVARIANTS
    TypeOK
    ReadyListExact
    
PROPERTIES
    
    NoStarvation
