SPECIFICATION Spec
CONSTANTS
    ini = ini
    one = one
    two = two
    three = three
    Task <- MCTask
    InitTask <- ini
    NoTask = NoTask
    MaxForks = 4
    MaxPid <- MCMaxPid
SYMMETRY MCSymmetry
INVARIANTS
    TypeOK
    NoOrphan
    
    OneReaper
    
CHECK_DEADLOCK FALSE
PROPERTY WaitTruthful
