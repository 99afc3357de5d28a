SPECIFICATION Spec
CONSTANTS
    p = p
    q = q
    Proc <- MCProc
    Kernel = Kernel
    NULL = NULL
    ByteBits = 3
    KFrames = 1
    UFrames = 2
    VPages = 1
    MaxCnt = 2
    MaxRuns = 1
    Fixed <- MCFixed
SYMMETRY MCSymmetry
INVARIANTS
    TypeOK
    
    
    AcquireIsFirstFit
CHECK_DEADLOCK FALSE
