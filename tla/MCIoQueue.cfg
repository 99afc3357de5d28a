SPECIFICATION Spec
CONSTANTS
    p = p
    q = q
    g = g
    h = h
    x = x
    y = y
    Putter <- MCPutter
    Getter <- MCGetter
    Value <- MCValue
    NoValue = NoValue
    NULL = NULL
    Size <- MCSize
INVARIANTS
    TypeOK
    CountersMatchRing
    WaitersSound
PROPERTIES
    ImplementsFifo
CHECK_DEADLOCK FALSE
SYMMETRY Symmetry
