SPECIFICATION FairSpec
CONSTANTS
    a = a
    b = b
    c = c
    d = d
    Task <- MCTask
    NULL = NULL
INVARIANTS
    TypeOK
    MutualExclusion
    WaitListSound
PROPERTIES
    OwnerReleases
    ImplementsAbstractMutex
