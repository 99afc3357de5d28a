SPECIFICATION FilesSpec
CONSTANTS
    sh = sh
    cmd = cmd
    x = x
    y = y
    Proc <- MCProc
    Shell <- sh
    Inodes = 3
    Name <- MCName
    LastSlot = 4
    LastFd = 4
    MaxOpen = 2
SYMMETRY MCSymmetry
INVARIANTS
    TreeExact
    
    PipeCounted
