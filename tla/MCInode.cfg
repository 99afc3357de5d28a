SPECIFICATION Spec
CONSTANTS
    Inodes = 2
    Blocks = 7
    BlockSize = 3
    Direct = 2
    Dirent = 2
    Byte = {1, 2}
    Counts = {2, 3}
    MaxSize = 6
    MaxOpen = 2
    MaxLost = 1
INVARIANTS
    TypeOK
    
    CacheIsTable
 
CHECK_DEADLOCK FALSE
