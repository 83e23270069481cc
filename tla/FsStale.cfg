SPECIFICATION FsSpec
CONSTANTS
    NBlocks = 8
    NDIRECT = 1
    NINDIRECT = 3
    FILE2BLK = 2
    BY2BLK = 2
    ANY = ANY
    Hosts <- MCHosts
    Words = {9}
    Windows = {1, 2}
    Sizes = {0, 5}
    MaxOps = 4
PROPERTY AllocatesFresh
CHECK_DEADLOCK FALSE
