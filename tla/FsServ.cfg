SPECIFICATION FairSpec
CONSTANTS
    NBlocks = 6
    NDIRECT = 3
    NINDIRECT = 3
    FILE2BLK = 1
    BY2BLK = 2
    NULL = NULL
    ANON = ANON
    Clients = {c1, c2}
    MAXOPEN = 2
    Host <- MCHost
    Names <- MCNames
    Lens = {0}
    MaxCalls = 5
INVARIANTS
    EntryExclusive
    ReplyExpected
    WindowTrue
PROPERTY RequestsAnswered
