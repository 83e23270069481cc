SPECIFICATION Spec
CONSTANTS
    BY2PG = 32
    NULL = NULL
    Library = {3, 9}
    Programs <- MCPrograms
    Argvs <- MCArgvs
INVARIANTS
    
    StartedComplete
    ArgvSeen
