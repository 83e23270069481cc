SPECIFICATION FairSpec
CONSTANTS
    NENV = 6
    Avail = {1, 3, 6}
    MAXFD = 5
    MAXARGS = 2
    BY2PIPE = 1
    Bytes = 2
    MaxPipes = 3
    Files = {"f"}
    Filters = {"cat"}
    Sources = {"echo"}
    Scripts <- MCScripts
INVARIANT Wired
PROPERTY JobsEnd
