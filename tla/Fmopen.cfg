SPECIFICATION FairSpec
CONSTANTS
    MaxPid = 3
    MAX_FD = 2
    PIPE_MAX = 1
    PIPE_MAX_REF = 3
    MaxBytes = 1
    Kinds = {"DIR"}
    Paths = {11, 12}
    Socks = {21}
    Misuse = {"orphans"}
CHECK_DEADLOCK FALSE
INVARIANTS
    TypeOK
    EntriesMatch
    NoPipeLost
    PathsOwned
    
PROPERTIES
    ReadersReturn
