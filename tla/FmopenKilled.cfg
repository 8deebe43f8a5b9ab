SPECIFICATION Spec
CONSTANTS
    MaxPid = 3
    MAX_FD = 2
    PIPE_MAX = 1
    PIPE_MAX_REF = 3
    MaxBytes = 1
    Kinds = {"FILE"}
    Paths = {11}
    Socks = {21}
    Misuse = {"kill_other"}
CHECK_DEADLOCK FALSE
INVARIANTS
    OpenEndsListed
