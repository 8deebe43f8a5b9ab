SPECIFICATION Spec
CONSTANTS
    PROCESS_MAX = 5
    SCHEDULER_EVRY = 1
    MaxPid = 5
    Delays = {}
    RetCodes = {0}
    Misuse = {}
CHECK_DEADLOCK FALSE
INVARIANTS
    WaitersNotified
    KillIsComplete
    
    NoWaitFatal
