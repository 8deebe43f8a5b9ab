SPECIFICATION Spec
CONSTANTS
    PROCESS_MAX = 4
    SCHEDULER_EVRY = 1
    MaxPid = 4
    Delays = {1}
    RetCodes = {0}
    Misuse = {"wakeup_waiter", "kill_ancestor", "reparent_dead"}
CHECK_DEADLOCK FALSE
INVARIANTS
    TypeOK
    QueueConsistent
    TsleepConsistent
    NoSchedulerFatal
    MemoryReclaim
    UniquePids
PROPERTIES
    DeadStayDead
