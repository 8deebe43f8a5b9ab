SPECIFICATION FairSpec
CONSTANTS
    Procs = {p1, p2}
    MaxSockets = 2
    QueueMax = 2
    MaxMsg = 3
    MaxIn = 1
    Base = 3
    CLT_PORT_START = 5
    Asked = {1}
CHECK_DEADLOCK FALSE
INVARIANTS
    
    QueuesFifo
PROPERTIES
    ClosedGone
