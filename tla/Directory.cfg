CONSTANTS
    Names = {"a", "b"}
    LongNames = {"b"}
    MaxSid = 3
    MaxWords = 14
    Procs = {p1, p2}
    Renamers = {p1}
    Misuse = {}
SPECIFICATION Spec
CHECK_DEADLOCK FALSE
INVARIANTS LinkedOnce TreeReachable
PROPERTY OnlyNamed
