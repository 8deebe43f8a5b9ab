CONSTANTS
    Names = {"a", "b"}
    LongNames = {"b"}
    MaxSid = 3
    MaxWords = 14
    Procs = {p1}
    Renamers = {p1}
    Misuse = {"stale_parent"}
SPECIFICATION Spec
CHECK_DEADLOCK FALSE
INVARIANT LinkedOnce
