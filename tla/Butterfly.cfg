CONSTANTS
    InitSectors = 2
    ExtendBy = 2
    MaxSectors = 6
    LINKS_IN_LOCA = 2
    BYTE_IN_CORE = 2
    MaxSize = 4
    Lengths = {1, 2}
    MaxLost = 3
    KilledIn = {"create", "grow", "delete"}
SPECIFICATION Spec
CHECK_DEADLOCK FALSE
INVARIANTS TypeOK FreeStack SectorsOwned ChainsSound TransfersExact
 
