SPECIFICATION Spec
CONSTANTS
    BaseAddr = 0
    PhysSize = 17
    Word = 128
    PARTS_COUNT = 6
    GROW_SIZE = 2
    RecordSize = 1
    Sizes = {0, 1, 3}
    Aligns = {0, 2}
    Kinds = {"ARGS", "SIMPLE", "SCUBA"}
    Pids = {5}
    Dirs = {d1}
    NoDir = NoDir
CHECK_DEADLOCK FALSE
INVARIANTS
    TypeOK
    ListSorted
    RecordsSuffice
    TableInOwnBlock
PROPERTIES
    
    SweepsEnd
