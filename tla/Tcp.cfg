SPECIFICATION FairSpec
CONSTANTS
    Word = 16
    FirstSeq = 14
    PeerSeq = 13
    NOut = 2
    NIn = 2
    MAX_SEGMENT = 1
    Tries = 2
    ToClientMax = 2
    ToPeerMax = 1
CHECK_DEADLOCK FALSE
INVARIANTS
    OutStream
    
PROPERTIES
    InAcked
