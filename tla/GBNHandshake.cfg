CONSTANTS
    ClientN = 2
    OldNs <- SameOrOther
    Cap = 3
SPECIFICATION FairSpec
INVARIANTS
    HandshakeInv
    
PROPERTIES
    HandshakeLive
CHECK_DEADLOCK FALSE
