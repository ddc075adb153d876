CONSTANTS
    MaxConns = 3
    MaxFaults = 1
    MaxBreaks = 3
SPECIFICATION MCSpec
INVARIANTS
    
    PairingInv
PROPERTIES
    
    
    KeyKept
    Reconnects
CHECK_DEADLOCK FALSE
