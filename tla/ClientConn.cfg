CONSTANTS
    Refreshed = FALSE
SPECIFICATION FairServerSpec
INVARIANTS
    StreamsInv

    
    
CHECK_DEADLOCK FALSE
