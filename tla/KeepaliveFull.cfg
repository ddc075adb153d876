CONSTANTS
    N = 2
    Prompt = TRUE
    MaxData = 2
    MaxPeer = 1
SPECIFICATION FairSpec
CHECK_DEADLOCK FALSE
PROPERTIES
    DeadPeerDetected
