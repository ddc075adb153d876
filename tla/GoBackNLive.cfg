CONSTANTS
    N = 2
    MaxPackets = 3
    PingPositions <- NoPings
    DataCap = 1
    CtlCap = 1
    MaxDups = 0
    PeerTraffic = FALSE
SPECIFICATION FairSpec
PROPERTIES
    QueueDrains
