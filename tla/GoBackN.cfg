CONSTANTS
    N = 2
    MaxPackets = 4
    PingPositions <- SecondIsPing
    DataCap = 2
    CtlCap = 2
    MaxDups = 1
    PeerTraffic = TRUE
SPECIFICATION Spec
INVARIANTS
    IInv
    AcceptedInOrder
    DeliveredInOrder
PROPERTIES
    ImplementsFifo
