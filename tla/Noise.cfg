CONSTANTS
    macSize = 2
    lengthHeaderSize = 1
    keyRotationInterval = 3
    MaxUint16 = 2
    ReadTimeouts = FALSE
    MaxSeals = 8
    MaxWrite = 3
    AuthLens = {0, 498}
    MaxFaults = 1
    MaxConns = 2
    BufSize = 2
    MaxBytes = 5
SPECIFICATION MCSpec
INVARIANTS
    TransportInv
    DeliveredRight
    
    
PROPERTIES
    StoresTrueRemote
    AllDeliveredUncut
    BytesInOrder
    HandshakeProceeds
