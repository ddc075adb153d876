CONSTANTS
    Peers = {1, 2}
    defaultHandshakes = 1
    maxChunkSize = 2
    baseLength = 2
    Lengths = {1, 3, 4}
    ReadSize = 2
    n = 2
    MaxMsgs = 2
SPECIFICATION MCSpec
INVARIANTS
    ListenerInv
    StreamIntact
PROPERTIES
    ListenerLive
    AllRead
CHECK_DEADLOCK FALSE
