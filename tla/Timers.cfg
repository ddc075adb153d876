CONSTANTS
    N = 2
    MaxRounds = 2
    p1 = p1
    p2 = p2
    p3 = p3
    Procs <- ThreeProcs
    Tops <- FreshTop
    resendMultiplier = 2
    timeoutUpdateFrequency = 2
    boostPercent = 50
    defaultResendTimeout = 2
    minimumResendTimeout = 2
    pingTime = 4
    pongTime = 2
    pongMultiplier = 3
    maxPongTime = 5
    MaxTime = 5
    MaxPackets = 3
    MaxWrites = 2
    TimedN = 1
    SmallN = 2
    LargeN = 4
    MaxData = 1
    MaxPeer = 1
SPECIFICATION MCSpec
INVARIANTS
    SyncerInv
    SignalNotForgotten
    
    TimeoutInv
    ResentUnmeasured
    KeepaliveInv
PROPERTIES
    ResendsEnd
    DeadPeerDetected
