CONSTANTS
    Entity = {"info", "offchain", "uri"}
    Action = {"read", "write", "/a"}
    URI = {"/a"}
    Expiry = {60000, 1700000000}
    MaxOps = 2
    Clients = {1, 2}
    Attempts = {1, 2}
    Disconnects = {1, 2}
    Calls = {1}
    Configured = {"OnRemoteKeyReceive", "OnAuthData"}
SPECIFICATION MCSpec
INVARIANTS
    PermissionsTold
    

    
CHECK_DEADLOCK FALSE
