SPECIFICATION FairSpec
CONSTANTS
    MaxRings = 1
    MaxClients = 2
    MaxRetries = 1
INVARIANTS
    
    OneAtATime
    IceFindsConnected
    StreamingHasACause
    
PROPERTIES
    RingIsFetched
    ErrorEndsClient
CHECK_DEADLOCK FALSE
