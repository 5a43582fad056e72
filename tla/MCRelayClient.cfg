SPECIFICATION FairSpec
CONSTANTS
    RECONNECT_INTERVAL_MS = 5000
    MAX_RECONNECT_MS = 300000
    MAX_RBUF_SIZE = 4
    RXSZ = 4
    MaxWire = 6
CHECK_DEADLOCK FALSE
INVARIANTS
    AlwaysRetries
    RegisteredIsCurrent
    
PROPERTIES
    Reconnects
