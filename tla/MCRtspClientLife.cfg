SPECIFICATION FairSpec
CONSTANTS
    MaxSocks = 2
    MAX_RECONNECT_ATTEMPTS = 2
INVARIANTS
    OneConnector
    LeakHasACause
    NoInterruptedJoin
PROPERTIES
    DisconnectReturns
    Settles
    TellsInOrder
CHECK_DEADLOCK FALSE
