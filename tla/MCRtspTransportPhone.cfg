SPECIFICATION FairSpec
CONSTANTS
    Plans <- PhonePlan
    RxSz = 3
    RbufLimit = 6
    TxqMax = 4
    ReplyLen = 2
    MediaLen = 3
    MaxSends = 7
CHECK_DEADLOCK FALSE
INVARIANT AllTracksSetUp
