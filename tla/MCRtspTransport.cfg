SPECIFICATION FairSpec
CONSTANTS
    Plans <- MCPlans
    RxSz = 3
    RbufLimit = 6
    TxqMax = 4
    ReplyLen = 2
    MediaLen = 3
    MaxSends = 7
CHECK_DEADLOCK FALSE
INVARIANT UnitsInOrder
INVARIANT OverflowHasACause
INVARIANT WholeFrames
INVARIANT OwnChannel
INVARIANT SpeechIsPlayed
PROPERTY AllHandled
