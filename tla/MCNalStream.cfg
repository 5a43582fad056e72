SPECIFICATION Spec
CONSTANTS
    RTP_MTU = 4
    FuSize = 7
    QueueSize = 2
    NalLens = {4, 5, 7, 9}
    Headers = {101}
    MaxNals = 3
CHECK_DEADLOCK FALSE
INVARIANT WholeUnitsIntact
INVARIANT DamageHasACause
INVARIANT NewestSurvives
