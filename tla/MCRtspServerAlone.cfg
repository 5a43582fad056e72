SPECIFICATION Spec
CONSTANTS
    c1 = c1
    Client = {c1}
    IDR_FRAMES = 2
    CameraMayFail = TRUE
    HttpUsed = FALSE
INVARIANT ClientIsServed
INVARIANT FlagTellsTheTruth
