SPECIFICATION FairSpec
CONSTANTS
    c1 = c1
    c2 = c2
    Client = {c1, c2}
    IDR_FRAMES = 2
    CameraMayFail = FALSE
    HttpUsed = TRUE
INVARIANT PlayingHasTimers
INVARIANT DevicesHaveOwners
PROPERTY VanishedAreReleased
PROPERTY LostRecover
