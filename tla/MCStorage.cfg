CONSTANTS
    N = 2
    ua = ua
    ub = ub
    NoUid = NoUid
    Ids = {0, 1, 2}
    Uids <- MCUids
    UidOf <- MCUidOf
    GenMod = 3
    RemoveTicks = 1
    RetryTicks = 1
    MailboxTicks = 1
    Ops = {"load", "remove", "flush", "page"}
    SendMayFail = TRUE
SPECIFICATION Spec
INVARIANTS
    FigureHomes
    MenuPlaces
    SavedIsOnCard
    PresentIffHeld
PROPERTIES
    NoProgressLost
    JobUndisturbed
