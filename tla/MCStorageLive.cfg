CONSTANTS
    N = 2
    ua = ua
    ub = ub
    NoUid = NoUid
    Ids = {0, 1}
    Uids <- MCUids
    UidOf <- MCUidOf
    GenMod = 2
    RemoveTicks = 0
    RetryTicks = 1
    MailboxTicks = 1
    Ops = {"load", "remove"}
    SendMayFail = FALSE
SPECIFICATION FairSpec
PROPERTIES
    ActionEnds
    StartsUp
    DirtyIsSaved
    MovesOneByOne
