CONSTANTS
    f1 = f1
    f2 = f2
    i1 = i1
    i2 = i2
    i3 = i3
    Ids <- ThreeIds
    NoMsg = NoMsg
    Fds <- OneFd
    Kinds <- AllKinds
    Fifo = 1
    QueueLen = 1
    ReplyTicks = 2
    NumMod = 3
    MayFail = FALSE
SPECIFICATION FairSpec
PROPERTIES
    EveryIoctlEnds
