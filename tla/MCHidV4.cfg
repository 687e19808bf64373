CONSTANTS
    f1 = f1
    f2 = f2
    i1 = i1
    i2 = i2
    i3 = i3
    Ids <- ThreeIds
    NoMsg = NoMsg
    Fds <- TwoFds
    Kinds <- FewKinds
    Fifo = 2
    QueueLen = 2
    ReplyTicks = 1
    NumMod = 4
    MayFail = TRUE
SPECIFICATION Spec
SYMMETRY Symmetry
INVARIANTS
    AckedOnce
    RepliesInOrder
    ClosedIsClean
