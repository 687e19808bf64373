CONSTANTS
    SlotCount = 2
    Dumps = {"a", "b"}
    QueueSize = 2
    PollEvery = 2
    Budget = 5
SPECIFICATION FairSpec
INVARIANTS
    CoreInv
    QueriesFit
PROPERTIES
    Settles

\* Before the game resumed the portal, the budget ends everything.
CHECK_DEADLOCK FALSE
