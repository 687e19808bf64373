CONSTANTS
    f0 = f0
    f1 = f1
    f2 = f2
    Fig <- MCFig
    Source <- MCSource
    NoFig = NoFig
    HalfSeq = 2
SPECIFICATION Spec
INVARIANTS
    LoadNeverStale
    SavedStaysReadable
PROPERTIES
    JournalStore
CHECK_DEADLOCK FALSE
