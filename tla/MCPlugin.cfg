CONSTANTS
    CounterMod = 2
    MaxFaults = 2
    f = f
    g = g
    Figures = {f, g}
    None = None
    NoJob = NoJob
    HalfSeq = 2
    Earlier = {2, 3}
    MaxWrites = 2
    FailTicks = 1
    SaveTicks = 1
    SlowTicks = 2
    TraceTicks = 2
    RemoveTicks = 1
    MaxFailures = 3
SPECIFICATION MCSpec
INVARIANTS
    PatchesInv
    StatusAgrees
    StartedWhole
PROPERTIES
    Recovers
    OneFigureHeld
    WritesReachCard

\* The loader may stop before any handler is the portal's.
CHECK_DEADLOCK FALSE
