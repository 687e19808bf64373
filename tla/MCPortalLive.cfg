CONSTANTS
    Fds = {3, 5}
    Slots = {0}
    x = x
    y = y
    Figs = {x}
    NoFig = NoFig
    CounterMod = 1
SPECIFICATION FairSpec
PROPERTIES
    GameCatchesUp
