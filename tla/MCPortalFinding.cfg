CONSTANTS
    Fds = {3}
    Slots = {0, 1}
    x = x
    y = y
    Figs = {x, y}
    NoFig = NoFig
    CounterMod = 2
SPECIFICATION Spec
PROPERTIES
    RemoveReported
