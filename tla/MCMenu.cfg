CONSTANTS
    Players <- TwoPlayers
    KeySets <- MCKeySets
    Slots = 2
    PageSize = 2
    Counts = {0, 1, 3}
SPECIFICATION Spec
INVARIANTS
    MenuInv
    ClosingKeySwallowed
PROPERTIES
    OpensByChord
    SafeRemove
