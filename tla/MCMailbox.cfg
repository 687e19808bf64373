CONSTANTS
    Args <- TwoArgs
    SeqMax = 3
    Ahead = 2
SPECIFICATION FairSpec
INVARIANTS
    ReplyWhole
    AckExact
PROPERTIES
    LoadTrue
    AnsweredInTheEnd
