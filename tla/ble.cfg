\* Two requests, answers from one piece to more than the ring.
SPECIFICATION FairSpec
CONSTANTS
    MaxWav = 10
    Unknown = 2
    Tenths = 6
    Piece = 2
    Patience = 2
    EmptyCost = 2
    Totals = {0, 2, 3, 7, 12}
    Garbled <- MCGarbled
    FrameSizes = {3}
    Requests = 2
INVARIANTS
    TypeOK
    NothingThrownAway
PROPERTIES
    PlayerComesBack
    AnswerIsPlayed
CHECK_DEADLOCK FALSE
