\* Two recordings; the second may begin while the first answer arrives or plays.
SPECIFICATION FairSpec
CONSTANTS
    MaxWav = 7
    StartAt = 2
    Prebuffer = 5
    Piece = 2
    Patience = 2
    EmptyCost = 2
    FrameSizes = {2, 3}
    Frames = 3
    Requests = 2
INVARIANTS
    TypeOK
    FirstAnswerPlayed
    WholePieceThere
PROPERTY PlayerComesBack
\* The server may never answer, and the sketch records no more.
CHECK_DEADLOCK FALSE
