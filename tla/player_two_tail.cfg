\* Two recordings, both answered with less than the player starts for.
SPECIFICATION Spec
CONSTANTS
    MaxWav = 10
    StartAt = 4
    Prebuffer = 5
    Piece = 2
    Patience = 2
    EmptyCost = 2
    FrameSizes = {3}
    Frames = 1
    Requests = 2
INVARIANT AlmostAllPlayed
CHECK_DEADLOCK FALSE
