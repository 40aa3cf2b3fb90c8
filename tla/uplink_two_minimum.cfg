\* Two calls of SpeechRec, the sender of the first possibly left over.
SPECIFICATION Spec
CONSTANTS
    Chunk = 1
    ReadSizes = {1}
    MinWav = 3
    BufSize = 3
    DrainPiece = 1
    MinSend = 1
    QuietMax = 0
    LedOn = 1
    Sessions = 2
INVARIANT StopsAfterMinimum
CHECK_DEADLOCK FALSE
