\* One call of SpeechRec, short reads included.
SPECIFICATION FairSpec
CONSTANTS
    Chunk = 2
    ReadSizes <- MCReadSizes
    MinWav = 6
    BufSize = 7
    DrainPiece = 1
    MinSend = 2
    QuietMax = 1
    LedOn = 2
    Sessions = 1
INVARIANTS
    TypeOK
    RecorderNeverLockedOut
    StopsAfterMinimum
PROPERTIES
    RecordingReturns
    LedGoesOut
\* The sketch has made its last call and no sender is left.
CHECK_DEADLOCK FALSE
