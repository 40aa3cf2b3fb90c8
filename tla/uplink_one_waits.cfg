\* One call of SpeechRec.
SPECIFICATION Spec
CONSTANTS
    Chunk = 1
    ReadSizes = {1}
    MinWav = 3
    BufSize = 6
    DrainPiece = 1
    MinSend = 1
    QuietMax = 1
    LedOn = 1
    Sessions = 1
INVARIANT WaitsForSender
CHECK_DEADLOCK FALSE
