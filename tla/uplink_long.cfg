\* One call of SpeechRec, long enough to go round the ring, short reads
\* included.  The ring holds seven and a half chunks: the most a sender lags.
SPECIFICATION Spec
CONSTANTS
    Chunk = 2
    ReadSizes <- MCReadSizes
    MinWav = 30
    BufSize = 15
    DrainPiece = 1
    MinSend = 2
    QuietMax = 0
    LedOn = 0
    Sessions = 1
INVARIANTS
    EveryByteAccounted
    EveryChunkFits
PROPERTY
    ImplementsPipe
\* The sketch has made its last call and no sender is left.
CHECK_DEADLOCK FALSE
