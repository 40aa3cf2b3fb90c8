SPECIFICATION FairSpec
CONSTANTS
    XMax = 11
    YMax = 9
    CPU_X = 3
    PLAYER_X = 8
    PADDLE_HEIGHT_JIKKO = 2
    PADDLE_HEIGHT_USER = 3
    maxScore = 2
    StartX = {5, 6}
    StartY = {4, 5}
    BallX = 5
    BallY = 4
    CpuY = 4
    PlayerY = 1
INVARIANTS
    TypeOK
    BallInCourt
    PaddlesInCourt
    PassedBallIsLost
    MatchEnds
PROPERTIES
    MatchGivesWay
