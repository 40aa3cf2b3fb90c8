SPECIFICATION FairSpec
CONSTANTS
    maxBullets = 2
    maxEnemies = 2
    Width = 8
    MIN_Y = 0
    MAX_Y = 1
    MAX_X = 6
    Ship = 2
    Size = 2
    HomeY = 0
    MY_SPEED = 3
    MY_LIVES = 1
    BulletSpeed = 1
    InitialSpeed = 1
    InitialChance = 2
    InitialDelay = 12
    ChanceStep = 3
    DelayStep = 8
    Points = 1
    LevelEvery = 2
    Word = 64
    FrameTimes = {2, 3}
    TopScore = 5
INVARIANTS
    TypeOK
    LevelMatchesScore
    CollisionsSettled
PROPERTIES
    FlyingBulletKept
    NoneSlipsThrough
    EnemyLeaves
