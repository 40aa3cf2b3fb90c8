SPECIFICATION FairSpec
CONSTANTS
    Word = 32
    IntHalf = 8
    Second = 3
    Secs = {0, 1, 2, 4}
    Notes = {0, 2, 6}
    Durations = {0, 2, 3}
    Moves = {1, 2, 5}
    Pauses = {1, 7}
INVARIANTS
    TypeOK
    StopsInTime
    UsesItsTime
    MotorStopsInTime
PROPERTIES
    CallReturns
