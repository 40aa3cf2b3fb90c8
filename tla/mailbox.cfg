SPECIFICATION FairSpec
CONSTANTS
    Size = 5
    Longest = 6
    Tag = 2
    Frames = {0, 1, 2, 3, 4, 6, 8}
    Messages = 4
INVARIANTS
    TypeOK
    MixtureIsReplaced
PROPERTIES
    ImplementsLatestValue
CHECK_DEADLOCK FALSE
