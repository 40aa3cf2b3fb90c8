SPECIFICATION Spec
CONSTANTS
    Fields = {1, 2}
    Ids = {"a", "b"}
    Packets = 4
INVARIANTS
    TypeOK
    EachNumberOnce
    LastPacketRead
    MixtureIsReplaced
CHECK_DEADLOCK FALSE
