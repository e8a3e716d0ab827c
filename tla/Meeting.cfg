SPECIFICATION MeetingSpec
CONSTANTS
    Configs <- MCConfigs
    Clients = {a, b}
    Sessions = 2
    MaxRetries = 3
    Backlog = 4
    None = None
    ByteBits = 2
    GroupBytes = 2
    ChunkBits = 8
    MaxPoint = 2
    Bools = {0, 2}
    Lengths = {5, 11}
    MaxTrue = 1
    PointLens = {1, 3}
    MaxOps = 2
INVARIANTS
    HandshakeSound
    SessionsMatch
    TransferExact
PROPERTIES
    MeetingCompletes
CHECK_DEADLOCK FALSE
