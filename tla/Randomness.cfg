SPECIFICATION RandomnessSpec
CONSTANTS
    BatchSize = 4
    Reuse = TRUE
    ReuseShift = 3
    Bucket <- ReuseBucket
    Lanes = {1, 2, 4}
    Starts = {"s1", "s2"}
    MaxGid = 8
    Schemes = {"half", "free"}
    GarblerBatch = 2
    EvaluatorBatch = 4
    KeySpan = 2
    Inputs = 2
    MaxGates = 2
    FreeLows = 1
    BufBytes = 3
    MaxPut = 4
    MaxMessage = 9
    Byte = {0, 1}
    LenBytes = 2
    Radix = 6
    DomainLens = {0, 1}
    BlockLen = 2
    U64Len = 1
    PointLens = {2}
    MaxLen = 2
    MaxFields = 3
    Prgs = {"p", "q"}
    Keys = {"k"}
    BlockBytes = 4
    ByteBits = 2
    GroupBytes = 2
    WordBytes = 2
    BufferBlocks = 2
    ChunkBlocks = 2
    AesBatch = 2
    MaxBlock = 4
    ByteSizes = {1, 9, 14}
    BitSizes = {21}
    Threads = {main, w1, w2}
    MainThread = main
    Strays = {w1}
    Spawners = {}
    Quiescent = TRUE
    MaxDraws = 3
    MaxSpawns = 2
    MaxResets = 1
    MaxToggles = 1
    NoLane = NoLane
INVARIANTS
    LanesKeyed
    EvaluatorFollows
    HashesMessage
    CallsAreSeparated
    
    SeedsReproduce
CHECK_DEADLOCK FALSE
