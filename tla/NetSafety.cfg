SPECIFICATION MCSpec
CONSTANTS
    c1 = c1
    c2 = c2
    Chan = {c1}
    Programs <- MCPrograms
    Alphabet <- Calls1
    MaxCalls = 0
    CrashCalls = 3
    Contract = FALSE
    StagingSize = 2
    StreamSize = 3
    PipeSize = 2
    CtrMax = 9
    IsServer <- AliceServes
    Traced <- Everyone
    Tls = FALSE
    IgnoreSigpipe = TRUE
    MayCrash = TRUE
INVARIANTS
    BuffersBounded
    InOrder
    NothingHeldBack
    
PROPERTIES
    ImplementsByteStream
CHECK_DEADLOCK FALSE
