SPECIFICATION MCFairSpec
CONSTANTS
    c1 = c1
    c2 = c2
    Chan = {c1}
    Programs <- SyncPrograms
    Alphabet <- Calls1
    MaxCalls = 0
    CrashCalls = 0
    Contract = FALSE
    StagingSize = 2
    StreamSize = 0
    PipeSize = 2
    CtrMax = 9
    IsServer <- AliceServes
    Traced <- Nobody
    Tls = TRUE
    IgnoreSigpipe = TRUE
    MayCrash = FALSE
PROPERTY Termination
CHECK_DEADLOCK FALSE
