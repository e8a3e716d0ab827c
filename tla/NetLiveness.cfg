SPECIFICATION MCFairSpec
CONSTANTS
    c1 = c1
    c2 = c2
    Chan = {c1, c2}
    Programs <- MCPrograms
    Alphabet <- Calls2
    MaxCalls = 4
    CrashCalls = 2
    Contract = TRUE
    StagingSize = 2
    StreamSize = 3
    PipeSize = 2
    CtrMax = 9
    IsServer <- AliceServes
    Traced <- Nobody
    Tls = FALSE
    IgnoreSigpipe = TRUE
    MayCrash = TRUE
PROPERTIES
    ContractTerminates
    PeerDeathNoticed
CHECK_DEADLOCK FALSE
