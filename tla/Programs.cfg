SPECIFICATION Spec
CONSTANTS
    MaxId = 5
    Widths = {0, 1}
    RecordOps = {"And", "Not", "Const1"}
    MaxGates = 5
    CachedGates = 1
    MaxArgs = 2
    MaxOutputs = 1
    MaxBodies = 2
    NumWires = 4
    NumInputs = {1}
    LoadedGates = 3
    LoadedOps = {"And", "Not"}
    Lanes = 2
    Instances = 3
    Units <- MCUnits
    ArgWidths <- MCArgWidths
    GlueOps = {"And", "Not", "Const1"}
    MaxEvents = 3
    ComposeMaxId = 6
    Radix = 5
    Programs <- MCFiles
    MaxSaves = 2
    MaxFlips = 1
    Imports = 3
    StaleIds = {3}
    ChunkGates = 3
    ChunkOps = {"And", "Not", "Const1"}
INVARIANTS
    BodiesAlike
    PassesSound
    ScratchUnseen
    ExecutorsAgree
    FlattenIsInline
    
    PlanExact
CHECK_DEADLOCK FALSE
