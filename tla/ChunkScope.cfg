SPECIFICATION Spec
CONSTANTS
    Slot = {s1, s2, s3}
    UINT32_MAX = 4
    Defers = FALSE
    Circuits <- NoCircuits
    Calls = {"And", "copy", "input", "keep"}
SYMMETRY SlotSymmetry
INVARIANTS
    CarriedIsClear
    HandlesExact
    
    StaleIsLoud
PROPERTIES
    CheckpointIsExact
CHECK_DEADLOCK FALSE
