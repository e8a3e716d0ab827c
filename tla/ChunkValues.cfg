SPECIFICATION Spec
CONSTANTS
    Slot = {s1, s2}
    UINT32_MAX = 4
    Defers = TRUE
    Circuits <- MCCircuits
    Calls = {"And", "Xor", "Not", "batch", "input", "public_bit", "keep"}
SYMMETRY SlotSymmetry
INVARIANTS
    FlushFailsOnlyOnMisuse
PROPERTIES
    ImplementsClearSession
CHECK_DEADLOCK FALSE
