SPECIFICATION Spec
CONSTANTS
    Carrier = 3
    Widths = {1, 2, 3, 4}
    MaxLen = 7
    Keys = {0, 1, 2}
    Tiers = {1, 2, 4}
    RunSizes = {1, 2, 3, 5, 8, 15, 17, 31, 38, 67}
    FixedSizes = {1, 2, 3, 4, 6, 7, 8, 12, 16, 19, 23, 36}
    KeyCounts = {1, 2, 3}
    Spans = {1, 2, 3, 4}
    AesBatch = 64
    Counter0 = 5
    Gid0 = 7
    MaxSize = 13
    PackBits = {0, 1, 31, 56, 57, 63, 64, 120, 126, 127}
INVARIANTS
    
    BlocksExact
CHECK_DEADLOCK FALSE
