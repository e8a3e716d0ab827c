SPECIFICATION Spec
CONSTANTS
    Carrier = 64
    Inputs <- MCInputs
    Blocks <- MCBlocks
    States <- MCStates
    MessageBytes = {0, 1, 3, 54, 55, 56, 57, 63, 64, 65, 118, 119, 120, 134, 135, 136, 137, 272}
    StreamBits = {0, 1, 127, 128, 129, 256, 400}
    Counters <- MCCounters
    StartChunks <- MCStartChunks
    RowCounts = {8, 16, 24, 48}
    ColCounts = {8, 16, 24, 128}
    RowBlocks = {5}
INVARIANTS
    PrimitivesAreStandard
    DataInPlace
CHECK_DEADLOCK FALSE
