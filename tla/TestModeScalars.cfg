SPECIFICATION TestSpec
CONSTANTS
    Threads = {main, w1, w2}
    MainThread = main
    Strays = {}
    Spawners = {}
    Quiescent = TRUE
    MaxDraws = 3
    MaxSpawns = 3
    MaxResets = 1
    MaxToggles = 0
    NoLane = NoLane
INVARIANT ScalarsFollowLanes
CHECK_DEADLOCK FALSE
