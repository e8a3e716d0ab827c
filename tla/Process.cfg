SPECIFICATION ProcessSpec
CONSTANTS
    Workers = {w1, w2}
    Main = main
    MaxTasks = 3
    MaxBatches = 2
    Callers = {t1, t2}
    Names = {n1}
    Dirs = 2
    Programs = {p, q}
    MaxCalls = 2
    MaxEdits = 2
    None = None
    Stems = {1, 2, 3}
    Versions = {"v", "w"}
    MaxRuns = 3
    MaxTreeEdits = 1
INVARIANTS
    TasksAccounted
    JoinsWait
    OneProgramPerName
    ManifestsTruthful
PROPERTIES
    ProcessEnds
CHECK_DEADLOCK FALSE
