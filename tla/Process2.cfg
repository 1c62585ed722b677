SPECIFICATION Spec
CONSTANTS
    Cpus = {0, 1}
    Tasks = {"r", "p", "q"}
    Home <- TwoHome
    Idle <- TwoIdle
    Cleanup <- TwoCleanup
    Null = Null
    MaxTime = 0
    Procs = {"R", "P", "Q"}
    Queues = {"R", "P", "Q"}
    Root = "R"
    First = "r"
    Forkers = {"R"}
    Wild = Wild
    MayFail = TRUE
CHECK_DEADLOCK FALSE
INVARIANTS FamilyConsistent 
