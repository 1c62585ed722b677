SPECIFICATION FairSpec
CONSTANTS
    Cpus = {0}
    Tasks = {"r", "p", "q"}
    Home <- OneHome
    Idle <- OneIdle
    Cleanup <- OneCleanup
    Null = Null
    MaxTime = 0
    Procs = {"R", "P", "Q"}
    Queues = {"R", "P", "Q"}
    Root = "R"
    First = "r"
    Forkers = {"R"}
    Wild = Wild
    MayFail = FALSE
INVARIANTS NoFault
PROPERTIES WaitReturns ExitingThreadsEnd
CHECK_DEADLOCK FALSE
