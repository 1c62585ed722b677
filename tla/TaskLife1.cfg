SPECIFICATION FairSpec
CONSTANTS
    Cpus = {0}
    Tasks = {"a", "b"}
    Home <- OneHome
    Idle <- OneIdle
    Cleanup <- OneCleanup
    Null = Null
    BootCpu = 0
    MaxTime = 3
    SleepTimes = {1, 2}
INVARIANTS SleepersSorted FreedOnceAndUnused
PROPERTIES ReadyRuns SleeperWakes
