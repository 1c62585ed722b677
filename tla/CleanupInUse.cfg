SPECIFICATION Spec
CONSTANTS
    Cpus = {0, 1}
    Tasks = {"a", "d"}
    Home <- TwoHome
    Idle <- TwoIdle
    Cleanup <- TwoCleanup
    Null = Null
    BootCpu = 0
    MaxTime = 1
    SleepTimes = {1}
CHECK_DEADLOCK FALSE
INVARIANT FreedOnceAndUnused
