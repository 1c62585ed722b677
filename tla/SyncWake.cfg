SPECIFICATION Spec
CONSTANTS
    Cpus = {0, 1}
    Tasks = {"a", "b", "e", "d"}
    Home <- MCHome
    Idle <- MCIdle
    Cleanup <- MCCleanup
    Null = Null
    MaxTime = 0
    Queues = {"mutex", "semaphore", "completion"}
    InitialCount = 2
    Roles <- MCRoles
CHECK_DEADLOCK FALSE
INVARIANT WokenIsBlocked
