SPECIFICATION MCSpec
CONSTANTS
    Cpus = {c1, c2}
    Backends = {uart, fb}
    EventCap = 2
    MsgCap = 3
    RingCap = 3
    Lengths = {1, 2, 4}
    Levels = {1, 2}
    MaxMessages = 4
    MaxChars = 7
    Sectors = 3
    UsizeMod = 5
    IndexMod = 4
    Entries = 2
    MaxCalls = 3
    BootCpu = c0
    Secondaries = {c1}
    Trees <- MCTrees
    Cols = 3
    Rows = 3
    MaxEsc = 5
    U32Max = 1999
    OscSize = 2
    Events <- MCEvents
    MaxEvents = 3
    SizeMax = 2147483647
    CtxBytes = 760
    MaxK = 2000
    Builds <- MCBuilds
    Calls <- MCCalls
INVARIANTS CursorAndParserInBounds ScreenFollowsText PlacementSound ConsoleSound TransfersSound NoAnswerLost ResourcesBalanced NothingRunsEarly
CHECK_DEADLOCK FALSE
