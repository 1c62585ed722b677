SPECIFICATION MCSpec
CONSTANTS
    Top = 28
    SizeMod = 64
    Header = 2
    PageSize = 4
    Base = 4
    Initial = 12
    MaxHeap = 24
    Sizes = {1, 2, 4, 40, 58, 61, 62, 63}
    MayFail = TRUE
    Nodes = {n1, n2, n3, n4}
    n1 = n1
    n2 = n2
    n3 = n3
    n4 = n4
    Null = Null
    Key <- MCKey
    Data = {d1, d2}
    MemMaps <- MCMemMaps
    KPage = 2
    Span = 4
    RegionPages <- MCRegions
    KSlots = 2
    DevAddrs = {81}
    DevSizes = {1, 2}
    MemSizes = {2, 4}
    Files <- MCFiles
    UPage = 4
    UserBase = 8
    UserEnd = 24
    UsizeMod = 64
    VaMod = 32
    TableSpan = 2
    UserFrames = 5
    UserSlots = 3
    CopySizes = {0, 1, 2, 4, 7, 40, 60}
    MaxCopies = 1
INVARIANTS HeapLayout KernelFramesConserved DeviceRangesMapped UserMemorySound ListSound ContentsKept
PROPERTIES KeepsPromise
CHECK_DEADLOCK FALSE
