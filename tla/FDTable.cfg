SPECIFICATION Spec
CONSTANTS
    Actors = {"a", "b", "c"}
    Tables = {"parent", "child"}
    TableOf <- ForkTableOf
    Root = "parent"
    Files = {f1, f2}
    MaxFd = 2
    StdFds = {0}
    Failures = {"file", "space", "task"}
    Null = Null
    Err = Err
CHECK_DEADLOCK FALSE
SYMMETRY FileSymmetry
INVARIANTS FileLifetime SlotsClean LastDropReleases
