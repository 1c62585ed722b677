SPECIFICATION Spec
CONSTANTS
    Cpus = {"c1", "c2"}
    Threads = {"t1", "t2", "t3"}
    Locks = {1, 2}
    Home <- MCHome
    First <- MCFirst
    NoCpu = NoCpu
    NoLock = NoLock
INVARIANTS MutualExclusion NoPanic HolderRuns IrqStateRestored
