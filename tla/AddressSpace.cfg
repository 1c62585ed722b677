SPECIFICATION Spec
CONSTANTS
    Cpus = {c1, c2}
    Spaces = {s1, s2}
    Frames = {1, 2, 3, 4, 5, 6}
    Foreign = {100}
    NPages = 3
    MaxAllocs = 2
    Counts = {1, 2}
    Junk = TRUE
    Null = Null
SYMMETRY Symmetry
INVARIANTS FramesConserved SpacesConsistent
CHECK_DEADLOCK FALSE
