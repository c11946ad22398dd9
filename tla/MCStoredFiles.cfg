CONSTANTS
    Procs = {p1, p2}
    Inodes = {1, 2, 3, 4, 5, 6}
    MaxCrashes = 2
SPECIFICATION Spec
CHECK_DEADLOCK FALSE
SYMMETRY Symmetry
INVARIANTS
    IdentityIsWhole
    RuntimeIsWhole
