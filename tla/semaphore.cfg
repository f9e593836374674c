SPECIFICATION SemFairSpec
CONSTANTS
    Procs = {p1, p2, p3}
    LOOPS = 2
    MaxStarts = 4
INVARIANTS Exclusion PermitKept
PROPERTIES WaitersServed
CHECK_DEADLOCK FALSE
