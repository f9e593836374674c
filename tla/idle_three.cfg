SPECIFICATION Spec
CONSTANTS
    Timers = {c1, c2, c3}
    Null = Null
    TIMESLOT = 1
    MaxRx = 1
INVARIANTS ListExact
SYMMETRY Symmetry
CHECK_DEADLOCK FALSE
