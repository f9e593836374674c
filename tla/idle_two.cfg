SPECIFICATION FairSpec
CONSTANTS
    Timers = {c1, c2}
    Null = Null
    TIMESLOT = 1
    MaxRx = 1
INVARIANTS ListExact AlarmPending
PROPERTIES IdleSpec Stops
CHECK_DEADLOCK FALSE
