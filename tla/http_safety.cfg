SPECIFICATION Spec
CONSTANTS
    Tasks = {5, 6}
    Workers = {w1, w2}
    None = None
    WriteBuffer = 2
    MAX_FD = 2
    MaxRx = 1
    MaxBacklog = 1
    ReadBuffer = 3
    Segments = {"part", "last"}
SYMMETRY Symmetry
INVARIANTS TypeOK PermitPerTask OneHolder UserCountExact ReplyMatchesRequest
PROPERTIES OnlyLoopCloses
CHECK_DEADLOCK FALSE
