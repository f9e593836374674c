SPECIFICATION FairSpec
CONSTANTS
    Tasks = {5, 6}
    Workers = {w1, w2}
    None = None
    WriteBuffer = 2
    MAX_FD = 2
    MaxRx = 1
    MaxBacklog = 1
    ReadBuffer = 2
    Segments = {"last"}
PROPERTIES EventHandled LifecycleSpec
CHECK_DEADLOCK FALSE
