SPECIFICATION FairSpec
CONSTANTS
    Clients = {c1, c2, c3}
    Null = Null
    USER_LIMIT = 2
    MaxRx = 1
INVARIANTS TableExact
PROPERTIES LeaversRemoved Served RoomSpec
CHECK_DEADLOCK FALSE
