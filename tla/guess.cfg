SPECIFICATION Spec
CONSTANTS
    Clients = {c1, c2, c3}
    Null = Null
    MAX_DESK = 1
    DESK_MAXUSER = 2
    MAX_NUM = 1
    MaxBacklog = 1
    MaxTyped = 1
    MaxHaste = 1
    Ends = {"ended", "reset", "broken"}
SYMMETRY Symmetry
INVARIANTS TableExact GameAgreed
PROPERTIES SeatsKept TurnHandedOn
CHECK_DEADLOCK FALSE
