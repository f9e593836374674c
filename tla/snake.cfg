SPECIFICATION FairSpec
CONSTANTS
    COLS = 3
    LINES = 5
    Start <- MCStart
    WIN = 4
INVARIANTS ScreenTrue
PROPERTIES CrossesUnseen OneCellMoves Unsteered
CHECK_DEADLOCK FALSE
