CONSTANTS
    MAX_ROWS = 4
    MAX_COLS = 3
    Null = Null
    MaxOps = 2
    Homes <- MCHomes
    Others <- MCOthers
SPECIFICATION Spec
INVARIANTS
    TitlesFollow
CHECK_DEADLOCK FALSE
