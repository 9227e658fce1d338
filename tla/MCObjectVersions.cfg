SPECIFICATION Spec
CONSTANTS
    c1 = c1
    c2 = c2
    c3 = c3
    a = a
    b = b
    Contents = {empty, a, b}
    Empty = empty
    Oversized = {}
    AutoInterval = 2
    SessionGap = 1
    MaxAuto = 1
    Callers = {c1, c2, c3}
    NoCaller = none
    MaxNamed = 1
    Reloads = FALSE
    MaxRequests = 4
    MaxClock = 2
SYMMETRY Symmetry
CHECK_DEADLOCK FALSE
INVARIANTS
    TypeOK
    AutoSpacing
    NoRepeatedSnapshot
    NamedAreKept
    NewestKept
    RestoreCovered
