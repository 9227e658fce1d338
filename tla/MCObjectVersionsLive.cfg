SPECIFICATION FairSpec
CONSTANTS
    c1 = c1
    c2 = c2
    c3 = c3
    a = a
    b = b
    Contents = {empty, a, b, big}
    Empty = empty
    Oversized = {big}
    AutoInterval = 2
    SessionGap = 1
    MaxAuto = 1
    Callers = {c1, c2}
    NoCaller = none
    MaxNamed = 2
    Reloads = TRUE
    MaxRequests = 3
    MaxClock = 2
CHECK_DEADLOCK FALSE
PROPERTIES
    HistoryIsAtomic
    EveryCallReturns
