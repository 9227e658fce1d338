SPECIFICATION FairSpec
CONSTANTS
    c1 = c1
    c2 = c2
    u1 = u1
    u2 = u2
    Callers = {c1, c2}
    Reaper = reaper
    Users = {u1}
    UserOf <- OneUser
    MaxPerUser = 2
    MaxSessions = 1
    MaxTouches = 1
    MaxFailures = 2
    MaxRestarts = 1
INVARIANTS
    TypeOK
    Accounted
    RunningIsUp
PROPERTIES
    SessionsEnd
