SPECIFICATION Spec
CONSTANTS
    a = a
    b = b
    ua = ua
    ub = ub
    Tabs = {a, b}
    Users = {ua, ub}
    Owner <- Apart
    None = None
    QueueCap = 4
    Devices = {a, b}
    MaxEvents = 2
INVARIANTS
    TypeOK
    MeshComplete
    NoGhosts
    MuteShown
    OneCaller
PROPERTIES
    Attends
CHECK_DEADLOCK FALSE
