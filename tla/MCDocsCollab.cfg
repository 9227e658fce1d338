SPECIFICATION Spec
CONSTANTS
    w1 = w1
    w2 = w2
    w3 = w3
    v = v
    Clients = {w1, w2, v}
    Writers = {w1, w2}
    QueueCap = 2
    OfflineEdits = FALSE
    MaxEdits = 1
    MaxOpens = 3
    MaxFailures = 1
SYMMETRY Symmetry
VIEW Relevant
CHECK_DEADLOCK FALSE
INVARIANTS
    TypeOK
    ViewersReadOnly
    SeenIsStored
    JoinersConverge
    NoRoomLeaks
