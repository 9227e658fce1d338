SPECIFICATION Spec
CONSTANTS
    a = a
    b = b
    x = x
    y = y
    Clients = {a, b}
    Cells = {x}
    Keys <- OneCell
    NoDeck = NoDeck
    SoftMax = 0
    HardMax = 2
    Restores = FALSE
    PeerQueue = 2
    MaxOps = 2
    MaxEvents = 2
SYMMETRY Symmetry
CHECK_DEADLOCK FALSE
INVARIANTS
    UnsavedIsKept
