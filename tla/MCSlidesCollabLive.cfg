SPECIFICATION FairSpec
CONSTANTS
    a = a
    b = b
    x = x
    y = y
    Clients = {a}
    Cells = {x}
    Keys <- OneCell
    NoDeck = NoDeck
    SoftMax = 0
    HardMax = 1
    Restores = TRUE
    PeerQueue = 2
    MaxOps = 2
    MaxEvents = 2
CHECK_DEADLOCK FALSE
INVARIANTS
    InOrder
PROPERTIES
    EditsSettle
