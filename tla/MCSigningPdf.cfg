SPECIFICATION Spec
CONSTANTS
    a = a
    b = b
    Signers = {a, b}
    Order <- InTurn
    Calls = {c1, c2}
    None = None
    Owner = Owner
    MaxSends = 1
    MaxFailures = 1
SYMMETRY Twins
INVARIANTS
    PdfComplete
CHECK_DEADLOCK FALSE
