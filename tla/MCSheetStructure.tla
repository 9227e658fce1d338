--------------------------- MODULE MCSheetStructure ---------------------------
EXTENDS SheetStructure

Block(r1, r2, c1, c2) == [row |-> [lo |-> r1, hi |-> r2], col |-> [lo |-> c1, hi |-> c2]]

MCHomes == {Block(0, 1, 0, 1), Block(1, 1, 1, 1), Block(1, 2, 0, 0), Block(0, 0, 1, 2)}
MCOthers == {Block(2, 2, 1, 2)}
=============================================================================
