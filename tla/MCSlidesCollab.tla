--------------------------- MODULE MCSlidesCollab ---------------------------
(* Small instances of SlidesCollab for TLC: see the .cfg files.            *)
EXTENDS SlidesOrder, TLC

CONSTANTS a, b, x, y

OneCell == {{x}}
CellOrDeck == {{x}, {x, y}}

(* Clients are interchangeable.                                            *)
Symmetry == Permutations({a, b})
=============================================================================
