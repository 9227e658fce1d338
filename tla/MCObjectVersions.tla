-------------------------- MODULE MCObjectVersions --------------------------
(* Small instances of ObjectVersions for TLC: see the .cfg files.          *)
EXTENDS ObjectVersions, TLC

CONSTANTS c1, c2, c3, a, b

(* Callers and the ordinary contents are interchangeable: no action and no *)
(* invariant tells one from another.                                       *)
Symmetry == Permutations({c1, c2, c3}) \cup Permutations({a, b})
=============================================================================
