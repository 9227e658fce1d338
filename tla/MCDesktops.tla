----------------------------- MODULE MCDesktops -----------------------------
(* Small instances of Desktops for TLC: see the .cfg files.                *)
EXTENDS Desktops

CONSTANTS c1, c2, u1, u2

(* Two requests of one user.                                               *)
OneUser == [c \in Callers |-> u1]
=============================================================================
