----------------------------- MODULE MCMeetCall -----------------------------
(* Small instances of MeetCall for TLC: see the .cfg files.                *)
EXTENDS MeetPaths, TLC

CONSTANTS a, b, ua, ub

(* Two users with one tab each.                                            *)
Apart == a :> ua @@ b :> ub
=============================================================================
