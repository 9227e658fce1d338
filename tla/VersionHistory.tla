--------------------------- MODULE VersionHistory ---------------------------
(***************************************************************************)
(* What the version history of one document promises: a log of versions    *)
(* to which whole snapshots are added one at a time, each decided against  *)
(* the newest version and the clock of the very moment it is added.        *)
(* ObjectVersions, where every decision takes several database statements  *)
(* of concurrent requests, is shown to implement this specification.       *)
(***************************************************************************)
EXTENDS VersionRows

Snapshot(d, why) ==
    /\ Snapshottable(d) /\ Aged(why) /\ Fresh(d)
    /\ rows' = Append(rows, AutoRow(d, why, clock))
    /\ UNCHANGED clock

AddNamed(d, why) ==
    /\ rows' = Append(rows, NamedRow(d, why, clock))
    /\ UNCHANGED clock

(* A named version is never left prunable.                                 *)
Relabel(i, named, auto) ==
    /\ rows[i].kept
    /\ ~(named /\ auto)
    /\ rows' = [rows EXCEPT ![i].named = named, ![i].auto = auto]
    /\ UNCHANGED clock

Prune ==
    /\ MaxAuto > 0
    /\ rows' = [i \in DOMAIN rows |->
                   IF i \in Prunable THEN [rows[i] EXCEPT !.kept = FALSE] ELSE rows[i]]
    /\ UNCHANGED clock

Tick == clock' = clock + 1 /\ UNCHANGED rows

Init == rows = <<>> /\ clock = 0

Next ==
    \/ \E d \in Contents, why \in Snapshots : Snapshot(d, why)
    \/ \E d \in Contents, why \in {"name", "restored"} : AddNamed(d, why)
    \/ \E i \in DOMAIN rows, named, auto \in BOOLEAN : Relabel(i, named, auto)
    \/ Prune
    \/ Tick

Spec == Init /\ [][Next]_<<rows, clock>>
=============================================================================
