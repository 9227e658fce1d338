----------------------------- MODULE VersionRows -----------------------------
(***************************************************************************)
(* The grown.object_versions rows of one document, what Manager reads of   *)
(* them (the newest version, the auto snapshots to prune) and the policy   *)
(* a snapshot has to satisfy.                                              *)
(***************************************************************************)
EXTENDS Naturals, Sequences, FiniteSets

CONSTANTS
    Contents,      \* what a document's stored blob can be
    Empty,         \* the blob "", which is never snapshotted
    Oversized,     \* the blobs larger than Policy.MaxBytes
    AutoInterval,  \* Policy.AutoInterval, in ticks of the clock
    SessionGap,    \* Policy.SessionGap
    MaxAuto        \* Policy.MaxAuto; 0 keeps every auto snapshot

ASSUME HistoryAssumption ==
    /\ Empty \in Contents
    /\ Oversized \subseteq Contents
    /\ AutoInterval \in Nat
    /\ SessionGap \in Nat
    /\ MaxAuto \in Nat

VARIABLES
    rows,   \* the versions ever inserted, oldest first; a pruned one is not kept
    clock

-----------------------------------------------------------------------------
(* A row is one grown.object_versions row. "why" says which call inserted  *)
(* it; "named" is label <> ''; "kept" turns FALSE when the row is deleted. *)

Snapshots == {"save", "session", "restore"}

Row == [data : Contents, named : BOOLEAN, auto : BOOLEAN, at : Nat,
        why : Snapshots \cup {"name", "restored"}, kept : BOOLEAN]

AutoRow(d, why, now) ==
    [data |-> d, named |-> FALSE, auto |-> TRUE, at |-> now, why |-> why, kept |-> TRUE]

NamedRow(d, why, now) ==
    [data |-> d, named |-> TRUE, auto |-> FALSE, at |-> now, why |-> why, kept |-> TRUE]

(* Mutant of Gap: a restore's snapshot is throttled like a save's.         *)
GapThrottlesRestore(why) == IF why = "session" THEN SessionGap ELSE AutoInterval

Gap(why) == CASE why = "save" -> AutoInterval
              [] why = "session" -> SessionGap
              [] OTHER -> 0

Snapshottable(d) == d # Empty /\ d \notin Oversized

(* The newest version, by created_at. PruneAuto never removes it (see      *)
(* NewestKept in ObjectVersions), so it is the last row ever inserted.     *)
Latest == rows[Len(rows)]

Aged(why) == rows = <<>> \/ clock - Latest.at >= Gap(why)

(* Mutant of Fresh: only auto snapshots are compared with.                 *)
FreshAmongAutos(d) == rows = <<>> \/ ~Latest.auto \/ Latest.data # d

Fresh(d) == rows = <<>> \/ Latest.data # d

Autos == {i \in DOMAIN rows : rows[i].kept /\ rows[i].auto}

(* Mutant of Prunable: an off-by-one counts a snapshot among those newer   *)
(* than itself.                                                            *)
PrunableOffByOne == {i \in Autos : Cardinality({j \in Autos : j >= i}) >= MaxAuto}

(* The auto snapshots beyond the newest MaxAuto.                           *)
Prunable == {i \in Autos : Cardinality({j \in Autos : j > i}) >= MaxAuto}
=============================================================================
