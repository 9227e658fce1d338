--------------------------- MODULE ObjectVersions ---------------------------
(***************************************************************************)
(* internal/versions.Manager over its Postgres store, with the callers     *)
(* that drive it in internal/server/versions.go (after a save, after an    *)
(* editing session) and internal/versions/http.go (name, rename, restore). *)
(*                                                                         *)
(* One document.  A caller is one request (or session-end goroutine); each *)
(* of its steps is one database statement, so that the steps of callers    *)
(* interleave as the server's goroutines do.  The per-object mutex is      *)
(* "lock"; taking it is merged with the first statement it protects.       *)
(***************************************************************************)
EXTENDS VersionRows

CONSTANTS
    Callers,       \* concurrent requests of this document
    NoCaller,      \* the lock is free
    MaxNamed,      \* Policy.MaxNamed; 0 means no cap
    Reloads,       \* TRUE for sheets: afterSave loads the stored document
    MaxRequests,   \* bound: requests started
    MaxClock       \* bound: ticks of the clock

ASSUME VersionsAssumption ==
    /\ NoCaller \notin Callers
    /\ MaxNamed \in Nat
    /\ Reloads \in BOOLEAN
    /\ MaxRequests \in Nat
    /\ MaxClock \in Nat

VARIABLES
    doc,      \* the live document (sheets/slides/whiteboards *_documents.data)
    lock,     \* the holder of Manager.locks[document], or NoCaller
    pc,       \* the statement each caller executes next
    op,       \* the call each caller is in
    data,     \* the blob each caller carries (read or saved earlier)
    ver,      \* the version (row number) each caller works on, 0 for none
    read,     \* Rename: what Get returned of the version
    wants,    \* Rename: whether the requested label is non-empty
    covers,   \* history: the version snapshotIfDue found or stored a restore's
              \* content in, 0 until it has
    requests  \* requests started so far

request == <<op, data, ver, read, wants>>
local == <<request, covers>>
vars == <<rows, clock, doc, lock, pc, local, requests>>

History == INSTANCE VersionHistory

-----------------------------------------------------------------------------
Ops == {"save", "session", "name", "rename", "restore"}

Steps == {"idle", "due", "load", "snapshot", "insert", "prune", "count",
          "latest", "promote", "insertNamed", "renameCount", "setLabel",
          "restoreGet", "apply", "record"}

(* The steps a caller executes with the document's mutex held.             *)
Locked == {"insert", "prune", "latest", "promote", "insertNamed"}

Named == {i \in DOMAIN rows : rows[i].kept /\ rows[i].named}

AtNamedCap == MaxNamed > 0 /\ Cardinality(Named) >= MaxNamed

Goto(c, step) == pc' = [pc EXCEPT ![c] = step]

Release(c) == lock' = IF lock = c THEN NoCaller ELSE lock

(* Start of a request or of a session-end goroutine.                       *)
Start(c, call) ==
    /\ pc[c] = "idle"
    /\ requests < MaxRequests
    /\ requests' = requests + 1
    /\ op' = [op EXCEPT ![c] = call]

(* Where a caller goes once its snapshot has been taken or skipped.        *)
AfterSnapshot(c) == IF op[c] = "restore" THEN "apply" ELSE "idle"

(* The version that holds what a restore is about to overwrite.            *)
CoveredBy(c, i) ==
    covers' = IF op[c] = "restore" THEN [covers EXCEPT ![c] = i] ELSE covers

-----------------------------------------------------------------------------
(* A save stores the document; versionedSlides.SaveDeck etc. then call     *)
(* afterSave with the saved content; sheets pass "", and whoever saves ""  *)
(* does too, for afterSave to load the stored document.                    *)
Save(c, d) ==
    /\ Start(c, "save")
    /\ doc' = d
    /\ data' = [data EXCEPT ![c] = d]
    /\ Goto(c, "due")
    /\ UNCHANGED <<rows, clock, lock, ver, read, wants, covers>>

(* afterSave: Manager.Due looks at the newest version, without the lock.   *)
Due(c) ==
    /\ pc[c] = "due"
    /\ Goto(c, IF ~Aged("save") THEN "idle"
               ELSE IF Reloads \/ data[c] = Empty THEN "load" ELSE "snapshot")
    /\ UNCHANGED <<rows, clock, doc, lock, local, requests>>

(* The goroutine of sessionEnded, after its delay.                         *)
SessionEnded(c) ==
    /\ Start(c, "session")
    /\ Goto(c, "load")
    /\ UNCHANGED <<rows, clock, doc, lock, data, ver, read, wants, covers>>

(* versionsWiring.load: the stored document as it is now.                  *)
Load(c) ==
    /\ pc[c] = "load"
    /\ data' = [data EXCEPT ![c] = doc]
    /\ Goto(c, "snapshot")
    /\ UNCHANGED <<rows, clock, doc, lock, op, ver, read, wants, covers, requests>>

-----------------------------------------------------------------------------
(* snapshotIfDue returns before it locks when the blob is empty or large.  *)
SnapshotSkipped(c) ==
    /\ pc[c] = "snapshot"
    /\ ~Snapshottable(data[c])
    /\ Goto(c, AfterSnapshot(c))
    /\ UNCHANGED <<rows, clock, doc, lock, local, requests>>

(* Mutant of SnapshotIfDue: the newest version is read without the lock.   *)
SnapshotUnlocked(c) ==
    /\ pc[c] = "snapshot"
    /\ Snapshottable(data[c])
    /\ IF Fresh(data[c]) /\ Aged(op[c])
         THEN Goto(c, "insert") /\ UNCHANGED covers
         ELSE Goto(c, AfterSnapshot(c)) /\ CoveredBy(c, Len(rows))
    /\ UNCHANGED <<rows, clock, doc, lock, request, requests>>

(* snapshotIfDue locks and decides on the newest version.                  *)
SnapshotIfDue(c) ==
    /\ pc[c] = "snapshot"
    /\ Snapshottable(data[c])
    /\ lock = NoCaller
    /\ IF Fresh(data[c]) /\ Aged(op[c])
         THEN Goto(c, "insert") /\ lock' = c /\ UNCHANGED covers
         ELSE Goto(c, AfterSnapshot(c)) /\ CoveredBy(c, Len(rows)) /\ UNCHANGED lock
    /\ UNCHANGED <<rows, clock, doc, request, requests>>

(* Manager.insert of an auto snapshot: Store.Insert ...                    *)
InsertAuto(c) ==
    /\ pc[c] = "insert"
    /\ rows' = Append(rows, AutoRow(data[c], op[c], clock))
    /\ CoveredBy(c, Len(rows) + 1)
    /\ IF MaxAuto > 0
         THEN Goto(c, "prune") /\ UNCHANGED lock
         ELSE Goto(c, AfterSnapshot(c)) /\ Release(c)
    /\ UNCHANGED <<clock, doc, request, requests>>

(* Mutant of PruneAuto: the lock is not released after pruning.            *)
PruneAutoKeepsLock(c) ==
    /\ pc[c] = "prune"
    /\ History!Prune
    /\ Goto(c, AfterSnapshot(c))
    /\ UNCHANGED <<doc, lock, local, requests>>

(* ... then, in a statement of its own, Store.PruneAuto.                   *)
PruneAuto(c) ==
    /\ pc[c] = "prune"
    /\ History!Prune
    /\ Goto(c, AfterSnapshot(c))
    /\ Release(c)
    /\ UNCHANGED <<doc, local, requests>>

-----------------------------------------------------------------------------
(* Handler.ServeHTTP resolves the document, reading its content, before it *)
(* calls NameCurrent or Restore.                                           *)
Resolve(c, call) ==
    /\ Start(c, call)
    /\ data' = [data EXCEPT ![c] = doc]
    /\ Goto(c, IF call = "name" THEN "count" ELSE "restoreGet")
    /\ UNCHANGED <<rows, clock, doc, lock, ver, read, wants, covers>>

(* NameCurrent refuses a blob over MaxBytes, before it locks.              *)
NameTooLarge(c) ==
    /\ pc[c] = "count"
    /\ data[c] \in Oversized
    /\ Goto(c, "idle")
    /\ UNCHANGED <<rows, clock, doc, lock, local, requests>>

(* NameCurrent locks and counts the named versions.                        *)
NameCount(c) ==
    /\ pc[c] = "count"
    /\ data[c] \notin Oversized
    /\ lock = NoCaller
    /\ IF AtNamedCap THEN Goto(c, "idle") /\ UNCHANGED lock
                     ELSE Goto(c, "latest") /\ lock' = c
    /\ UNCHANGED <<rows, clock, doc, local, requests>>

(* Mutant of NameLatest: an off-by-one on the version labelled.            *)
NameAfterLatest(c) ==
    /\ pc[c] = "latest"
    /\ IF ~Fresh(data[c]) /\ ~Latest.named
         THEN Goto(c, "promote") /\ ver' = [ver EXCEPT ![c] = Len(rows) + 1]
         ELSE Goto(c, "insertNamed") /\ UNCHANGED ver
    /\ UNCHANGED <<rows, clock, doc, lock, op, data, read, wants, covers, requests>>

(* The newest version is labelled in place when it holds this content.     *)
NameLatest(c) ==
    /\ pc[c] = "latest"
    /\ IF ~Fresh(data[c]) /\ ~Latest.named
         THEN Goto(c, "promote") /\ ver' = [ver EXCEPT ![c] = Len(rows)]
         ELSE Goto(c, "insertNamed") /\ UNCHANGED ver
    /\ UNCHANGED <<rows, clock, doc, lock, op, data, read, wants, covers, requests>>

Promote(c) ==
    /\ pc[c] = "promote"
    /\ rows' = [rows EXCEPT ![ver[c]].named = TRUE, ![ver[c]].auto = FALSE]
    /\ Goto(c, "idle")
    /\ Release(c)
    /\ UNCHANGED <<clock, doc, local, requests>>

InsertNamed(c) ==
    /\ pc[c] = "insertNamed"
    /\ rows' = Append(rows, NamedRow(data[c], "name", clock))
    /\ Goto(c, "idle")
    /\ Release(c)
    /\ UNCHANGED <<clock, doc, local, requests>>

-----------------------------------------------------------------------------
(* Rename takes no lock.  Get of a pruned version is ErrNotFound, which    *)
(* ends the call, so only kept versions are worth starting with.           *)
RenameGet(c, i, want) ==
    /\ Start(c, "rename")
    /\ rows[i].kept
    /\ ver' = [ver EXCEPT ![c] = i]
    /\ read' = [read EXCEPT ![c] = [named |-> rows[i].named, auto |-> rows[i].auto]]
    /\ wants' = [wants EXCEPT ![c] = want]
    /\ Goto(c, IF want /\ ~rows[i].named /\ MaxNamed > 0 THEN "renameCount"
                                                         ELSE "setLabel")
    /\ UNCHANGED <<rows, clock, doc, lock, data, covers>>

RenameCount(c) ==
    /\ pc[c] = "renameCount"
    /\ Goto(c, IF AtNamedCap THEN "idle" ELSE "setLabel")
    /\ UNCHANGED <<rows, clock, doc, lock, local, requests>>

(* Mutant of RenamedAuto: a new label leaves the auto flag as it was.      *)
RenamedStaysAuto(c) == read[c].auto

(* Mutant of SetLabel: a version pruned in the meantime is written back.   *)
SetLabelRevives(c) ==
    /\ pc[c] = "setLabel"
    /\ rows' = [rows EXCEPT ![ver[c]].named = wants[c],
                            ![ver[c]].auto = read[c].auto /\ ~wants[c],
                            ![ver[c]].kept = TRUE]
    /\ Goto(c, "idle")
    /\ UNCHANGED <<clock, doc, lock, local, requests>>

(* The auto flag written is the one Get returned; a version pruned in      *)
(* between is ErrNotFound.                                                 *)
RenamedAuto(c) == read[c].auto /\ ~wants[c]

SetLabel(c) ==
    /\ pc[c] = "setLabel"
    /\ rows' = IF rows[ver[c]].kept
                 THEN [rows EXCEPT ![ver[c]].named = wants[c],
                                   ![ver[c]].auto = RenamedAuto(c)]
                 ELSE rows
    /\ Goto(c, "idle")
    /\ UNCHANGED <<clock, doc, lock, local, requests>>

-----------------------------------------------------------------------------
(* Restore reads the source version, snapshots the content Resolve read    *)
(* (gap 0), writes the source's content to the document and appends a      *)
(* version for the restore, past no cap.                                   *)
RestoreGet(c, i) ==
    /\ pc[c] = "restoreGet"
    /\ rows[i].kept
    /\ ver' = [ver EXCEPT ![c] = i]
    /\ Goto(c, "snapshot")
    /\ UNCHANGED <<rows, clock, doc, lock, op, data, read, wants, covers, requests>>

(* The version asked for was pruned, or never existed: ErrNotFound.        *)
RestoreMissing(c) ==
    /\ pc[c] = "restoreGet"
    /\ Goto(c, "idle")
    /\ UNCHANGED <<rows, clock, doc, lock, local, requests>>

Apply(c) ==
    /\ pc[c] = "apply"
    /\ doc' = rows[ver[c]].data
    /\ Goto(c, "record")
    /\ UNCHANGED <<rows, clock, lock, local, requests>>

RecordRestore(c) ==
    /\ pc[c] = "record"
    /\ lock = NoCaller
    /\ rows' = Append(rows, NamedRow(rows[ver[c]].data, "restored", clock))
    /\ Goto(c, "idle")
    /\ UNCHANGED <<clock, doc, lock, local, requests>>

(* A statement fails (the client went away and its context is cancelled,   *)
(* the database is down, Kind.Save answers ErrForbidden, the process dies):*)
(* every error ends the call and the deferred unlock runs.                 *)
Fail(c) ==
    /\ pc[c] # "idle"
    /\ Goto(c, "idle")
    /\ Release(c)
    /\ UNCHANGED <<rows, clock, doc, local, requests>>

Tick ==
    /\ clock < MaxClock
    /\ clock' = clock + 1
    /\ UNCHANGED <<rows, doc, lock, pc, local, requests>>

-----------------------------------------------------------------------------
Init ==
    /\ rows = <<>>
    /\ clock = 0
    /\ doc = Empty
    /\ lock = NoCaller
    /\ pc = [c \in Callers |-> "idle"]
    /\ op = [c \in Callers |-> "save"]
    /\ data = [c \in Callers |-> Empty]
    /\ ver = [c \in Callers |-> 0]
    /\ read = [c \in Callers |-> [named |-> FALSE, auto |-> FALSE]]
    /\ wants = [c \in Callers |-> FALSE]
    /\ covers = [c \in Callers |-> 0]
    /\ requests = 0

Arrive(c) ==
    \/ \E d \in Contents : Save(c, d)
    \/ SessionEnded(c)
    \/ \E call \in {"name", "restore"} : Resolve(c, call)
    \/ \E i \in DOMAIN rows, want \in BOOLEAN : RenameGet(c, i, want)

Proceed(c) ==
    \/ Due(c) \/ Load(c)
    \/ SnapshotSkipped(c) \/ SnapshotIfDue(c) \/ InsertAuto(c) \/ PruneAuto(c)
    \/ NameTooLarge(c) \/ NameCount(c) \/ NameLatest(c) \/ Promote(c) \/ InsertNamed(c)
    \/ RenameCount(c) \/ SetLabel(c)
    \/ \E i \in DOMAIN rows : RestoreGet(c, i)
    \/ RestoreMissing(c) \/ Apply(c) \/ RecordRestore(c)

Next ==
    \/ \E c \in Callers : Arrive(c) \/ Proceed(c) \/ Fail(c)
    \/ Tick

Spec == Init /\ [][Next]_vars

(* sync.Mutex hands the lock over to a goroutine that has waited for long  *)
(* (its starvation mode), and every statement ends: strong fairness of     *)
(* each call's own steps.                                                  *)
Fairness == \A c \in Callers : SF_vars(Proceed(c))

FairSpec == Spec /\ Fairness

-----------------------------------------------------------------------------
TypeOK ==
    /\ rows \in Seq(Row)
    /\ clock \in Nat
    /\ doc \in Contents
    /\ lock \in Callers \cup {NoCaller}
    /\ pc \in [Callers -> Steps]
    /\ op \in [Callers -> Ops]
    /\ data \in [Callers -> Contents]
    /\ ver \in [Callers -> Nat]
    /\ \A c \in Callers : ver[c] <= Len(rows)
    /\ read \in [Callers -> [named : BOOLEAN, auto : BOOLEAN]]
    /\ wants \in [Callers -> BOOLEAN]
    /\ covers \in [Callers -> Nat]
    /\ requests \in Nat

(* "so two concurrent saves can't both pass the throttle": a snapshot is   *)
(* at least the gap of its kind younger than the version before it, however*)
(* the calls that decided on them overlapped (lock, snapshotIfDue).        *)
AutoSpacing ==
    \A i, j \in DOMAIN rows :
        (j = i + 1 /\ rows[j].why \in Snapshots)
            => rows[j].at - rows[i].at >= Gap(rows[j].why)

(* AutoSnapshot's "never twice for the same content": a snapshot never     *)
(* repeats the version it follows, even when that one was named, renamed   *)
(* or restored while the snapshot was being decided.                       *)
NoRepeatedSnapshot ==
    \A i, j \in DOMAIN rows :
        (j = i + 1 /\ rows[j].why \in Snapshots) => rows[j].data # rows[i].data

(* "named versions are kept" (migration 0095): whatever Rename, NameCurrent*)
(* and PruneAuto do to a version at once, one with a label is never an     *)
(* auto snapshot and never deleted.                                        *)
NamedAreKept ==
    \A i \in DOMAIN rows : rows[i].named => rows[i].kept /\ ~rows[i].auto

(* Retention never deletes the newest version, which the throttle and the  *)
(* de-duplication of the next snapshot are judged against.                 *)
NewestKept == rows # <<>> => Latest.kept

(* The snapshots taken after version i of a history.                       *)
Later(history, i) == {j \in DOMAIN history : j > i /\ history[j].why \in Snapshots}

(* Version i of it holds content d, and is still stored unless retention   *)
(* has had to make room for MaxAuto later snapshots.                       *)
Holds(history, i, d) ==
    /\ i \in DOMAIN history
    /\ history[i].data = d
    /\ history[i].kept \/ (MaxAuto > 0 /\ Cardinality(Later(history, i)) >= MaxAuto)

(* Restore's "Keep what is about to be overwritten (ignores the throttle)":*)
(* from its snapshot on to the end of the call, whatever is saved, named,  *)
(* renamed and pruned meanwhile, the version its content was found or      *)
(* stored in still holds it, unless MaxAuto (100) snapshots were taken     *)
(* since.  Content that is never snapshotted (empty, too large) is excepted*)
RestoreCovered ==
    \A c \in Callers :
        pc[c] \in {"apply", "record"} /\ Snapshottable(data[c])
            => Holds(rows, covers[c], data[c])

(* The concurrent manager is a history that adds whole snapshots one at a  *)
(* time, each decided against the newest version at that very moment.      *)
HistoryIsAtomic == History!Spec

(* No call waits forever: Restore, which takes the document's lock twice,  *)
(* does not wait for itself, and every early return releases it.           *)
EveryCallReturns == \A c \in Callers : pc[c] # "idle" ~> pc[c] = "idle"
=============================================================================
