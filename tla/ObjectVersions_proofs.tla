------------------------ MODULE ObjectVersions_proofs ------------------------
(***************************************************************************)
(* Proofs about ObjectVersions, for every set of callers, every content    *)
(* and every policy: its safety invariants, and that it implements         *)
(* VersionHistory.                                                         *)
(***************************************************************************)
EXTENDS ObjectVersions, TLAPS, SequenceTheorems, FiniteSetTheorems

-----------------------------------------------------------------------------
(* How the three ways of changing the rows act on each row.                *)

(* Two lists of rows agree on what no update of a row may change.          *)
SameHistory(s, t) ==
    /\ t \in Seq(Row)
    /\ Len(t) = Len(s)
    /\ \A i \in 1..Len(s) : /\ t[i].data = s[i].data
                            /\ t[i].at = s[i].at
                            /\ t[i].why = s[i].why

(* Store.Insert: the new row is the newest, the others are as they were.   *)
LEMMA AppendRow ==
    ASSUME NEW s \in Seq(Row), NEW r \in Row
    PROVE  /\ Append(s, r) \in Seq(Row)
           /\ Len(Append(s, r)) = Len(s) + 1
           /\ Append(s, r)[Len(s) + 1] = r
           /\ \A i \in 1..Len(s) : Append(s, r)[i] = s[i]
           /\ Append(s, r) # <<>>
  OBVIOUS

(* Store.SetLabel: one row's label and auto flag change, nothing else.     *)
LEMMA RelabelRow ==
    ASSUME rows \in Seq(Row), NEW i \in 1..Len(rows), NEW n \in BOOLEAN, NEW a \in BOOLEAN,
           rows' = [rows EXCEPT ![i].named = n, ![i].auto = a]
    PROVE  /\ SameHistory(rows, rows')
           /\ \A j \in 1..Len(rows) : rows'[j].kept = rows[j].kept
           /\ rows'[i].named = n /\ rows'[i].auto = a
           /\ \A j \in 1..Len(rows) : j # i => rows'[j] = rows[j]
<1>1. DOMAIN rows = 1..Len(rows) /\ \A j \in 1..Len(rows) : rows[j] \in Row
  OBVIOUS
<1>2. rows' = [rows EXCEPT ![i] = [rows[i] EXCEPT !.named = n, !.auto = a]]
  BY <1>1 DEF Row
<1>3. [rows[i] EXCEPT !.named = n, !.auto = a] \in Row
  BY <1>1 DEF Row
<1>4. rows' \in Seq(Row) /\ Len(rows') = Len(rows)
  <2> DEFINE r == [rows[i] EXCEPT !.named = n, !.auto = a]
  <2>1. r \in Row
    BY <1>3
  <2> HIDE DEF r
  <2>2. [rows EXCEPT ![i] = r] \in Seq(Row) /\ Len([rows EXCEPT ![i] = r]) = Len(rows)
    BY <2>1, ExceptSeq
  <2> QED BY <1>2, <2>2 DEF r
<1>5. \A j \in 1..Len(rows) :
         rows'[j] = IF j = i THEN [rows[i] EXCEPT !.named = n, !.auto = a] ELSE rows[j]
  BY <1>1, <1>2
<1> QED BY <1>1, <1>4, <1>5 DEF SameHistory, Row

(* Store.PruneAuto: only auto snapshots older than another kept one go.    *)
LEMMA PruneRows ==
    ASSUME rows \in Seq(Row), MaxAuto \in Nat, History!Prune
    PROVE  /\ SameHistory(rows, rows')
           /\ \A i \in 1..Len(rows) : /\ rows'[i].named = rows[i].named
                                      /\ rows'[i].auto = rows[i].auto
           /\ \A i \in 1..Len(rows) : ~rows[i].auto => rows'[i].kept = rows[i].kept
           /\ \A i \in 1..Len(rows) : rows[i].kept /\ ~rows'[i].kept
                 => MaxAuto > 0 /\ Cardinality({j \in Autos : j > i}) >= MaxAuto
           /\ rows # <<>> => rows'[Len(rows)].kept = rows[Len(rows)].kept
<1>1. DOMAIN rows = 1..Len(rows) /\ \A i \in 1..Len(rows) : rows[i] \in Row
  OBVIOUS
<1>2. MaxAuto > 0 /\ rows' = [i \in 1..Len(rows) |->
                   IF i \in Prunable THEN [rows[i] EXCEPT !.kept = FALSE] ELSE rows[i]]
  <2>1. \A S : History!Cardinality(S) = Cardinality(S)
    BY Zenon DEF History!Cardinality, Cardinality
  <2> QED BY <1>1, <2>1 DEF History!Prune, History!Prunable, History!Autos, Prunable, Autos
<1>3. \A i \in 1..Len(rows) :
         (IF i \in Prunable THEN [rows[i] EXCEPT !.kept = FALSE] ELSE rows[i]) \in Row
  BY <1>1 DEF Row
<1>4. rows' \in Seq(Row)
  BY <1>2, <1>3, IsASeq
<1>5. Len(rows') = Len(rows)
  BY <1>2
<1>6. ASSUME rows # <<>>  PROVE Len(rows) \notin Prunable
  <2>1. {j \in Autos : j > Len(rows)} = {}
    BY <1>1 DEF Autos
  <2>2. Cardinality({j \in Autos : j > Len(rows)}) = 0
    BY <2>1, FS_EmptySet
  <2>3. ~(0 >= MaxAuto)
    BY <1>2
  <2> QED BY <2>2, <2>3 DEF Prunable
<1>7. rows # <<>> => Len(rows) \in 1..Len(rows)
  OBVIOUS
<1> QED BY <1>1, <1>2, <1>4, <1>5, <1>6, <1>7 DEF SameHistory, Row, Prunable, Autos

(* What holds a content goes on holding it: versions are only added, and a *)
(* version's place is taken by the snapshots after it alone.               *)
LEMMA StillHolds ==
    ASSUME rows \in Seq(Row), rows' \in Seq(Row), Len(rows') >= Len(rows), MaxAuto \in Nat,
           \A i \in 1..Len(rows) : /\ rows'[i].data = rows[i].data
                                   /\ rows'[i].why = rows[i].why,
           \A i \in 1..Len(rows) : rows[i].kept /\ ~rows'[i].kept
                 => MaxAuto > 0 /\ Cardinality(Later(rows, i)) >= MaxAuto
    PROVE  \A i, d : Holds(rows, i, d) => Holds(rows', i, d)
<1>1. /\ DOMAIN rows = 1..Len(rows) /\ DOMAIN rows' = 1..Len(rows')
      /\ Len(rows) \in Nat /\ Len(rows') \in Nat
  OBVIOUS
<1>2. DOMAIN rows \subseteq DOMAIN rows'
  BY <1>1
<1>3. \A i : /\ Later(rows, i) \subseteq Later(rows', i)
            /\ Later(rows', i) \subseteq 1..Len(rows')
  BY <1>1, <1>2 DEF Later
<1>4. \A i : /\ Cardinality(Later(rows, i)) \in Nat /\ Cardinality(Later(rows', i)) \in Nat
            /\ Cardinality(Later(rows, i)) <= Cardinality(Later(rows', i))
  <2> SUFFICES ASSUME NEW i
               PROVE  /\ Cardinality(Later(rows, i)) \in Nat
                      /\ Cardinality(Later(rows', i)) \in Nat
                      /\ Cardinality(Later(rows, i)) <= Cardinality(Later(rows', i))
    OBVIOUS
  <2>1. IsFiniteSet(1..Len(rows'))
    BY <1>1, FS_Interval
  <2>2. IsFiniteSet(Later(rows', i))
    BY <1>3, <2>1, FS_Subset
  <2>3. IsFiniteSet(Later(rows, i)) /\ Cardinality(Later(rows, i)) <= Cardinality(Later(rows', i))
    BY <1>3, <2>2, FS_Subset
  <2> QED BY <2>2, <2>3, FS_CardinalityType
<1>5. SUFFICES ASSUME NEW i, NEW d, Holds(rows, i, d)  PROVE Holds(rows', i, d)
  OBVIOUS
<1>6. i \in DOMAIN rows' /\ rows'[i].data = d
  BY <1>1, <1>2, <1>5 DEF Holds
<1>7. CASE rows'[i].kept
  BY <1>6, <1>7 DEF Holds
<1>8. CASE ~rows'[i].kept
  <2>1. MaxAuto > 0 /\ Cardinality(Later(rows, i)) >= MaxAuto
    BY <1>1, <1>5, <1>8 DEF Holds
  <2>2. Cardinality(Later(rows', i)) >= MaxAuto
    BY <1>4, <2>1
  <2> QED BY <1>6, <2>1, <2>2 DEF Holds
<1> QED BY <1>7, <1>8

-----------------------------------------------------------------------------
(* The inductive invariant.  AutoSpacing and NoRepeatedSnapshot speak of   *)
(* the moment a snapshot is inserted; they hold because a decision made    *)
(* under the lock stays true until the insert it decided on (Decided), and *)
(* that because whoever inserts holds the lock (LockHeld).                 *)

(* A caller in the locked part of a call is the holder of the mutex.       *)
LockHeld == \A c \in Callers : pc[c] \in Locked => lock = c

(* What snapshotIfDue found of the newest version still holds at Insert.   *)
Decided ==
    \A c \in Callers :
        pc[c] = "insert" => Snapshottable(data[c]) /\ Fresh(data[c]) /\ Aged(op[c])

(* The steps on the way to snapshotIfDue, and in it, belong to its callers.*)
Snapshotting ==
    \A c \in Callers :
        /\ pc[c] \in {"due", "load"} => op[c] \in {"save", "session"}
        /\ pc[c] = "restoreGet" => op[c] = "restore"
        /\ pc[c] \in {"snapshot", "insert", "prune"} => op[c] \in Snapshots

(* The version a call works on exists; NameCurrent's is the newest.        *)
Targeted ==
    \A c \in Callers :
        /\ pc[c] \in {"promote", "renameCount", "setLabel", "apply", "record"}
              => ver[c] \in 1..Len(rows)
        /\ pc[c] \in {"snapshot", "insert", "prune"} /\ op[c] = "restore"
              => ver[c] \in 1..Len(rows)
        /\ pc[c] = "promote" => ver[c] = Len(rows)

(* No version is newer than now, so a gap of 0 never holds a snapshot up. *)
Timely == \A i \in DOMAIN rows : rows[i].at <= clock

(* Only a snapshot is auto, and so prunable, a relabelled one included.    *)
AutosAreSnapshots ==
    /\ \A i \in DOMAIN rows : rows[i].auto => rows[i].why \in Snapshots
    /\ \A c \in Callers : pc[c] \in {"renameCount", "setLabel"} /\ read[c].auto
          => rows[ver[c]].why \in Snapshots

(* RestoreCovered, from the moment a restore's snapshot is inserted.       *)
Covering ==
    \A c \in Callers :
        /\ pc[c] \in {"apply", "record"} \/ (pc[c] = "prune" /\ op[c] = "restore")
        /\ Snapshottable(data[c])
        => Holds(rows, covers[c], data[c])

IInv == /\ TypeOK
        /\ LockHeld
        /\ Decided
        /\ Snapshotting
        /\ Targeted
        /\ AutosAreSnapshots
        /\ Covering
        /\ Timely
        /\ AutoSpacing
        /\ NoRepeatedSnapshot
        /\ NamedAreKept
        /\ NewestKept

(* Steps that leave the rows alone leave alone what is said of them only.  *)
LEMMA RowsUnchanged ==
    ASSUME IInv, UNCHANGED rows
    PROVE  AutoSpacing' /\ NoRepeatedSnapshot' /\ NamedAreKept' /\ NewestKept'
  BY DEF IInv, AutoSpacing, NoRepeatedSnapshot, NamedAreKept, NewestKept, Latest

(* What the type invariant says of the rows, in the form the provers use:  *)
(* object_versions is a sequence whose last entry is the newest version.   *)
LEMMA RowAt ==
    ASSUME TypeOK
    PROVE  /\ DOMAIN rows = 1..Len(rows) /\ Len(rows) \in Nat
           /\ \A i \in 1..Len(rows) : rows[i] \in Row
           /\ rows # <<>> <=> Len(rows) \in 1..Len(rows)
  BY DEF TypeOK

(* A document starts with no versions and no caller inside the Manager:    *)
(* the strengthened invariant holds there.                                 *)
LEMMA InitIInv == Init => IInv
<1> SUFFICES ASSUME Init PROVE IInv
  OBVIOUS
<1>1. TypeOK
  BY HistoryAssumption, VersionsAssumption DEF Init, TypeOK, Steps, Ops, Row
<1> QED BY <1>1 DEF Init, IInv, LockHeld, Decided, Snapshotting, Targeted, Covering,
       AutosAreSnapshots, AutoSpacing, NoRepeatedSnapshot, NamedAreKept, NewestKept, Locked, Timely

(* A step of one caller that leaves the rows, the clock and the document   *)
(* alone: what it may disturb is what is said of that caller.              *)
LEMMA QuietStep ==
    ASSUME IInv, NEW c \in Callers,
           UNCHANGED <<rows, clock>>,
           \/ Due(c) \/ Load(c) \/ SnapshotSkipped(c) \/ SnapshotIfDue(c)
           \/ NameTooLarge(c) \/ NameCount(c) \/ NameLatest(c) \/ RenameCount(c)
           \/ \E i \in DOMAIN rows : RestoreGet(c, i)
           \/ RestoreMissing(c) \/ Apply(c) \/ Fail(c)
           \/ \E d \in Contents : Save(c, d)
           \/ SessionEnded(c)
           \/ \E call \in {"name", "restore"} : Resolve(c, call)
           \/ \E i \in DOMAIN rows, want \in BOOLEAN : RenameGet(c, i, want)
    PROVE  IInv'
<1> USE DEF IInv, Goto, Release, Start, AfterSnapshot, CoveredBy, request, local
<1>1. ASSUME Due(c) PROVE IInv'
  <2>1. TypeOK'
    BY <1>1, VersionsAssumption DEF Due, TypeOK, Steps, Ops, Snapshots, Row
  <2>2. LockHeld'
    BY <1>1, VersionsAssumption DEF Due, TypeOK, LockHeld, Locked
  <2>3. Decided'
    BY <1>1 DEF Due, TypeOK, Decided, Fresh, Aged, Latest
  <2>4. Snapshotting'
    BY <1>1 DEF Due, TypeOK, Snapshotting, Snapshots
  <2>5. Targeted'
    BY <1>1 DEF Due, TypeOK, Targeted, Snapshotting
  <2>6. AutosAreSnapshots' /\ Covering'
    BY <1>1 DEF Due, TypeOK, AutosAreSnapshots, Covering, Targeted
  <2> QED BY <1>1, <2>1, <2>2, <2>3, <2>4, <2>5, <2>6, RowsUnchanged DEF Due, Timely
<1>2. ASSUME Load(c) PROVE IInv'
  <2>1. TypeOK'
    BY <1>2, VersionsAssumption DEF Load, TypeOK, Steps, Ops, Snapshots, Row
  <2>2. LockHeld'
    BY <1>2, VersionsAssumption DEF Load, TypeOK, LockHeld, Locked
  <2>3. Decided'
    BY <1>2 DEF Load, TypeOK, Decided, Fresh, Aged, Latest
  <2>4. Snapshotting'
    BY <1>2 DEF Load, TypeOK, Snapshotting, Snapshots
  <2>5. Targeted'
    BY <1>2 DEF Load, TypeOK, Targeted, Snapshotting
  <2>6. AutosAreSnapshots' /\ Covering'
    BY <1>2 DEF Load, TypeOK, AutosAreSnapshots, Covering, Targeted
  <2> QED BY <1>2, <2>1, <2>2, <2>3, <2>4, <2>5, <2>6, RowsUnchanged DEF Load, Timely
<1>3. ASSUME SnapshotSkipped(c) PROVE IInv'
  <2>1. TypeOK'
    BY <1>3, VersionsAssumption DEF SnapshotSkipped, TypeOK, Steps, Ops, Snapshots, Row
  <2>2. LockHeld'
    BY <1>3, VersionsAssumption DEF SnapshotSkipped, TypeOK, LockHeld, Locked
  <2>3. Decided'
    BY <1>3 DEF SnapshotSkipped, TypeOK, Decided, Fresh, Aged, Latest
  <2>4. Snapshotting'
    BY <1>3 DEF SnapshotSkipped, TypeOK, Snapshotting, Snapshots
  <2>5. Targeted'
    BY <1>3 DEF SnapshotSkipped, TypeOK, Targeted, Snapshotting
  <2>6. AutosAreSnapshots' /\ Covering'
    BY <1>3 DEF SnapshotSkipped, TypeOK, AutosAreSnapshots, Covering, Targeted
  <2> QED BY <1>3, <2>1, <2>2, <2>3, <2>4, <2>5, <2>6, RowsUnchanged DEF SnapshotSkipped, Timely
<1>4. ASSUME SnapshotIfDue(c) PROVE IInv'
  <2>1. TypeOK'
    BY <1>4, VersionsAssumption, RowAt DEF SnapshotIfDue, TypeOK, Steps, Ops, Snapshots, Row
  <2>2. LockHeld'
    BY <1>4, VersionsAssumption DEF SnapshotIfDue, TypeOK, LockHeld, Locked
  <2>3. Decided'
    BY <1>4 DEF SnapshotIfDue, TypeOK, Decided, Fresh, Aged, Latest
  <2>4. Snapshotting'
    BY <1>4 DEF SnapshotIfDue, TypeOK, Snapshotting, Snapshots
  <2>5. Targeted'
    BY <1>4, RowAt DEF SnapshotIfDue, TypeOK, Targeted, Snapshotting
  <2>6. AutosAreSnapshots' /\ Covering'
    <3>1. ASSUME op[c] = "restore", pc'[c] = "apply"  PROVE Holds(rows, Len(rows), data[c])
      <4>1. Aged("restore")
        <5>1. Gap("restore") = 0
          BY DEF Gap
        <5>2. ASSUME rows # <<>>  PROVE clock - Latest.at >= 0
          <6>1. Latest \in Row /\ Latest.at <= clock
            BY <5>2, RowAt DEF Latest, Timely
          <6> QED BY <6>1 DEF TypeOK, Row
        <5> QED BY <5>1, <5>2 DEF Aged
      <4>2. ~Fresh(data[c])
        BY <1>4, <3>1, <4>1 DEF SnapshotIfDue, TypeOK
      <4>3. rows # <<>> /\ Latest.data = data[c] /\ Latest.kept
        BY <4>2 DEF Fresh, NewestKept
      <4> QED BY <4>3, RowAt DEF Holds, Latest
    <3>2. /\ pc'[c] = "apply" => op[c] = "restore" /\ covers'[c] = Len(rows)
          /\ pc'[c] \in {"insert", "apply", "idle"}
          /\ \A x \in Callers : x # c => pc'[x] = pc[x] /\ covers'[x] = covers[x]
      BY <1>4 DEF SnapshotIfDue, TypeOK
    <3>3. UNCHANGED <<rows, data, op, read, ver>>
      BY <1>4 DEF SnapshotIfDue
    <3>4. AutosAreSnapshots'
      BY <3>2, <3>3 DEF AutosAreSnapshots
    <3> QED BY <3>1, <3>2, <3>3, <3>4 DEF Covering
  <2> QED BY <1>4, <2>1, <2>2, <2>3, <2>4, <2>5, <2>6, RowsUnchanged DEF SnapshotIfDue, Timely
<1>5. ASSUME NameTooLarge(c) PROVE IInv'
  <2>1. TypeOK'
    BY <1>5, VersionsAssumption DEF NameTooLarge, TypeOK, Steps, Ops, Snapshots, Row
  <2>2. LockHeld'
    BY <1>5, VersionsAssumption DEF NameTooLarge, TypeOK, LockHeld, Locked
  <2>3. Decided'
    BY <1>5 DEF NameTooLarge, TypeOK, Decided, Fresh, Aged, Latest
  <2>4. Snapshotting'
    BY <1>5 DEF NameTooLarge, TypeOK, Snapshotting, Snapshots
  <2>5. Targeted'
    BY <1>5 DEF NameTooLarge, TypeOK, Targeted, Snapshotting
  <2>6. AutosAreSnapshots' /\ Covering'
    BY <1>5 DEF NameTooLarge, TypeOK, AutosAreSnapshots, Covering, Targeted
  <2> QED BY <1>5, <2>1, <2>2, <2>3, <2>4, <2>5, <2>6, RowsUnchanged DEF NameTooLarge, Timely
<1>6. ASSUME NameCount(c) PROVE IInv'
  <2>1. TypeOK'
    BY <1>6, VersionsAssumption DEF NameCount, TypeOK, Steps, Ops, Snapshots, Row
  <2>2. LockHeld'
    BY <1>6, VersionsAssumption DEF NameCount, TypeOK, LockHeld, Locked
  <2>3. Decided'
    BY <1>6 DEF NameCount, TypeOK, Decided, Fresh, Aged, Latest
  <2>4. Snapshotting'
    BY <1>6 DEF NameCount, TypeOK, Snapshotting, Snapshots
  <2>5. Targeted'
    BY <1>6 DEF NameCount, TypeOK, Targeted, Snapshotting
  <2>6. AutosAreSnapshots' /\ Covering'
    BY <1>6 DEF NameCount, TypeOK, AutosAreSnapshots, Covering, Targeted
  <2> QED BY <1>6, <2>1, <2>2, <2>3, <2>4, <2>5, <2>6, RowsUnchanged DEF NameCount, Timely
<1>7. ASSUME NameLatest(c) PROVE IInv'
  <2>1. TypeOK'
    <3>1. ver' \in [Callers -> Nat] /\ \A x \in Callers : ver'[x] <= Len(rows')
      <4>1. Len(rows) \in Nat /\ rows' = rows
        BY <1>7, RowAt DEF NameLatest
      <4>2. ver' = ver \/ ver' = [ver EXCEPT ![c] = Len(rows)]
        BY <1>7 DEF NameLatest
      <4>3. ver \in [Callers -> Nat] /\ \A x \in Callers : ver[x] <= Len(rows)
        BY DEF TypeOK
      <4>4. CASE ver' = [ver EXCEPT ![c] = Len(rows)]
        BY <4>1, <4>3, <4>4
      <4> QED BY <4>1, <4>2, <4>3, <4>4
    <3>2. pc' \in [Callers -> Steps]
      BY <1>7 DEF NameLatest, TypeOK, Steps
    <3> QED BY <1>7, <3>1, <3>2 DEF NameLatest, TypeOK
  <2>2. LockHeld'
    BY <1>7, VersionsAssumption DEF NameLatest, TypeOK, LockHeld, Locked
  <2>3. Decided'
    BY <1>7 DEF NameLatest, TypeOK, Decided, Fresh, Aged, Latest
  <2>4. Snapshotting'
    BY <1>7 DEF NameLatest, TypeOK, Snapshotting, Snapshots
  <2>5. Targeted'
    BY <1>7, RowAt DEF NameLatest, TypeOK, Targeted, Snapshotting, Fresh
  <2>6. AutosAreSnapshots' /\ Covering'
    <3>1. /\ pc'[c] \in {"promote", "insertNamed"}
          /\ \A x \in Callers : x # c => pc'[x] = pc[x] /\ ver'[x] = ver[x]
          /\ UNCHANGED <<rows, op, data, read, covers>>
      BY <1>7 DEF NameLatest, TypeOK
    <3> QED BY <3>1 DEF AutosAreSnapshots, Covering
  <2> QED BY <1>7, <2>1, <2>2, <2>3, <2>4, <2>5, <2>6, RowsUnchanged DEF NameLatest, Timely
<1>8. ASSUME RenameCount(c) PROVE IInv'
  <2>1. TypeOK'
    BY <1>8, VersionsAssumption DEF RenameCount, TypeOK, Steps, Ops, Snapshots, Row
  <2>2. LockHeld'
    BY <1>8, VersionsAssumption DEF RenameCount, TypeOK, LockHeld, Locked
  <2>3. Decided'
    BY <1>8 DEF RenameCount, TypeOK, Decided, Fresh, Aged, Latest
  <2>4. Snapshotting'
    BY <1>8 DEF RenameCount, TypeOK, Snapshotting, Snapshots
  <2>5. Targeted'
    BY <1>8 DEF RenameCount, TypeOK, Targeted, Snapshotting
  <2>6. AutosAreSnapshots' /\ Covering'
    BY <1>8 DEF RenameCount, TypeOK, AutosAreSnapshots, Covering, Targeted
  <2> QED BY <1>8, <2>1, <2>2, <2>3, <2>4, <2>5, <2>6, RowsUnchanged DEF RenameCount, Timely
<1>9. ASSUME NEW i \in DOMAIN rows, RestoreGet(c, i) PROVE IInv'
  <2>1. TypeOK'
    BY <1>9, VersionsAssumption, RowAt DEF RestoreGet, TypeOK, Steps, Ops, Snapshots, Row
  <2>2. LockHeld'
    BY <1>9, VersionsAssumption DEF RestoreGet, TypeOK, LockHeld, Locked
  <2>3. Decided'
    BY <1>9 DEF RestoreGet, TypeOK, Decided, Fresh, Aged, Latest
  <2>4. Snapshotting'
    BY <1>9 DEF RestoreGet, TypeOK, Snapshotting, Snapshots
  <2>5. Targeted'
    BY <1>9, RowAt DEF RestoreGet, TypeOK, Targeted, Snapshotting
  <2>6. AutosAreSnapshots' /\ Covering'
    BY <1>9, RowAt DEF RestoreGet, TypeOK, AutosAreSnapshots, Covering, Targeted
  <2> QED BY <1>9, <2>1, <2>2, <2>3, <2>4, <2>5, <2>6, RowsUnchanged DEF RestoreGet, Timely
<1>10. ASSUME RestoreMissing(c) PROVE IInv'
  <2>1. TypeOK'
    BY <1>10, VersionsAssumption DEF RestoreMissing, TypeOK, Steps, Ops, Snapshots, Row
  <2>2. LockHeld'
    BY <1>10, VersionsAssumption DEF RestoreMissing, TypeOK, LockHeld, Locked
  <2>3. Decided'
    BY <1>10 DEF RestoreMissing, TypeOK, Decided, Fresh, Aged, Latest
  <2>4. Snapshotting'
    BY <1>10 DEF RestoreMissing, TypeOK, Snapshotting, Snapshots
  <2>5. Targeted'
    BY <1>10 DEF RestoreMissing, TypeOK, Targeted, Snapshotting
  <2>6. AutosAreSnapshots' /\ Covering'
    BY <1>10 DEF RestoreMissing, TypeOK, AutosAreSnapshots, Covering, Targeted
  <2> QED BY <1>10, <2>1, <2>2, <2>3, <2>4, <2>5, <2>6, RowsUnchanged DEF RestoreMissing, Timely
<1>11. ASSUME Apply(c) PROVE IInv'
  <2>1. TypeOK'
    BY <1>11, VersionsAssumption, RowAt DEF Apply, TypeOK, Steps, Ops, Snapshots, Row, Targeted
  <2>2. LockHeld'
    BY <1>11, VersionsAssumption DEF Apply, TypeOK, LockHeld, Locked
  <2>3. Decided'
    BY <1>11 DEF Apply, TypeOK, Decided, Fresh, Aged, Latest
  <2>4. Snapshotting'
    BY <1>11 DEF Apply, TypeOK, Snapshotting, Snapshots
  <2>5. Targeted'
    BY <1>11, RowAt DEF Apply, TypeOK, Targeted, Snapshotting
  <2>6. AutosAreSnapshots' /\ Covering'
    BY <1>11, RowAt DEF Apply, TypeOK, AutosAreSnapshots, Covering, Targeted
  <2> QED BY <1>11, <2>1, <2>2, <2>3, <2>4, <2>5, <2>6, RowsUnchanged DEF Apply, Timely
<1>12. ASSUME Fail(c) PROVE IInv'
  <2>1. TypeOK'
    BY <1>12, VersionsAssumption DEF Fail, TypeOK, Steps, Ops, Snapshots, Row
  <2>2. LockHeld'
    BY <1>12, VersionsAssumption DEF Fail, TypeOK, LockHeld, Locked
  <2>3. Decided'
    BY <1>12 DEF Fail, TypeOK, Decided, Fresh, Aged, Latest
  <2>4. Snapshotting'
    BY <1>12 DEF Fail, TypeOK, Snapshotting, Snapshots
  <2>5. Targeted'
    BY <1>12 DEF Fail, TypeOK, Targeted, Snapshotting
  <2>6. AutosAreSnapshots' /\ Covering'
    BY <1>12 DEF Fail, TypeOK, AutosAreSnapshots, Covering, Targeted
  <2> QED BY <1>12, <2>1, <2>2, <2>3, <2>4, <2>5, <2>6, RowsUnchanged DEF Fail, Timely
<1>13. ASSUME NEW d \in Contents, Save(c, d) PROVE IInv'
  <2>1. TypeOK'
    BY <1>13, VersionsAssumption DEF Save, TypeOK, Steps, Ops, Snapshots, Row
  <2>2. LockHeld'
    BY <1>13, VersionsAssumption DEF Save, TypeOK, LockHeld, Locked
  <2>3. Decided'
    BY <1>13 DEF Save, TypeOK, Decided, Fresh, Aged, Latest
  <2>4. Snapshotting'
    BY <1>13 DEF Save, TypeOK, Snapshotting, Snapshots
  <2>5. Targeted'
    BY <1>13 DEF Save, TypeOK, Targeted, Snapshotting
  <2>6. AutosAreSnapshots' /\ Covering'
    BY <1>13 DEF Save, TypeOK, AutosAreSnapshots, Covering, Targeted
  <2> QED BY <1>13, <2>1, <2>2, <2>3, <2>4, <2>5, <2>6, RowsUnchanged DEF Save, Timely
<1>14. ASSUME SessionEnded(c) PROVE IInv'
  <2>1. TypeOK'
    BY <1>14, VersionsAssumption DEF SessionEnded, TypeOK, Steps, Ops, Snapshots, Row
  <2>2. LockHeld'
    BY <1>14, VersionsAssumption DEF SessionEnded, TypeOK, LockHeld, Locked
  <2>3. Decided'
    BY <1>14 DEF SessionEnded, TypeOK, Decided, Fresh, Aged, Latest
  <2>4. Snapshotting'
    BY <1>14 DEF SessionEnded, TypeOK, Snapshotting, Snapshots
  <2>5. Targeted'
    BY <1>14 DEF SessionEnded, TypeOK, Targeted, Snapshotting
  <2>6. AutosAreSnapshots' /\ Covering'
    BY <1>14 DEF SessionEnded, TypeOK, AutosAreSnapshots, Covering, Targeted
  <2> QED BY <1>14, <2>1, <2>2, <2>3, <2>4, <2>5, <2>6, RowsUnchanged DEF SessionEnded, Timely
<1>15. ASSUME NEW call \in {"name", "restore"}, Resolve(c, call) PROVE IInv'
  <2>1. TypeOK'
    BY <1>15, VersionsAssumption DEF Resolve, TypeOK, Steps, Ops, Snapshots, Row
  <2>2. LockHeld'
    BY <1>15, VersionsAssumption DEF Resolve, TypeOK, LockHeld, Locked
  <2>3. Decided'
    BY <1>15 DEF Resolve, TypeOK, Decided, Fresh, Aged, Latest
  <2>4. Snapshotting'
    BY <1>15 DEF Resolve, TypeOK, Snapshotting, Snapshots
  <2>5. Targeted'
    BY <1>15 DEF Resolve, TypeOK, Targeted, Snapshotting
  <2>6. AutosAreSnapshots' /\ Covering'
    BY <1>15 DEF Resolve, TypeOK, AutosAreSnapshots, Covering, Targeted
  <2> QED BY <1>15, <2>1, <2>2, <2>3, <2>4, <2>5, <2>6, RowsUnchanged DEF Resolve, Timely
<1>16. ASSUME NEW i \in DOMAIN rows, NEW want \in BOOLEAN, RenameGet(c, i, want) PROVE IInv'
  <2>1. TypeOK'
    <3>1. /\ ver' = [ver EXCEPT ![c] = i] /\ i \in 1..Len(rows) /\ rows' = rows
          /\ ver \in [Callers -> Nat] /\ \A x \in Callers : ver[x] <= Len(rows)
          /\ Len(rows) \in Nat
      BY <1>16, RowAt DEF RenameGet, TypeOK
    <3>2. ver' \in [Callers -> Nat] /\ \A x \in Callers : ver'[x] <= Len(rows')
      BY <3>1
    <3>3. rows[i] \in Row /\ rows[i].named \in BOOLEAN /\ rows[i].auto \in BOOLEAN
      BY <1>16, RowAt DEF Row
    <3>4. read' \in [Callers -> [named : BOOLEAN, auto : BOOLEAN]]
      BY <1>16, <3>3 DEF RenameGet, TypeOK
    <3>5. pc' \in [Callers -> Steps] /\ op' \in [Callers -> Ops] /\ requests' \in Nat
          /\ wants' \in [Callers -> BOOLEAN]
      BY <1>16 DEF RenameGet, TypeOK, Steps, Ops
    <3> QED BY <1>16, <3>2, <3>4, <3>5 DEF RenameGet, TypeOK
  <2>2. LockHeld'
    BY <1>16, VersionsAssumption DEF RenameGet, TypeOK, LockHeld, Locked
  <2>3. Decided'
    BY <1>16 DEF RenameGet, TypeOK, Decided, Fresh, Aged, Latest
  <2>4. Snapshotting'
    BY <1>16 DEF RenameGet, TypeOK, Snapshotting, Snapshots
  <2>5. Targeted'
    BY <1>16, RowAt DEF RenameGet, TypeOK, Targeted, Snapshotting
  <2>6. AutosAreSnapshots' /\ Covering'
    BY <1>16, RowAt DEF RenameGet, TypeOK, AutosAreSnapshots, Covering, Targeted
  <2> QED BY <1>16, <2>1, <2>2, <2>3, <2>4, <2>5, <2>6, RowsUnchanged DEF RenameGet, Timely
<1> QED BY <1>1, <1>2, <1>3, <1>4, <1>5, <1>6, <1>7, <1>8, <1>9, <1>10, <1>11, <1>12, <1>13, <1>14, <1>15, <1>16

-----------------------------------------------------------------------------
(* The two shapes of a step that changes the rows.                         *)

(* A row is added, by a decision that holds of the newest version.         *)
LEMMA Appended ==
    ASSUME IInv, NEW r \in Row, rows' = Append(rows, r), UNCHANGED clock,
           r.kept, r.named => ~r.auto, r.auto => r.why \in Snapshots, r.at = clock,
           (r.why \in Snapshots /\ rows # <<>>) =>
                clock - Latest.at >= Gap(r.why) /\ r.data # Latest.data
    PROVE  /\ rows' \in Seq(Row) /\ Len(rows') = Len(rows) + 1
           /\ AutoSpacing' /\ NoRepeatedSnapshot' /\ NamedAreKept' /\ NewestKept'
           /\ Timely'
           /\ \A i \in DOMAIN rows' : rows'[i].auto => rows'[i].why \in Snapshots
           /\ \A i \in 1..Len(rows) : rows'[i].why = rows[i].why
           /\ \A i, d : Holds(rows, i, d) => Holds(rows', i, d)
           /\ Holds(rows', Len(rows) + 1, r.data)
<1> DEFINE n == Len(rows)
<1>1. /\ rows \in Seq(Row) /\ n \in Nat /\ DOMAIN rows = 1..n
      /\ \A i \in 1..n : rows[i] \in Row
      /\ clock \in Nat
  BY RowAt DEF IInv, TypeOK
<1>2. /\ rows' \in Seq(Row) /\ Len(rows') = n + 1 /\ rows' # <<>>
      /\ rows'[n + 1] = r
      /\ \A i \in 1..n : rows'[i] = rows[i]
  BY <1>1, AppendRow
<1>3. DOMAIN rows' = 1..(n + 1)
  BY <1>2
<1>4. n > 0 => rows # <<>> /\ Latest = rows[n]
  BY <1>1 DEF Latest
<1>5. AutoSpacing' /\ NoRepeatedSnapshot'
  <2> SUFFICES ASSUME NEW i \in 1..(n + 1), NEW j \in 1..(n + 1), j = i + 1,
                      rows'[j].why \in Snapshots
               PROVE  /\ rows'[j].at - rows'[i].at >= Gap(rows'[j].why)
                      /\ rows'[j].data # rows'[i].data
    BY <1>3 DEF AutoSpacing, NoRepeatedSnapshot, Gap
  <2>1. CASE j \in 1..n
    <3>1. rows'[j] = rows[j] /\ rows'[i] = rows[i] /\ i \in 1..n
      BY <2>1, <1>1, <1>2
    <3> QED BY <3>1, <2>1, <1>1 DEF IInv, AutoSpacing, NoRepeatedSnapshot
  <2>2. CASE j = n + 1
    <3>1. i = n /\ n > 0 /\ i \in 1..n
      <4>1. n \in Nat
        BY <1>1
      <4> HIDE DEF n
      <4> QED BY <2>2, <4>1
    <3>2. rows'[i] = Latest /\ rows'[j] = r
      BY <2>2, <3>1, <1>2, <1>4
    <3> QED BY <3>1, <3>2, <1>4
  <2> QED BY <2>1, <2>2, <1>1
<1>6. NamedAreKept'
  BY <1>1, <1>2, <1>3 DEF IInv, NamedAreKept
<1>7. NewestKept'
  BY <1>2 DEF NewestKept, Latest
<1>8. Timely'
  BY <1>1, <1>2, <1>3 DEF IInv, Timely
<1>9. \A i, d : Holds(rows, i, d) => Holds(rows', i, d)
  BY <1>1, <1>2, StillHolds, HistoryAssumption
<1>10. Holds(rows', Len(rows) + 1, r.data)
  BY <1>1, <1>2, <1>3 DEF Holds
<1>11. \A i \in DOMAIN rows' : rows'[i].auto => rows'[i].why \in Snapshots
  BY <1>1, <1>2, <1>3 DEF IInv, AutosAreSnapshots
<1> QED BY <1>2, <1>5, <1>6, <1>7, <1>8, <1>9, <1>10, <1>11

(* Labels change or auto snapshots are deleted, never a named one.         *)
LEMMA Updated ==
    ASSUME IInv, SameHistory(rows, rows'), UNCHANGED clock,
           \A i \in 1..Len(rows) : rows'[i].named => rows'[i].kept /\ ~rows'[i].auto,
           \A i \in 1..Len(rows) : rows[i].kept /\ ~rows'[i].kept
                 => MaxAuto > 0 /\ Cardinality(Later(rows, i)) >= MaxAuto,
           rows # <<>> => rows'[Len(rows)].kept
    PROVE  /\ rows' \in Seq(Row) /\ Len(rows') = Len(rows)
           /\ AutoSpacing' /\ NoRepeatedSnapshot' /\ NamedAreKept' /\ NewestKept'
           /\ Timely'
           /\ \A i, d : Holds(rows, i, d) => Holds(rows', i, d)
           /\ (rows = <<>>) <=> (rows' = <<>>)
           /\ rows # <<>> => /\ rows'[Len(rows')].data = Latest.data
                             /\ rows'[Len(rows')].at = Latest.at
<1>1. /\ rows \in Seq(Row) /\ Len(rows) \in Nat
      /\ DOMAIN rows = 1..Len(rows) /\ DOMAIN rows' = 1..Len(rows)
      /\ rows' \in Seq(Row) /\ Len(rows') = Len(rows)
      /\ (rows = <<>>) <=> (rows' = <<>>)
      /\ rows # <<>> => Len(rows) \in 1..Len(rows)
  BY RowAt DEF IInv, TypeOK, SameHistory
<1>2. \A i \in 1..Len(rows) : /\ rows'[i].data = rows[i].data
                              /\ rows'[i].at = rows[i].at
                              /\ rows'[i].why = rows[i].why
  BY DEF SameHistory
<1>3. AutoSpacing' /\ NoRepeatedSnapshot'
  <2> SUFFICES ASSUME NEW i \in 1..Len(rows), NEW j \in 1..Len(rows), j = i + 1,
                      rows'[j].why \in Snapshots
               PROVE  /\ rows'[j].at - rows'[i].at >= Gap(rows'[j].why)
                      /\ rows'[j].data # rows'[i].data
    BY <1>1 DEF AutoSpacing, NoRepeatedSnapshot, Gap
  <2>1. /\ rows'[i].data = rows[i].data /\ rows'[i].at = rows[i].at
        /\ rows'[j].data = rows[j].data /\ rows'[j].at = rows[j].at
        /\ rows'[j].why = rows[j].why
    BY <1>2
  <2>2. rows[j].at - rows[i].at >= Gap(rows[j].why) /\ rows[j].data # rows[i].data
    BY <1>1, <2>1 DEF IInv, AutoSpacing, NoRepeatedSnapshot
  <2> QED BY <2>1, <2>2
<1>4. NamedAreKept' /\ NewestKept' /\ Timely'
  BY <1>1, <1>2 DEF IInv, NamedAreKept, NewestKept, Timely, Latest
<1>5. \A i, d : Holds(rows, i, d) => Holds(rows', i, d)
  BY <1>1, <1>2, StillHolds, HistoryAssumption
<1>6. rows # <<>> => /\ rows'[Len(rows')].data = Latest.data
                     /\ rows'[Len(rows')].at = Latest.at
  BY <1>1, <1>2 DEF Latest
<1> QED BY <1>1, <1>3, <1>4, <1>5, <1>6

-----------------------------------------------------------------------------
(* The steps that change the rows, one lemma for each kind.                *)

(* Inserts: a snapshot decided under the lock, a named version, a restore. *)
LEMMA InsertStep ==
    ASSUME IInv, NEW c \in Callers,
           InsertAuto(c) \/ InsertNamed(c) \/ RecordRestore(c)
    PROVE  IInv'
<1> DEFINE r == CASE pc[c] = "insert" -> AutoRow(data[c], op[c], clock)
                  [] pc[c] = "insertNamed" -> NamedRow(data[c], "name", clock)
                  [] OTHER -> NamedRow(rows[ver[c]].data, "restored", clock)
<1>1. rows' = Append(rows, r) /\ UNCHANGED <<clock, doc, request, requests>>
  BY DEF InsertAuto, InsertNamed, RecordRestore, local
<1>2. /\ r \in Row /\ r.kept /\ r.at = clock /\ (r.named => ~r.auto)
      /\ r.auto => r.why \in Snapshots
      /\ (r.why \in Snapshots /\ rows # <<>>) =>
              clock - Latest.at >= Gap(r.why) /\ r.data # Latest.data
  <2>1. CASE InsertAuto(c)
    <3>1. r = AutoRow(data[c], op[c], clock) /\ op[c] \in Snapshots
      BY <2>1 DEF InsertAuto, IInv, Snapshotting
    <3>2. Fresh(data[c]) /\ Aged(op[c])
      BY <2>1 DEF InsertAuto, IInv, Decided
    <3>3. data[c] \in Contents /\ clock \in Nat
      BY DEF IInv, TypeOK
    <3> HIDE DEF r
    <3> QED BY <3>1, <3>2, <3>3 DEF AutoRow, Row, Fresh, Aged
  <2>2. CASE InsertNamed(c)
    <3>1. r = NamedRow(data[c], "name", clock)
      BY <2>2 DEF InsertNamed
    <3> HIDE DEF r
    <3> QED BY <3>1 DEF NamedRow, Row, Snapshots, IInv, TypeOK
  <2>3. CASE RecordRestore(c)
    <3>1. r = NamedRow(rows[ver[c]].data, "restored", clock)
      BY <2>3 DEF RecordRestore
    <3>2. rows[ver[c]] \in Row
      BY <2>3, RowAt DEF RecordRestore, IInv, Targeted
    <3> HIDE DEF r
    <3> QED BY <3>1, <3>2 DEF NamedRow, Row, Snapshots, IInv, TypeOK
  <2> QED BY <2>1, <2>2, <2>3
<1> HIDE DEF r
<1>3. /\ rows' \in Seq(Row) /\ Len(rows') = Len(rows) + 1
      /\ AutoSpacing' /\ NoRepeatedSnapshot' /\ NamedAreKept' /\ NewestKept'
      /\ Timely'
      /\ \A i \in DOMAIN rows' : rows'[i].auto => rows'[i].why \in Snapshots
      /\ \A i \in 1..Len(rows) : rows'[i].why = rows[i].why
      /\ \A i, d : Holds(rows, i, d) => Holds(rows', i, d)
      /\ Holds(rows', Len(rows) + 1, r.data)
  BY <1>1, <1>2, Appended
<1>4. Len(rows) \in Nat
  BY RowAt DEF IInv
<1>5. /\ \A x \in Callers : x # c => pc'[x] = pc[x] /\ covers'[x] = covers[x]
      /\ pc'[c] \in {"idle", "prune", "apply"}
      /\ pc' \in [Callers -> Steps]
      /\ lock' \in {lock, NoCaller}
      /\ \A x \in Callers : x # c => (lock = x => lock' = x)
      /\ pc'[c] = "prune" => lock' = c
      /\ pc'[c] \in {"prune", "apply"} => r.data = data[c] /\ op[c] \in Snapshots
      /\ pc'[c] \in {"prune", "apply"} /\ op[c] = "restore" => covers'[c] = Len(rows) + 1
      /\ pc'[c] = "apply" => op[c] = "restore"
      /\ pc[c] \in {"insert", "insertNamed"} \/ lock = NoCaller
      /\ covers' \in [Callers -> Nat]
  <2> USE VersionsAssumption DEF Goto, Release, IInv, TypeOK, LockHeld, Locked, Steps
  <2>1. CASE InsertAuto(c)
    <3>1. r = AutoRow(data[c], op[c], clock) /\ op[c] \in Snapshots
      BY <2>1 DEF InsertAuto, Snapshotting, r
    <3>2. r.data = data[c]
      BY <3>1 DEF AutoRow
    <3>3. /\ covers' \in [Callers -> Nat]
          /\ op[c] = "restore" => covers'[c] = Len(rows) + 1
          /\ \A x \in Callers : x # c => covers'[x] = covers[x]
      BY <1>4, <2>1 DEF InsertAuto, CoveredBy
    <3> QED BY <2>1, <3>1, <3>2, <3>3 DEF InsertAuto, AfterSnapshot
  <2>2. CASE InsertNamed(c)
    BY <2>2 DEF InsertNamed, local
  <2>3. CASE RecordRestore(c)
    BY <2>3 DEF RecordRestore, local
  <2> QED BY <2>1, <2>2, <2>3
<1>6. UNCHANGED <<op, data, ver, read, wants, doc, requests, clock>>
  BY <1>1 DEF request
<1>7. TypeOK'
  BY <1>3, <1>4, <1>5, <1>6 DEF IInv, TypeOK
<1>8. LockHeld'
  BY <1>5, <1>6 DEF IInv, LockHeld, Locked
<1>9. \A x \in Callers : x # c => pc[x] \notin {"insert", "promote"}
  BY <1>5, VersionsAssumption DEF IInv, LockHeld, Locked, TypeOK
<1>10. Decided'
  BY <1>5, <1>9 DEF Decided
<1>11. Snapshotting'
  BY <1>5, <1>6 DEF IInv, Snapshotting
<1>12. Targeted'
  <2>1. \A x \in Callers : ver[x] \in 1..Len(rows) => ver'[x] \in 1..Len(rows')
    BY <1>3, <1>4, <1>6
  <2>2. pc'[c] = "apply" => pc[c] = "insert" /\ op[c] = "restore"
    BY DEF InsertAuto, InsertNamed, RecordRestore, Goto, AfterSnapshot, IInv, TypeOK
  <2>3. pc'[c] = "prune" => pc[c] = "insert"
    BY DEF InsertAuto, InsertNamed, RecordRestore, Goto, AfterSnapshot, IInv, TypeOK
  <2>4. \A x \in Callers : pc'[x] # "promote"
    BY <1>5, <1>9
  <2> QED BY <1>5, <1>6, <2>1, <2>2, <2>3, <2>4 DEF IInv, Targeted
<1>13. AutosAreSnapshots'
  <2>1. \A x \in Callers : pc'[x] \in {"renameCount", "setLabel"} => pc[x] = pc'[x]
    BY <1>5
  <2>2. \A x \in Callers : pc[x] \in {"renameCount", "setLabel"} => ver[x] \in 1..Len(rows)
    BY DEF IInv, Targeted
  <2> QED BY <1>3, <1>6, <2>1, <2>2 DEF IInv, AutosAreSnapshots
<1>14. Covering'
  <2> SUFFICES ASSUME NEW x \in Callers, Snapshottable(data[x]),
                      pc'[x] \in {"apply", "record"} \/ (pc'[x] = "prune" /\ op[x] = "restore")
               PROVE  Holds(rows', covers'[x], data[x])
    BY <1>6 DEF Covering
  <2>1. CASE x = c
    BY <1>3, <1>5, <2>1
  <2>2. CASE x # c
    BY <1>3, <1>5, <2>2 DEF IInv, Covering
  <2> QED BY <2>1, <2>2
<1> QED BY <1>3, <1>7, <1>8, <1>10, <1>11, <1>12, <1>13, <1>14 DEF IInv

(* Relabels and retention: the newest version's content and age, on which  *)
(* a pending decision rests, stay as they were.                            *)
LEMMA UpdateStep ==
    ASSUME IInv, NEW c \in Callers,
           PruneAuto(c) \/ Promote(c) \/ SetLabel(c)
    PROVE  IInv'
<1>1. UNCHANGED <<clock, doc, op, data, ver, read, wants, covers, requests>>
  BY DEF PruneAuto, Promote, SetLabel, request, local, History!Prune
<1>2. /\ SameHistory(rows, rows')
      /\ \A i \in 1..Len(rows) : rows'[i].named => rows'[i].kept /\ ~rows'[i].auto
      /\ \A i \in 1..Len(rows) : rows'[i].auto => rows[i].why \in Snapshots
      /\ \A i \in 1..Len(rows) : rows[i].kept /\ ~rows'[i].kept
            => MaxAuto > 0 /\ Cardinality(Later(rows, i)) >= MaxAuto
      /\ rows # <<>> => rows'[Len(rows)].kept
  <2>1. /\ rows \in Seq(Row) /\ DOMAIN rows = 1..Len(rows)
        /\ \A i \in 1..Len(rows) : rows[i].named => rows[i].kept /\ ~rows[i].auto
        /\ \A i \in 1..Len(rows) : rows[i].auto => rows[i].why \in Snapshots
        /\ rows # <<>> => rows[Len(rows)].kept
        /\ rows # <<>> => Len(rows) \in 1..Len(rows)
    BY RowAt DEF IInv, TypeOK, NamedAreKept, NewestKept, Latest, AutosAreSnapshots
  <2>2. CASE PruneAuto(c)
    <3>1. ASSUME NEW i \in 1..Len(rows)
          PROVE  Cardinality({j \in Autos : j > i}) <= Cardinality(Later(rows, i))
                 /\ Cardinality({j \in Autos : j > i}) \in Nat
                 /\ Cardinality(Later(rows, i)) \in Nat
      <4>1. {j \in Autos : j > i} \subseteq Later(rows, i) /\ Later(rows, i) \subseteq 1..Len(rows)
        BY <2>1 DEF Autos, Later
      <4>2. IsFiniteSet(Later(rows, i))
        BY <2>1, <4>1, FS_Interval, FS_Subset
      <4>3. IsFiniteSet({j \in Autos : j > i})
        BY <4>1, <4>2, FS_Subset
      <4> QED BY <4>1, <4>2, <4>3, FS_Subset, FS_CardinalityType
    <3>2. \A i \in 1..Len(rows) : rows[i].kept /\ ~rows'[i].kept
            => MaxAuto > 0 /\ Cardinality({j \in Autos : j > i}) >= MaxAuto
      BY <2>1, <2>2, PruneRows, HistoryAssumption DEF PruneAuto
    <3>3. \A i \in 1..Len(rows) : rows[i].kept /\ ~rows'[i].kept
            => MaxAuto > 0 /\ Cardinality(Later(rows, i)) >= MaxAuto
      <4> SUFFICES ASSUME NEW i \in 1..Len(rows), rows[i].kept, ~rows'[i].kept
                   PROVE  MaxAuto > 0 /\ Cardinality(Later(rows, i)) >= MaxAuto
        OBVIOUS
      <4>1. MaxAuto > 0 /\ Cardinality({j \in Autos : j > i}) >= MaxAuto
        BY <3>2
      <4> QED BY <3>1, <4>1, HistoryAssumption
    <3> QED BY <2>1, <2>2, <3>3, PruneRows, HistoryAssumption DEF PruneAuto
  <2>3. CASE Promote(c)
    <3>1. /\ ver[c] \in 1..Len(rows) /\ ver[c] = Len(rows) /\ rows # <<>>
          /\ rows' = [rows EXCEPT ![ver[c]].named = TRUE, ![ver[c]].auto = FALSE]
      BY <2>3, RowAt DEF Promote, IInv, Targeted
    <3>2. /\ SameHistory(rows, rows')
          /\ \A i \in 1..Len(rows) : rows'[i].kept = rows[i].kept
          /\ rows'[ver[c]].named = TRUE /\ rows'[ver[c]].auto = FALSE
          /\ \A i \in 1..Len(rows) : i # ver[c] => rows'[i] = rows[i]
      BY <2>1, <3>1, RelabelRow
    <3> QED BY <2>1, <3>1, <3>2
  <2>4. CASE SetLabel(c)
    <3>1. CASE rows[ver[c]].kept
      <4>1. /\ ver[c] \in 1..Len(rows) /\ wants[c] \in BOOLEAN /\ RenamedAuto(c) \in BOOLEAN
            /\ rows' = [rows EXCEPT ![ver[c]].named = wants[c], ![ver[c]].auto = RenamedAuto(c)]
        BY <2>4, <3>1 DEF SetLabel, IInv, Targeted, TypeOK, RenamedAuto
      <4>2. /\ wants[c] => ~RenamedAuto(c)
            /\ RenamedAuto(c) => rows[ver[c]].why \in Snapshots
        BY <2>4 DEF SetLabel, RenamedAuto, IInv, AutosAreSnapshots
      <4>3. /\ SameHistory(rows, rows')
            /\ \A i \in 1..Len(rows) : rows'[i].kept = rows[i].kept
            /\ rows'[ver[c]].named = wants[c] /\ rows'[ver[c]].auto = RenamedAuto(c)
            /\ \A i \in 1..Len(rows) : i # ver[c] => rows'[i] = rows[i]
        BY <2>1, <4>1, RelabelRow
      <4> QED BY <2>1, <3>1, <4>1, <4>2, <4>3
    <3>2. CASE ~rows[ver[c]].kept
      BY <2>1, <2>4, <3>2 DEF SetLabel, SameHistory
    <3> QED BY <3>1, <3>2
  <2> QED BY <2>2, <2>3, <2>4
<1>3. /\ rows' \in Seq(Row) /\ Len(rows') = Len(rows)
      /\ AutoSpacing' /\ NoRepeatedSnapshot' /\ NamedAreKept' /\ NewestKept'
      /\ Timely'
      /\ \A i, d : Holds(rows, i, d) => Holds(rows', i, d)
      /\ (rows = <<>>) <=> (rows' = <<>>)
      /\ rows # <<>> => /\ rows'[Len(rows')].data = Latest.data
                        /\ rows'[Len(rows')].at = Latest.at
  BY <1>1, <1>2, Updated
<1>4. /\ \A x \in Callers : x # c => pc'[x] = pc[x]
      /\ pc'[c] \in {"idle", "apply"}
      /\ pc' \in [Callers -> Steps]
      /\ lock' \in {lock, NoCaller}
      /\ \A x \in Callers : x # c => (lock = x => lock' = x)
      /\ pc'[c] = "apply" => pc[c] = "prune" /\ op[c] = "restore"
  BY VersionsAssumption DEF PruneAuto, Promote, SetLabel, Goto, Release, AfterSnapshot,
        IInv, TypeOK, LockHeld, Locked, Steps
<1>5. TypeOK'
  BY <1>1, <1>3, <1>4 DEF IInv, TypeOK
<1>6. LockHeld'
  BY <1>4 DEF IInv, LockHeld, Locked
<1>7. Decided'
  <2> SUFFICES ASSUME NEW x \in Callers, pc'[x] = "insert"
               PROVE  Snapshottable(data'[x]) /\ Fresh(data[x])' /\ Aged(op[x])'
    BY DEF Decided
  <2>1. Snapshottable(data[x]) /\ Fresh(data[x]) /\ Aged(op[x])
    BY <1>4 DEF IInv, Decided
  <2>2. data'[x] = data[x] /\ op'[x] = op[x]
    BY <1>1
  <2>3. (rows = <<>> \/ rows'[Len(rows')].data # data[x]) /\ ((rows' = <<>>) <=> (rows = <<>>))
    BY <1>3, <2>1 DEF Fresh
  <2>4. rows = <<>> \/ clock' - rows'[Len(rows')].at >= Gap(op[x])
    BY <1>1, <1>3, <2>1 DEF Aged
  <2> QED BY <1>3, <2>1, <2>2, <2>3, <2>4 DEF Fresh, Aged, Latest
<1>8. Snapshotting' /\ Targeted'
  BY <1>1, <1>3, <1>4 DEF IInv, Snapshotting, Targeted
<1>9. AutosAreSnapshots'
  <2>1. \A i \in 1..Len(rows) : rows'[i].why = rows[i].why
    BY <1>2 DEF SameHistory
  <2>2. \A x \in Callers : pc'[x] \in {"renameCount", "setLabel"} =>
            pc[x] = pc'[x] /\ ver[x] \in 1..Len(rows)
    BY <1>4 DEF IInv, Targeted
  <2>3. DOMAIN rows' = 1..Len(rows)
    BY <1>3
  <2> QED BY <1>1, <1>2, <2>1, <2>2, <2>3 DEF IInv, AutosAreSnapshots
<1>10. Covering'
  BY <1>1, <1>3, <1>4 DEF IInv, Covering
<1> QED BY <1>3, <1>5, <1>6, <1>7, <1>8, <1>9, <1>10 DEF IInv

(* Time only makes the newest version older.                               *)
LEMMA TickStep == IInv /\ Tick => IInv'
<1> SUFFICES ASSUME IInv, Tick PROVE IInv'
  OBVIOUS
<1>1. UNCHANGED <<rows, doc, lock, pc, op, data, ver, read, wants, covers, requests>>
      /\ clock' = clock + 1 /\ clock \in Nat
  BY DEF Tick, request, local, IInv, TypeOK
<1>2. TypeOK'
  BY <1>1 DEF IInv, TypeOK
<1>3. Decided'
  <2> SUFFICES ASSUME NEW c \in Callers, pc[c] = "insert"  PROVE Aged(op[c])'
    BY <1>1 DEF IInv, Decided, Fresh, Latest
  <2>1. Aged(op[c])
    BY DEF IInv, Decided
  <2>2. ASSUME rows # <<>>  PROVE Latest.at \in Nat /\ Gap(op[c]) \in Nat
    <3>1. Latest.at \in Nat
      BY <2>2, RowAt DEF IInv, Latest, Row
    <3>2. Gap(op[c]) \in Nat
      BY HistoryAssumption DEF Gap
    <3> QED BY <3>1, <3>2
  <2> QED BY <1>1, <2>1, <2>2 DEF Aged, Latest
<1>4. Timely'
  <2>1. \A i \in DOMAIN rows : rows[i].at \in Nat
    BY RowAt DEF IInv, Row
  <2> QED BY <1>1, <2>1 DEF IInv, Timely
<1>5. LockHeld' /\ Snapshotting' /\ Targeted' /\ AutosAreSnapshots' /\ Covering'
  BY <1>1 DEF IInv, LockHeld, Snapshotting, Targeted, AutosAreSnapshots, Covering, Holds, Later
<1> QED BY <1>1, <1>2, <1>3, <1>4, <1>5, RowsUnchanged DEF IInv

(* Every step of afterSave, sessionEnded, NameCurrent, Rename, Restore and *)
(* of the clock preserves the strengthened invariant.                      *)
LEMMA NextIInv == IInv /\ [Next]_vars => IInv'
<1> SUFFICES ASSUME IInv, [Next]_vars PROVE IInv'
  OBVIOUS
<1>1. CASE UNCHANGED vars
  BY <1>1, RowsUnchanged DEF IInv, vars, request, local, TypeOK, LockHeld, Decided, Snapshotting,
        Targeted, AutosAreSnapshots, Covering, Holds, Later, Timely, Fresh, Aged, Latest
<1>2. CASE Tick
  BY <1>2, TickStep
<1>3. ASSUME NEW c \in Callers, Arrive(c)  PROVE IInv'
  <2>1. UNCHANGED <<rows, clock>>
    BY <1>3 DEF Arrive, Save, SessionEnded, Resolve, RenameGet
  <2> QED BY <1>3, <2>1, QuietStep DEF Arrive
<1>4. ASSUME NEW c \in Callers, Fail(c)  PROVE IInv'
  BY <1>4, QuietStep DEF Fail
<1>5. ASSUME NEW c \in Callers, Proceed(c)  PROVE IInv'
  <2>1. CASE InsertAuto(c) \/ InsertNamed(c) \/ RecordRestore(c)
    BY <2>1, InsertStep
  <2>2. CASE PruneAuto(c) \/ Promote(c) \/ SetLabel(c)
    BY <2>2, UpdateStep
  <2>3. CASE \/ Due(c) \/ Load(c) \/ SnapshotSkipped(c) \/ SnapshotIfDue(c)
             \/ NameTooLarge(c) \/ NameCount(c) \/ NameLatest(c) \/ RenameCount(c)
             \/ \E i \in DOMAIN rows : RestoreGet(c, i)
             \/ RestoreMissing(c) \/ Apply(c)
    <3>1. UNCHANGED <<rows, clock>>
      BY <2>3 DEF Due, Load, SnapshotSkipped, SnapshotIfDue, NameTooLarge, NameCount,
            NameLatest, RenameCount, RestoreGet, RestoreMissing, Apply
    <3> QED BY <2>3, <3>1, QuietStep
  <2> QED BY <1>5, <2>1, <2>2, <2>3 DEF Proceed
<1> QED BY <1>1, <1>2, <1>3, <1>4, <1>5 DEF Next

-----------------------------------------------------------------------------
(* The theorems.                                                           *)

(* Every state of the manager's program satisfies the inductive invariant. *)
THEOREM Invariance == Spec => []IInv
  BY InitIInv, NextIInv, PTL DEF Spec

(* The variables keep their types: calls carry contents, existing version  *)
(* numbers and steps of the program, whatever the callers and policy.      *)
THEOREM TypeCorrect == Spec => []TypeOK
<1>1. IInv => TypeOK
  BY DEF IInv
<1> QED BY <1>1, Invariance, PTL

(* snapshotIfDue's lock does what its comment says: no two snapshots pass  *)
(* the throttle together and none repeats the version before it.           *)
THEOREM SnapshotsAreThrottled == Spec => []AutoSpacing
<1>1. IInv => AutoSpacing
  BY DEF IInv
<1> QED BY <1>1, Invariance, PTL

(* The de-duplication of snapshotIfDue holds under every interleaving.     *)
THEOREM SnapshotsDiffer == Spec => []NoRepeatedSnapshot
<1>1. IInv => NoRepeatedSnapshot
  BY DEF IInv
<1> QED BY <1>1, Invariance, PTL

(* Naming a version keeps it: no retention or concurrent rename loses it.  *)
THEOREM NamedVersionsSurvive == Spec => []NamedAreKept
<1>1. IInv => NamedAreKept
  BY DEF IInv
<1> QED BY <1>1, Invariance, PTL

(* Retention never deletes the version the next decision is judged by.     *)
THEOREM NewestSurvives == Spec => []NewestKept
<1>1. IInv => NewestKept
  BY DEF IInv
<1> QED BY <1>1, Invariance, PTL

(* What a restore overwrites was a version before it writes, and at the    *)
(* end of the call still is one, stored unless MaxAuto later snapshots took*)
(* its place: whatever other requests name, rename, save and prune.        *)
THEOREM RestoreKeepsWhatItRead == Spec => []RestoreCovered
<1>1. IInv => RestoreCovered
  BY DEF IInv, Covering, RestoreCovered
<1> QED BY <1>1, Invariance, PTL

-----------------------------------------------------------------------------
(* The refinement: whatever the interleaving of statements, the rows change*)
(* as by one whole snapshot, naming, relabelling or pruning at a time.     *)

(* An auto snapshot is an atomic decision at the moment of its insert.     *)
LEMMA InsertAutoIsSnapshot ==
    ASSUME IInv, NEW c \in Callers, InsertAuto(c)
    PROVE  History!Next
<1>1. /\ data[c] \in Contents /\ op[c] \in Snapshots
      /\ Snapshottable(data[c]) /\ Fresh(data[c]) /\ Aged(op[c])
  BY DEF IInv, TypeOK, Snapshotting, Decided, InsertAuto
<1>2. History!Snapshot(data[c], op[c])
  BY <1>1 DEF InsertAuto, History!Snapshot, History!Snapshottable, Snapshottable,
        History!Fresh, Fresh, History!Aged, Aged, History!Latest, Latest, History!Gap, Gap,
        History!AutoRow, AutoRow
<1> QED BY <1>1, <1>2 DEF History!Next, History!Snapshots, Snapshots

(* A named version (NameCurrent) or the row Restore leaves behind is the   *)
(* atomic addition of one labelled row.                                    *)
LEMMA NamedIsAdded ==
    ASSUME IInv, NEW c \in Callers, InsertNamed(c) \/ RecordRestore(c)
    PROVE  History!Next
<1>1. CASE InsertNamed(c)
  <2>1. data[c] \in Contents
    BY DEF IInv, TypeOK
  <2>2. History!AddNamed(data[c], "name")
    BY <1>1 DEF InsertNamed, History!AddNamed, History!NamedRow, NamedRow
  <2> QED BY <2>1, <2>2 DEF History!Next
<1>2. CASE RecordRestore(c)
  <2>1. rows[ver[c]].data \in Contents
    BY <1>2, RowAt DEF RecordRestore, IInv, Targeted, Row
  <2>2. History!AddNamed(rows[ver[c]].data, "restored")
    BY <1>2 DEF RecordRestore, History!AddNamed, History!NamedRow, NamedRow
  <2> QED BY <2>1, <2>2 DEF History!Next
<1> QED BY <1>1, <1>2

(* NameCurrent's promotion of the newest row and Rename's SetLabel are     *)
(* the atomic relabelling of one row, or no change at all.                 *)
LEMMA LabelIsRelabel ==
    ASSUME IInv, NEW c \in Callers, Promote(c) \/ SetLabel(c)
    PROVE  [History!Next]_<<rows, clock>>
<1>1. DOMAIN rows = 1..Len(rows)
  BY RowAt DEF IInv
<1>2. CASE Promote(c)
  <2>1. ver[c] \in DOMAIN rows /\ rows[ver[c]].kept
    BY <1>1, <1>2, RowAt DEF Promote, IInv, Targeted, NewestKept, Latest
  <2>2. History!Relabel(ver[c], TRUE, FALSE)
    BY <1>2, <2>1 DEF Promote, History!Relabel
  <2> QED BY <2>1, <2>2 DEF History!Next
<1>3. CASE SetLabel(c)
  <2>1. ver[c] \in DOMAIN rows /\ wants[c] \in BOOLEAN /\ RenamedAuto(c) \in BOOLEAN
    BY <1>1, <1>3 DEF SetLabel, IInv, Targeted, TypeOK, RenamedAuto
  <2>2. CASE rows[ver[c]].kept
    <3>1. History!Relabel(ver[c], wants[c], RenamedAuto(c))
      BY <1>3, <2>2 DEF SetLabel, History!Relabel, RenamedAuto
    <3> QED BY <2>1, <3>1 DEF History!Next
  <2>3. CASE ~rows[ver[c]].kept
    BY <1>3, <2>3 DEF SetLabel
  <2> QED BY <2>2, <2>3
<1> QED BY <1>2, <1>3

(* The manager of concurrent requests implements the atomic history.       *)
THEOREM Refinement == Spec => HistoryIsAtomic
<1>1. Init => History!Init
  BY DEF Init, History!Init
<1>2. ASSUME IInv, [Next]_vars PROVE [History!Next]_<<rows, clock>>
  <2>1. CASE UNCHANGED vars
    BY <2>1 DEF vars
  <2>2. CASE Tick
    BY <2>2 DEF Tick, History!Next, History!Tick
  <2>3. ASSUME NEW c \in Callers, Arrive(c) \/ Fail(c)  PROVE UNCHANGED <<rows, clock>>
    BY <2>3 DEF Arrive, Fail, Save, SessionEnded, Resolve, RenameGet
  <2>4. ASSUME NEW c \in Callers, Proceed(c)  PROVE [History!Next]_<<rows, clock>>
    <3>1. CASE InsertAuto(c)
      BY <3>1, <1>2, InsertAutoIsSnapshot
    <3>2. CASE InsertNamed(c) \/ RecordRestore(c)
      BY <3>2, <1>2, NamedIsAdded
    <3>3. CASE Promote(c) \/ SetLabel(c)
      BY <3>3, <1>2, LabelIsRelabel
    <3>4. CASE PruneAuto(c)
      BY <3>4 DEF PruneAuto, History!Next
    <3>5. CASE \/ Due(c) \/ Load(c) \/ SnapshotSkipped(c) \/ SnapshotIfDue(c)
               \/ NameTooLarge(c) \/ NameCount(c) \/ NameLatest(c) \/ RenameCount(c)
               \/ \E i \in DOMAIN rows : RestoreGet(c, i)
               \/ RestoreMissing(c) \/ Apply(c)
      BY <3>5 DEF Due, Load, SnapshotSkipped, SnapshotIfDue, NameTooLarge, NameCount,
            NameLatest, RenameCount, RestoreGet, RestoreMissing, Apply
    <3> QED BY <2>4, <3>1, <3>2, <3>3, <3>4, <3>5 DEF Proceed
  <2> QED BY <1>2, <2>1, <2>2, <2>3, <2>4 DEF Next
<1> QED BY <1>1, <1>2, Invariance, PTL DEF Spec, History!Spec, HistoryIsAtomic
=============================================================================
