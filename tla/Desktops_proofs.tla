--------------------------- MODULE Desktops_proofs ---------------------------
(***************************************************************************)
(* Proofs about Desktops, for every set of requests and users and every    *)
(* number of sessions, failures and restarts: no workload runs unaccounted *)
(* for, and a session offered as running can be opened.                    *)
(***************************************************************************)
EXTENDS Desktops, TLAPS, SequenceTheorems

-----------------------------------------------------------------------------
(* The inductive invariant.                                                *)

(* A session's provisioner provisions that session; nobody else does.      *)
OwnProvisioner ==
    /\ \A i \in 1..MaxSessions :
          \/ task[i] = Idle
          \/ i \in DOMAIN rows /\ task[i].id = i /\ task[i].do \in {"build", "fail"}
    /\ \A p \in Callers \cup {Reaper} : task[p].do \in {"none", "create", "teardown"}

(* The row names the workload only once it is complete.                    *)
RecordedLast ==
    \A i \in DOMAIN rows :
        /\ rows[i].state = "running" => rows[i].recorded
        /\ Provisioning(i) => ~rows[i].recorded

(* Whoever removes a workload on the strength of a row had seen it named.  *)
SeenRecorded ==
    /\ \A p \in Processes :
          task[p].do = "teardown" /\ task[p].step # "mark" => rows[task[p].id].recorded
    /\ \A r \in reapList : r.recorded => rows[r.id].recorded

(* What a provisioner has made at each step ...                            *)
Made(step) ==
    CASE step = "pod" -> {}
      [] step = "service" -> {"pod"}
      [] step \in {"wait", "connection"} -> {"pod", "service"}
      [] step = "grant" -> {"pod", "service", "connection"}
      [] OTHER -> Parts

(* ... and what fail may have left to remove.                              *)
Left(step) ==
    CASE step = "pod" -> {"pod", "service"}
      [] step = "service" -> {"service"}
      [] step = "mark" -> {}
      [] OTHER -> Parts

Progress ==
    \A i \in DOMAIN rows :
        /\ task[i].do = "build" => up[i] = Made(task[i].step)
        /\ task[i].do = "fail" /\ i \notin spoilt => up[i] \subseteq Left(task[i].step)

IInv == TypeOK /\ OwnProvisioner /\ RecordedLast /\ SeenRecorded /\ Progress
        /\ Accounted /\ RunningIsUp

-----------------------------------------------------------------------------
(* What the types say of a session and of a process, for use at a step.    *)
LEMMA SessionTypes ==
    ASSUME TypeOK
    PROVE  /\ DOMAIN rows = 1..Len(rows) /\ DOMAIN up = DOMAIN rows /\ Len(rows) \in Nat
           /\ DOMAIN rows \subseteq 1..MaxSessions
           /\ \A i \in DOMAIN rows : rows[i] \in Row /\ up[i] \in SUBSET Parts
           /\ \A i \in DOMAIN rows : i \in Processes /\ i \notin Callers \cup {Reaper}
<1>1. DOMAIN rows = 1..Len(rows) /\ DOMAIN up = 1..Len(up) /\ Len(rows) \in Nat
  BY DEF TypeOK
<1>2. DOMAIN rows \subseteq 1..MaxSessions
  BY <1>1, DesktopsAssumption DEF TypeOK
<1>3. \A i \in DOMAIN rows : rows[i] \in Row
  BY <1>1 DEF TypeOK
<1>4. \A i \in DOMAIN up : up[i] \in SUBSET Parts
  BY <1>1 DEF TypeOK
<1> QED BY <1>1, <1>2, <1>3, <1>4, DesktopsAssumption DEF TypeOK, Processes

(* A process changes what it does.                                         *)
LEMMA TaskChange ==
    ASSUME TypeOK, NEW p \in Processes, NEW t \in Task, task' = [task EXCEPT ![p] = t]
    PROVE  /\ task' \in [Processes -> Task]
           /\ task'[p] = t
           /\ \A q \in Processes : q # p => task'[q] = task[q]
  BY DEF TypeOK

(* A process takes its next step.                                          *)
LEMMA StepChange ==
    ASSUME TypeOK, NEW p \in Processes, NEW s, Steps(p, s),
           s \in {"none", "pod", "service", "wait", "connection", "grant", "run", "mark"}
    PROVE  /\ task' \in [Processes -> Task]
           /\ task'[p].do = task[p].do /\ task'[p].id = task[p].id /\ task'[p].step = s
           /\ \A q \in Processes : q # p => task'[q] = task[q]
<1>1. task[p] \in Task /\ task \in [Processes -> Task]
  BY DEF TypeOK
<1>2. task' = [task EXCEPT ![p] = [task[p] EXCEPT !.step = s]]
  BY <1>1 DEF Steps, Task
<1>3. [task[p] EXCEPT !.step = s] = [do |-> task[p].do, step |-> s, id |-> task[p].id]
  BY <1>1 DEF Task
<1>4. [do |-> task[p].do, step |-> s, id |-> task[p].id] \in Task
  BY <1>1 DEF Task
<1> QED BY <1>1, <1>2, <1>3, <1>4

(* A part of one session's workload is made or removed.                    *)
LEMMA UpChange ==
    ASSUME TypeOK, NEW i \in DOMAIN rows, NEW w \in SUBSET Parts, up' = [up EXCEPT ![i] = w]
    PROVE  /\ up' \in Seq(SUBSET Parts) /\ Len(up') = Len(up)
           /\ up'[i] = w
           /\ \A j \in DOMAIN rows : j # i => up'[j] = up[j]
<1>1. up \in Seq(SUBSET Parts) /\ DOMAIN up = DOMAIN rows
  BY SessionTypes DEF TypeOK
<1>2. up' \in Seq(SUBSET Parts) /\ Len(up') = Len(up)
  BY <1>1, ExceptSeq
<1> QED BY <1>1, <1>2

(* One session's row is written.                                           *)
LEMMA RowChange ==
    ASSUME TypeOK, NEW i \in DOMAIN rows, NEW r \in Row, rows' = [rows EXCEPT ![i] = r]
    PROVE  /\ rows' \in Seq(Row) /\ Len(rows') = Len(rows) /\ DOMAIN rows' = DOMAIN rows
           /\ rows'[i] = r
           /\ \A j \in DOMAIN rows : j # i => rows'[j] = rows[j]
<1>1. rows \in Seq(Row) /\ DOMAIN rows = 1..Len(rows)
  BY SessionTypes DEF TypeOK
<1>2. rows' \in Seq(Row) /\ Len(rows') = Len(rows)
  BY <1>1, ExceptSeq
<1> QED BY <1>1, <1>2
-----------------------------------------------------------------------------
(* The steps of a request or of the reaper, which read rows and change at  *)
(* most what that process does.                                            *)
LEMMA RequestStep ==
    ASSUME IInv, UNCHANGED <<rows, up>>, spoilt \subseteq spoilt', TypeOK',
           NEW p \in Callers \cup {Reaper}, NEW t \in Task, task' = [task EXCEPT ![p] = t],
           t.do \in {"none", "create", "teardown"},
           t.do = "teardown" /\ t.step # "mark" => rows[t.id].recorded,
           \A r \in reapList' : r.recorded => rows[r.id].recorded,
           task[p].do = "teardown" => task[p].id \in spoilt' \/ rows[task[p].id].state # "running"
    PROVE  IInv'
<1>0. TypeOK
  BY DEF IInv
<1>1. p \in Processes /\ \A i \in 1..MaxSessions : i # p /\ i \in Processes
  BY DesktopsAssumption DEF Processes
<1>2. /\ task'[p] = t
      /\ \A q \in Processes : q # p => task'[q] = task[q]
      /\ \A i \in 1..MaxSessions : task'[i] = task[i]
      /\ \A i \in DOMAIN rows : task'[i] = task[i]
  BY <1>0, <1>1, TaskChange, SessionTypes
<1>3. OwnProvisioner'
  <2>1. \A q \in Callers \cup {Reaper} : q \in Processes
    BY DEF Processes
  <2> QED BY <1>2, <2>1 DEF IInv, OwnProvisioner, Idle
<1>4. RecordedLast'
  BY <1>2 DEF IInv, RecordedLast, Provisioning
<1>5. SeenRecorded'
  BY <1>2 DEF IInv, SeenRecorded
<1>6. Progress'
  BY <1>2 DEF IInv, Progress, Made, Left
<1>7. Accounted'
  BY <1>2 DEF IInv, Accounted, Provisioning
<1>8. RunningIsUp'
  <2> SUFFICES ASSUME NEW i \in DOMAIN rows \ spoilt', rows[i].state = "running"
               PROVE  up[i] = Parts \/ TearingDown(i)'
    BY DEF RunningIsUp
  <2>1. CASE up[i] = Parts
    BY <2>1
  <2>2. CASE TearingDown(i)
    <3>1. PICK q \in Processes : task[q].do = "teardown" /\ task[q].id = i
      BY <2>2 DEF TearingDown
    <3>2. q # p
      BY <3>1
    <3> QED BY <1>2, <3>1, <3>2 DEF TearingDown
  <2> QED BY <2>1, <2>2 DEF IInv, RunningIsUp
<1> QED BY <1>3, <1>4, <1>5, <1>6, <1>7, <1>8 DEF IInv

(* The steps of Launch, Stop and Reap that begin or give up something.     *)
LEMMA RequestsKeep ==
    ASSUME IInv
    PROVE  /\ \A c \in Callers : Launch(c) \/ CreateFails(c) => IInv'
           /\ \A c \in Callers : \A i \in DOMAIN rows : Stop(c, i) => IInv'
           /\ ReapNext => IInv'
<1>0. TypeOK /\ SeenRecorded
  BY DEF IInv
<1>1. ASSUME NEW c \in Callers, Launch(c)  PROVE IInv'
  <2> DEFINE t == [do |-> "create", step |-> "none", id |-> 0]
  <2>1. t \in Task /\ c \in Processes
    BY DesktopsAssumption DEF Task, Processes
  <2>2. task' = [task EXCEPT ![c] = t]
    BY <1>1 DEF Launch, Does
  <2>3. TypeOK'
    <3>1. task' \in [Processes -> Task] /\ task'[c] = t
          /\ \A q \in Processes : q # c => task'[q] = task[q]
      BY <1>0, <2>1, <2>2, TaskChange
    <3> QED BY <1>0, <1>1, <3>1 DEF TypeOK, Launch, counts
  <2>4. task[c].do = "none"
    BY <1>1 DEF Launch, Idle
  <2>5. UNCHANGED <<rows, up>> /\ spoilt' = spoilt /\ reapList' = reapList
    BY <1>1 DEF Launch
  <2>6. t.do = "create"
    OBVIOUS
  <2> HIDE DEF t
  <2> QED BY <1>0, <2>1, <2>2, <2>3, <2>4, <2>5, <2>6, RequestStep DEF SeenRecorded
<1>2. ASSUME NEW c \in Callers, CreateFails(c)  PROVE IInv'
  <2>1. Idle \in Task /\ c \in Processes
    BY DesktopsAssumption DEF Task, Idle, Processes
  <2>2. task' = [task EXCEPT ![c] = Idle]
    BY <1>2 DEF CreateFails, Does
  <2>3. TypeOK'
    <3>1. task' \in [Processes -> Task] /\ task'[c] = Idle
          /\ \A q \in Processes : q # c => task'[q] = task[q]
      BY <1>0, <2>1, <2>2, TaskChange
    <3>2. failures' \in 0..MaxFailures
      BY <1>0, <1>2, DesktopsAssumption DEF TypeOK, CreateFails, Fails
    <3> QED BY <1>0, <1>2, <3>1, <3>2 DEF TypeOK, CreateFails, Fails, Idle
  <2>4. task[c].do = "create" /\ Idle.do = "none"
    BY <1>2 DEF CreateFails, Idle
  <2>5. UNCHANGED <<rows, up>> /\ spoilt' = spoilt /\ reapList' = reapList
    BY <1>2 DEF CreateFails
  <2> QED BY <1>0, <2>1, <2>2, <2>3, <2>4, <2>5, RequestStep DEF SeenRecorded
<1>3. ASSUME NEW c \in Callers, NEW i \in DOMAIN rows, Stop(c, i)  PROVE IInv'
  <2> DEFINE t == Teardown(i, rows[i].recorded)
  <2>0. i \in 1..MaxSessions
    BY <1>0, SessionTypes
  <2>1. t \in Task /\ t.do = "teardown" /\ t.id = i /\ (t.step # "mark" => rows[i].recorded)
        /\ c \in Processes
    BY <2>0, DesktopsAssumption DEF Task, Teardown, Processes
  <2>2. task' = [task EXCEPT ![c] = t]
    BY <1>3 DEF Stop, Does
  <2>3. task[c].do = "none" /\ UNCHANGED <<rows, up>> /\ spoilt' = spoilt /\ reapList' = reapList
    BY <1>3 DEF Stop, Idle
  <2> HIDE DEF t
  <2>4. TypeOK'
    <3>1. task' \in [Processes -> Task] /\ task'[c] = t
          /\ \A q \in Processes : q # c => task'[q] = task[q]
      BY <1>0, <2>1, <2>2, TaskChange
    <3> QED BY <1>0, <1>3, <2>1, <3>1 DEF TypeOK, Stop, counts
  <2> QED BY <1>0, <2>1, <2>2, <2>3, <2>4, RequestStep DEF SeenRecorded
<1>4. ASSUME ReapNext  PROVE IInv'
  <2>1. PICK r \in reapList : /\ reapList' = reapList \ {r}
                              /\ Does(Reaper, Teardown(r.id, r.recorded))
    BY <1>4 DEF ReapNext
  <2> DEFINE t == Teardown(r.id, r.recorded)
  <2>2. r.id \in DOMAIN rows /\ r.id \in 1..MaxSessions /\ (r.recorded => rows[r.id].recorded)
    BY <1>0, SessionTypes DEF TypeOK, SeenRecorded
  <2>3. t \in Task /\ t.do = "teardown" /\ t.id = r.id /\ (t.step # "mark" => rows[r.id].recorded)
        /\ Reaper \in Processes
    BY <2>2, DesktopsAssumption DEF Task, Teardown, Processes
  <2>4. task' = [task EXCEPT ![Reaper] = t]
    BY <2>1 DEF Does
  <2>5. task[Reaper].do = "none" /\ UNCHANGED <<rows, up>> /\ spoilt' = spoilt
    BY <1>4 DEF ReapNext, Idle
  <2> HIDE DEF t
  <2>6. TypeOK'
    <3>1. task' \in [Processes -> Task] /\ task'[Reaper] = t
          /\ \A q \in Processes : q # Reaper => task'[q] = task[q]
      BY <1>0, <2>3, <2>4, TaskChange
    <3>2. reapList' \subseteq reapList
      BY <2>1
    <3> QED BY <1>0, <1>4, <2>2, <2>3, <3>1, <3>2 DEF TypeOK, ReapNext, counts
  <2> QED BY <1>0, <2>1, <2>3, <2>4, <2>5, <2>6, RequestStep DEF SeenRecorded
<1> QED BY <1>1, <1>2, <1>3, <1>4
-----------------------------------------------------------------------------
(* Steps that read no row and move no process: a heartbeat, time, ListIdle.*)
LEMMA WatchKeeps ==
    ASSUME IInv
    PROVE  /\ \A i \in DOMAIN rows : Touch(i) \/ Expire(i) => IInv'
           /\ ListIdle => IInv'
<1>0. TypeOK
  BY DEF IInv
<1>1. ASSUME UNCHANGED <<rows, up, task, spoilt>>, TypeOK', SeenRecorded'  PROVE IInv'
  <2>1. OwnProvisioner' /\ RecordedLast'
    BY <1>1 DEF IInv, OwnProvisioner, RecordedLast, Provisioning
  <2>2. Progress' /\ Accounted'
    BY <1>1 DEF IInv, Progress, Made, Left, Accounted, Provisioning
  <2>3. RunningIsUp'
    BY <1>1 DEF IInv, RunningIsUp, TearingDown
  <2> QED BY <1>1, <2>1, <2>2, <2>3 DEF IInv
<1>2. ASSUME NEW i \in DOMAIN rows, Touch(i)  PROVE IInv'
  <2>1. TypeOK'
    BY <1>0, <1>2, DesktopsAssumption DEF TypeOK, Touch
  <2>2. SeenRecorded'
    BY <1>2 DEF IInv, SeenRecorded, Touch
  <2> QED BY <1>1, <1>2, <2>1, <2>2 DEF Touch
<1>3. ASSUME NEW i \in DOMAIN rows, Expire(i)  PROVE IInv'
  <2>1. TypeOK'
    BY <1>0, <1>3 DEF TypeOK, Expire, counts
  <2>2. SeenRecorded'
    BY <1>3 DEF IInv, SeenRecorded, Expire
  <2> QED BY <1>1, <1>3, <2>1, <2>2 DEF Expire
<1>4. ASSUME ListIdle  PROVE IInv'
  <2>1. UNCHANGED <<rows, idle, up, task, spoilt, counts>>
        /\ reapList' = {[id |-> i, recorded |-> rows[i].recorded] : i \in {j \in idle : Active(j)}}
    BY <1>4 DEF ListIdle
  <2>2. \A i \in idle : i \in DOMAIN rows /\ rows[i].recorded \in BOOLEAN
    BY <1>0, SessionTypes DEF TypeOK, Row
  <2>3. TypeOK'
    BY <1>0, <2>1, <2>2 DEF TypeOK, counts
  <2>4. \A r \in reapList' : r.recorded => rows[r.id].recorded
    BY <2>1
  <2>5. SeenRecorded'
    BY <2>1, <2>4 DEF IInv, SeenRecorded
  <2> QED BY <1>1, <2>1, <2>3, <2>5
<1> QED BY <1>2, <1>3, <1>4

(* Launch's second statement: a new row, and its provisioner.              *)
LEMMA CreateKeeps ==
    ASSUME IInv, NEW c \in Callers, Create(c)
    PROVE  IInv'
<1> DEFINE n == Len(rows) + 1
           r == [user |-> UserOf[c], state |-> "starting", recorded |-> FALSE]
           t == [do |-> "build", step |-> "pod", id |-> n]
<1>0. TypeOK
  BY DEF IInv
<1>1. /\ rows' = Append(rows, r) /\ up' = Append(up, {})
      /\ task' = [task EXCEPT ![c] = Idle, ![n] = t]
      /\ UNCHANGED <<idle, reapList, spoilt, counts>>
      /\ task[c].do = "create" /\ Len(rows) < MaxSessions
  BY DEF Create
<1>2. /\ n \in 1..MaxSessions /\ n \in Processes /\ n \notin Callers \cup {Reaper}
      /\ c \in Processes /\ c # n
  BY <1>0, <1>1, SessionTypes, DesktopsAssumption DEF Processes
<1>3. r \in Row /\ t \in Task /\ Idle \in Task /\ r.state = "starting" /\ ~r.recorded
      /\ t.do = "build" /\ t.step = "pod" /\ t.id = n
  BY <1>2, DesktopsAssumption DEF Row, Task, Idle
<1>4. /\ rows' \in Seq(Row) /\ Len(rows') = n /\ DOMAIN rows' = DOMAIN rows \cup {n}
      /\ rows'[n] = r /\ \A i \in DOMAIN rows : rows'[i] = rows[i] /\ i # n
      /\ n \notin DOMAIN rows
  <2>1. rows \in Seq(Row)
    BY <1>0 DEF TypeOK
  <2> HIDE DEF r
  <2> QED BY <1>0, <1>1, <1>3, <2>1, AppendProperties, SessionTypes
<1>5. /\ up' \in Seq(SUBSET Parts) /\ Len(up') = n
      /\ up'[n] = {} /\ \A i \in DOMAIN rows : up'[i] = up[i]
  <2>1. up \in Seq(SUBSET Parts) /\ Len(up) = Len(rows) /\ {} \in SUBSET Parts
    BY <1>0 DEF TypeOK
  <2> QED BY <1>0, <1>1, <2>1, AppendProperties, SessionTypes
<1> HIDE DEF n, r, t
<1>6. /\ task' \in [Processes -> Task]
      /\ task'[c] = Idle /\ task'[n] = t
      /\ \A q \in Processes : q # c /\ q # n => task'[q] = task[q]
  BY <1>0, <1>1, <1>2, <1>3 DEF TypeOK
<1>7. \A i \in DOMAIN rows : task'[i] = task[i] /\ i \in Processes
  BY <1>0, <1>2, <1>4, <1>6, SessionTypes
<1>8. Idle.do = "none"
  BY DEF Idle
<1>9. TypeOK'
  <2>1. n <= MaxSessions
    BY <1>2
  <2>2. \A p \in Processes : task'[p].do \in {"build", "fail", "teardown"} => task'[p].id \in DOMAIN rows'
    BY <1>0, <1>3, <1>4, <1>6, <1>8 DEF TypeOK
  <2>3. reapList' \subseteq [id : DOMAIN rows', recorded : BOOLEAN]
        /\ idle' \subseteq DOMAIN rows' /\ spoilt' \subseteq DOMAIN rows'
    BY <1>0, <1>1, <1>4 DEF TypeOK
  <2> QED BY <1>0, <1>1, <1>4, <1>5, <1>6, <2>1, <2>2, <2>3 DEF TypeOK, counts
<1>10. OwnProvisioner'
  <2>1. \A i \in 1..MaxSessions : i \in Processes /\ i # c
    BY DesktopsAssumption DEF Processes
  <2>2. \A p \in Callers \cup {Reaper} : p \in Processes
    BY DEF Processes
  <2>3. \A i \in 1..MaxSessions :
           task'[i] = Idle \/ (i \in DOMAIN rows' /\ task'[i].id = i /\ task'[i].do \in {"build", "fail"})
    BY <1>2, <1>3, <1>4, <1>6, <2>1 DEF IInv, OwnProvisioner
  <2>4. \A p \in Callers \cup {Reaper} : task'[p].do \in {"none", "create", "teardown"}
    BY <1>2, <1>6, <1>8, <2>2 DEF IInv, OwnProvisioner
  <2> QED BY <2>3, <2>4 DEF OwnProvisioner
<1>11. RecordedLast'
  BY <1>3, <1>4, <1>7 DEF IInv, RecordedLast, Provisioning
<1>12. SeenRecorded'
  <2>1. ASSUME NEW p \in Processes, task'[p].do = "teardown", task'[p].step # "mark"
        PROVE  rows'[task'[p].id].recorded
    BY <1>0, <1>3, <1>4, <1>6, <1>8, <2>1 DEF IInv, SeenRecorded, TypeOK
  <2>2. ASSUME NEW e \in reapList', e.recorded  PROVE rows'[e.id].recorded
    BY <1>0, <1>1, <1>4, <2>2 DEF IInv, SeenRecorded, TypeOK
  <2> QED BY <2>1, <2>2 DEF SeenRecorded
<1>13. Progress'
  <2>1. Made("pod") = {}
    BY DEF Made
  <2>2. ASSUME NEW i \in DOMAIN rows
        PROVE  /\ task'[i].do = "build" => up'[i] = Made(task'[i].step)
               /\ task'[i].do = "fail" /\ i \notin spoilt' => up'[i] \subseteq Left(task'[i].step)
    BY <1>1, <1>5, <1>7 DEF IInv, Progress
  <2>3. task'[n].do = "build" /\ up'[n] = Made(task'[n].step)
    BY <1>3, <1>5, <1>6, <2>1
  <2> QED BY <1>4, <2>2, <2>3 DEF Progress
<1>14. Accounted'
  BY <1>1, <1>4, <1>5, <1>7 DEF IInv, Accounted, Provisioning
<1>15. RunningIsUp'
  <2>1. \A i : TearingDown(i) => TearingDown(i)'
    <3> SUFFICES ASSUME NEW i, NEW p \in Processes, task[p].do = "teardown", task[p].id = i
                 PROVE  TearingDown(i)'
      BY DEF TearingDown
    <3>1. p # c
      BY <1>1
    <3>2. p # n
      BY <1>2, <1>4 DEF IInv, OwnProvisioner, Idle
    <3> QED BY <1>6, <3>1, <3>2 DEF TearingDown
  <2>2. ASSUME NEW i \in DOMAIN rows' \ spoilt', rows'[i].state = "running"
        PROVE  up'[i] = Parts \/ TearingDown(i)'
    <3>1. i \in DOMAIN rows \ spoilt
      BY <1>1, <1>3, <1>4, <2>2
    <3> QED BY <1>4, <1>5, <2>1, <2>2, <3>1 DEF IInv, RunningIsUp
  <2> QED BY <2>2 DEF RunningIsUp
<1> QED BY <1>9, <1>10, <1>11, <1>12, <1>13, <1>14, <1>15 DEF IInv
-----------------------------------------------------------------------------
(* A step of a session's provisioner, in provision or in fail: whatever it *)
(* does to its own session, the invariant of the others is not concerned.  *)
LEMMA ProvisionerStep ==
    ASSUME IInv, TypeOK', NEW i \in DOMAIN rows, Provisioning(i),
           DOMAIN rows' = DOMAIN rows, reapList' = reapList, spoilt \subseteq spoilt',
           \A j \in DOMAIN rows : j # i => rows'[j] = rows[j] /\ up'[j] = up[j],
           \A q \in Processes : q # i => task'[q] = task[q],
           task'[i] = Idle \/ (task'[i].id = i /\ task'[i].do \in {"build", "fail"}),
           rows'[i].state = "running" => rows'[i].recorded,
           task'[i].do \in {"build", "fail"} => ~rows'[i].recorded,
           task'[i].do = "build" => up'[i] = Made(task'[i].step),
           task'[i].do = "fail" /\ i \notin spoilt' => up'[i] \subseteq Left(task'[i].step),
           task'[i] = Idle /\ i \notin spoilt' => up'[i] = {} \/ rows'[i].recorded,
           rows'[i].state = "running" /\ i \notin spoilt' => up'[i] = Parts
    PROVE  IInv'
<1>0. TypeOK /\ ~rows[i].recorded /\ i \in Processes /\ i \notin Callers \cup {Reaper}
  BY SessionTypes DEF IInv, RecordedLast
<1>1. \A j \in DOMAIN rows : j \in Processes /\ j \in 1..MaxSessions
  BY <1>0, SessionTypes
<1>2. OwnProvisioner'
  <2>1. \A j \in 1..MaxSessions : j \in Processes
    BY DEF Processes
  <2>2. \A q \in Callers \cup {Reaper} : q \in Processes /\ q # i
    BY <1>0 DEF Processes
  <2> QED BY <1>0, <2>1, <2>2 DEF IInv, OwnProvisioner
<1>3. RecordedLast'
  <2>1. ASSUME NEW j \in DOMAIN rows
        PROVE  /\ rows'[j].state = "running" => rows'[j].recorded
               /\ task'[j].do \in {"build", "fail"} => ~rows'[j].recorded
    BY <1>1 DEF IInv, RecordedLast, Provisioning
  <2> QED BY <2>1 DEF RecordedLast, Provisioning
<1>4. SeenRecorded'
  <2>1. ASSUME NEW p \in Processes, task'[p].do = "teardown", task'[p].step # "mark"
        PROVE  rows'[task'[p].id].recorded
    <3>1. p # i
      BY <2>1 DEF Idle
    <3>2. task'[p] = task[p] /\ task[p].id \in DOMAIN rows /\ rows[task[p].id].recorded
      BY <1>0, <2>1, <3>1 DEF IInv, SeenRecorded, TypeOK
    <3> QED BY <1>0, <3>2
  <2>2. ASSUME NEW r \in reapList', r.recorded  PROVE rows'[r.id].recorded
    <3>1. r.id \in DOMAIN rows /\ rows[r.id].recorded
      BY <1>0, <2>2 DEF IInv, SeenRecorded, TypeOK
    <3> QED BY <1>0, <3>1
  <2> QED BY <2>1, <2>2 DEF SeenRecorded
<1>5. Progress'
  <2>1. ASSUME NEW j \in DOMAIN rows
        PROVE  /\ task'[j].do = "build" => up'[j] = Made(task'[j].step)
               /\ task'[j].do = "fail" /\ j \notin spoilt' => up'[j] \subseteq Left(task'[j].step)
    <3>1. CASE j = i
      BY <3>1
    <3>2. CASE j # i
      <4>1. task'[j] = task[j] /\ up'[j] = up[j]
        BY <1>1, <3>2
      <4> QED BY <4>1 DEF IInv, Progress
    <3> QED BY <3>1, <3>2
  <2> QED BY <2>1 DEF Progress
<1>6. Accounted'
  <2>1. ASSUME NEW j \in DOMAIN rows \ spoilt', up'[j] # {}
        PROVE  task'[j].do \in {"build", "fail"} \/ rows'[j].recorded
    <3>1. CASE j = i
      BY <2>1, <3>1
    <3>2. CASE j # i
      <4>1. task'[j] = task[j] /\ up'[j] = up[j] /\ rows'[j] = rows[j]
        BY <1>1, <3>2
      <4> QED BY <2>1, <4>1 DEF IInv, Accounted, Provisioning
    <3> QED BY <3>1, <3>2
  <2> QED BY <2>1 DEF Accounted, Provisioning
<1>7. RunningIsUp'
  <2>1. ASSUME NEW j \in DOMAIN rows \ spoilt', rows'[j].state = "running"
        PROVE  up'[j] = Parts \/ TearingDown(j)'
    <3>1. CASE j = i
      BY <2>1, <3>1
    <3>2. CASE j # i /\ up[j] = Parts
      BY <3>2
    <3>3. CASE j # i /\ TearingDown(j)
      <4>1. PICK p \in Processes : task[p].do = "teardown" /\ task[p].id = j
        BY <3>3 DEF TearingDown
      <4>2. p # i
        BY <4>1 DEF Provisioning
      <4> QED BY <4>1, <4>2 DEF TearingDown
    <3> QED BY <2>1, <3>1, <3>2, <3>3 DEF IInv, RunningIsUp
  <2> QED BY <2>1 DEF RunningIsUp
<1> QED BY <1>2, <1>3, <1>4, <1>5, <1>6, <1>7 DEF IInv

(* provision's successful calls.                                           *)
LEMMA MakesKeeps ==
    ASSUME IInv, NEW i \in DOMAIN rows,
           \/ CreatePod(i) \/ CreateService(i) \/ WaitReady(i)
           \/ CreateConnection(i) \/ Grant(i)
    PROVE  IInv'
<1>0. /\ TypeOK /\ i \in Processes /\ i \in 1..MaxSessions /\ rows[i] \in Row
      /\ up[i] \in SUBSET Parts /\ DOMAIN up = DOMAIN rows
  BY SessionTypes DEF IInv
<1>1. task[i].do = "build" /\ UNCHANGED <<rows, idle, reapList, spoilt, counts>>
  BY DEF CreatePod, CreateService, WaitReady, CreateConnection, Grant, At, Makes
<1>2. Provisioning(i) /\ task[i].id = i /\ ~rows[i].recorded /\ up[i] = Made(task[i].step)
      /\ (rows[i].state = "running" => rows[i].recorded)
  BY <1>0, <1>1 DEF IInv, OwnProvisioner, Provisioning, RecordedLast, Progress, Idle
<1>3. PICK s \in {"service", "wait", "connection", "grant", "run"} :
         /\ Steps(i, s) /\ Made(s) \in SUBSET Parts
         /\ up' = [up EXCEPT ![i] = Made(s)] \/ (up' = up /\ up[i] = Made(s))
  <2>1. CASE CreatePod(i)
    <3>1. Steps(i, "service") /\ up' = [up EXCEPT ![i] = up[i] \cup {"pod"}] /\ task[i].step = "pod"
      BY <2>1 DEF CreatePod, At, Makes
    <3>2. up[i] \cup {"pod"} = Made("service") /\ Made("service") \in SUBSET Parts
      BY <1>2, <3>1 DEF Made, Parts
    <3> QED BY <3>1, <3>2
  <2>2. CASE CreateService(i)
    <3>1. Steps(i, "wait") /\ up' = [up EXCEPT ![i] = up[i] \cup {"service"}] /\ task[i].step = "service"
      BY <2>2 DEF CreateService, At, Makes
    <3>2. up[i] \cup {"service"} = Made("wait") /\ Made("wait") \in SUBSET Parts
      BY <1>2, <3>1 DEF Made, Parts
    <3> QED BY <3>1, <3>2
  <2>3. CASE WaitReady(i)
    <3>1. Steps(i, "connection") /\ up' = up /\ task[i].step = "wait"
      BY <2>3 DEF WaitReady, At
    <3>2. up[i] = Made("connection") /\ Made("connection") \in SUBSET Parts
      BY <1>2, <3>1 DEF Made, Parts
    <3> QED BY <3>1, <3>2
  <2>4. CASE CreateConnection(i)
    <3>1. Steps(i, "grant") /\ up' = [up EXCEPT ![i] = up[i] \cup {"connection"}]
          /\ task[i].step = "connection"
      BY <2>4 DEF CreateConnection, At, Makes
    <3>2. up[i] \cup {"connection"} = Made("grant") /\ Made("grant") \in SUBSET Parts
      BY <1>2, <3>1 DEF Made, Parts
    <3> QED BY <3>1, <3>2
  <2>5. CASE Grant(i)
    <3>1. Steps(i, "run") /\ up' = [up EXCEPT ![i] = up[i] \cup {"grant"}] /\ task[i].step = "grant"
      BY <2>5 DEF Grant, At, Makes
    <3>2. up[i] \cup {"grant"} = Made("run") /\ Made("run") \in SUBSET Parts
      BY <1>2, <3>1 DEF Made, Parts
    <3> QED BY <3>1, <3>2
  <2> QED BY <2>1, <2>2, <2>3, <2>4, <2>5
<1>4. /\ task' \in [Processes -> Task] /\ task'[i].do = "build" /\ task'[i].id = i /\ task'[i].step = s
      /\ \A q \in Processes : q # i => task'[q] = task[q]
  BY <1>0, <1>1, <1>2, <1>3, StepChange
<1>5. /\ up' \in Seq(SUBSET Parts) /\ Len(up') = Len(up) /\ up'[i] = Made(s)
      /\ \A j \in DOMAIN rows : j # i => up'[j] = up[j]
  BY <1>0, <1>3, UpChange DEF TypeOK
<1>6. TypeOK'
  <2>1. \A p \in Processes : task'[p].do \in {"build", "fail", "teardown"} => task'[p].id \in DOMAIN rows
    BY <1>0, <1>4 DEF TypeOK
  <2> QED BY <1>0, <1>1, <1>4, <1>5, <2>1 DEF TypeOK, counts
<1>7. task'[i] # Idle
  BY <1>4 DEF Idle
<1> QED BY <1>1, <1>2, <1>4, <1>5, <1>6, <1>7, ProvisionerStep

(* provision's failures, and its last statement.                           *)
LEMMA ProvisionEnds ==
    ASSUME IInv, NEW i \in DOMAIN rows,
           BuildFails(i) \/ GrantFails(i) \/ SetRunning(i) \/ SetRunningFails(i)
    PROVE  IInv'
<1>0. /\ TypeOK /\ i \in Processes /\ i \in 1..MaxSessions /\ rows[i] \in Row
      /\ up[i] \in SUBSET Parts /\ DOMAIN up = DOMAIN rows
  BY SessionTypes DEF IInv
<1>1. task[i].do = "build"
  BY DEF BuildFails, GrantFails, SetRunning, SetRunningFails, At
<1>2. Provisioning(i) /\ task[i].id = i /\ ~rows[i].recorded /\ up[i] = Made(task[i].step)
      /\ (rows[i].state = "running" => rows[i].recorded)
  BY <1>0, <1>1 DEF IInv, OwnProvisioner, Provisioning, RecordedLast, Progress, Idle
<1>3. Idle \in Task /\ Idle.do = "none" /\ Idle.id = 0
  BY DesktopsAssumption DEF Task, Idle
<1>4. \A s \in {"pod", "connection"} :
         /\ [do |-> "fail", step |-> s, id |-> i] \in Task
         /\ [do |-> "fail", step |-> s, id |-> i] # Idle
  BY <1>0 DEF Task, Idle
<1>5. ASSUME Fails  PROVE touches' = touches /\ restarts' = restarts /\ failures' \in 0..MaxFailures
  BY <1>0, <1>5, DesktopsAssumption DEF TypeOK, Fails
<1>6. ASSUME BuildFails(i)  PROVE IInv'
  <2>1. PICK landed \in {{}, Parts \cap {task[i].step}} :
           /\ up' = [up EXCEPT ![i] = up[i] \cup landed]
           /\ spoilt' = IF "connection" \in landed THEN spoilt \cup {i} ELSE spoilt
    BY <1>6 DEF BuildFails
  <2> DEFINE w == up[i] \cup landed
             t == [do |-> "fail", step |-> "pod", id |-> i]
  <2>2. w \in SUBSET Parts
    BY <1>0, <2>1
  <2>3. t \in Task /\ t.do = "fail" /\ t.step = "pod" /\ t.id = i /\ t # Idle
    BY <1>4
  <2>4. task' = [task EXCEPT ![i] = t] /\ UNCHANGED <<rows, idle, reapList>> /\ Fails
    BY <1>6 DEF BuildFails, Does
  <2>5. up' = [up EXCEPT ![i] = w]
    BY <2>1
  <2>6. spoilt \subseteq spoilt' /\ spoilt' \subseteq spoilt \cup {i}
    BY <2>1
  <2>7. i \notin spoilt' => w \subseteq Left("pod")
    <3>1. task[i].step \in {"pod", "service", "wait", "connection"}
      BY <1>6 DEF BuildFails
    <3>2. ASSUME "connection" \notin landed  PROVE w \subseteq {"pod", "service"}
      <4>1. up[i] \subseteq {"pod", "service"}
        BY <1>2, <3>1 DEF Made
      <4>2. landed \subseteq {"pod", "service"}
        BY <2>1, <3>1, <3>2 DEF Parts
      <4> QED BY <4>1, <4>2
    <3> QED BY <2>1, <3>2 DEF Left
  <2> HIDE DEF w, t
  <2>8. /\ task' \in [Processes -> Task] /\ task'[i] = t
        /\ \A q \in Processes : q # i => task'[q] = task[q]
    BY <1>0, <2>3, <2>4, TaskChange
  <2>9. /\ up' \in Seq(SUBSET Parts) /\ Len(up') = Len(up) /\ up'[i] = w
        /\ \A j \in DOMAIN rows : j # i => up'[j] = up[j]
    BY <1>0, <2>2, <2>5, UpChange
  <2>10. TypeOK'
    <3>1. \A p \in Processes : task'[p].do \in {"build", "fail", "teardown"} => task'[p].id \in DOMAIN rows
      BY <1>0, <2>3, <2>8 DEF TypeOK
    <3> QED BY <1>0, <1>5, <2>4, <2>6, <2>8, <2>9, <3>1 DEF TypeOK
  <2> QED BY <1>2, <2>3, <2>4, <2>6, <2>7, <2>8, <2>9, <2>10, ProvisionerStep
<1>7. ASSUME GrantFails(i)  PROVE IInv'
  <2> DEFINE t == [do |-> "fail", step |-> "connection", id |-> i]
  <2>1. t \in Task /\ t.do = "fail" /\ t.step = "connection" /\ t.id = i /\ t # Idle
    BY <1>4
  <2>2. task' = [task EXCEPT ![i] = t] /\ UNCHANGED <<rows, idle, up, reapList, spoilt>> /\ Fails
    BY <1>7 DEF GrantFails, Does
  <2>3. up[i] \subseteq Left("connection")
    BY <1>0 DEF Left
  <2> HIDE DEF t
  <2>4. /\ task' \in [Processes -> Task] /\ task'[i] = t
        /\ \A q \in Processes : q # i => task'[q] = task[q]
    BY <1>0, <2>1, <2>2, TaskChange
  <2>5. TypeOK'
    <3>1. \A p \in Processes : task'[p].do \in {"build", "fail", "teardown"} => task'[p].id \in DOMAIN rows
      BY <1>0, <2>1, <2>4 DEF TypeOK
    <3> QED BY <1>0, <1>5, <2>2, <2>4, <3>1 DEF TypeOK
  <2> QED BY <1>2, <2>1, <2>2, <2>3, <2>4, <2>5, ProvisionerStep
<1>8. /\ [rows[i] EXCEPT !.state = "running", !.recorded = TRUE] \in Row
      /\ [rows[i] EXCEPT !.state = "running", !.recorded = TRUE].recorded
  BY <1>0 DEF Row
<1>9. ASSUME SetRunning(i)  PROVE IInv'
  <2> DEFINE r == [rows[i] EXCEPT !.state = "running", !.recorded = TRUE]
  <2>1. r \in Row /\ r.recorded
    BY <1>8
  <2>2. rows' = [rows EXCEPT ![i] = r]
    BY <1>0, <1>9 DEF SetRunning, TypeOK
  <2>3. task' = [task EXCEPT ![i] = Idle] /\ UNCHANGED <<up, reapList, spoilt, counts>> /\ idle' \subseteq idle
    BY <1>9 DEF SetRunning, Does
  <2>4. up[i] = Parts
    BY <1>2, <1>9 DEF SetRunning, At, Made
  <2> HIDE DEF r
  <2>5. /\ rows' \in Seq(Row) /\ Len(rows') = Len(rows) /\ DOMAIN rows' = DOMAIN rows /\ rows'[i] = r
        /\ \A j \in DOMAIN rows : j # i => rows'[j] = rows[j]
    BY <1>0, <2>1, <2>2, RowChange
  <2>6. /\ task' \in [Processes -> Task] /\ task'[i] = Idle
        /\ \A q \in Processes : q # i => task'[q] = task[q]
    BY <1>0, <1>3, <2>3, TaskChange
  <2>7. TypeOK'
    <3>1. \A p \in Processes : task'[p].do \in {"build", "fail", "teardown"} => task'[p].id \in DOMAIN rows'
      BY <1>0, <1>3, <2>5, <2>6 DEF TypeOK
    <3> QED BY <1>0, <2>3, <2>5, <2>6, <3>1 DEF TypeOK, counts
  <2> QED BY <1>2, <1>3, <2>1, <2>3, <2>4, <2>5, <2>6, <2>7, ProvisionerStep
<1>10. ASSUME SetRunningFails(i)  PROVE IInv'
  <2>1. task' = [task EXCEPT ![i] = Idle] /\ UNCHANGED <<rows, idle, up, reapList>> /\ Fails
        /\ spoilt' = spoilt \cup {i}
    BY <1>10 DEF SetRunningFails, Does
  <2>2. /\ task' \in [Processes -> Task] /\ task'[i] = Idle
        /\ \A q \in Processes : q # i => task'[q] = task[q]
    BY <1>0, <1>3, <2>1, TaskChange
  <2>3. TypeOK'
    <3>1. \A p \in Processes : task'[p].do \in {"build", "fail", "teardown"} => task'[p].id \in DOMAIN rows
      BY <1>0, <1>3, <2>2 DEF TypeOK
    <3> QED BY <1>0, <1>5, <2>1, <2>2, <3>1 DEF TypeOK
  <2> QED BY <1>2, <1>3, <2>1, <2>2, <2>3, ProvisionerStep
<1> QED BY <1>6, <1>7, <1>9, <1>10
-----------------------------------------------------------------------------
(* A step of a request or the reaper in a teardown.  Only a workload that  *)
(* the row names, so that is no longer being provisioned, loses parts.     *)
LEMMA TeardownStep ==
    ASSUME IInv, TypeOK', NEW p \in Callers \cup {Reaper}, task[p].do = "teardown",
           NEW i \in DOMAIN rows, task[p].id = i,
           DOMAIN rows' = DOMAIN rows, reapList' = reapList, spoilt \subseteq spoilt',
           \A q \in Processes : q # p => task'[q] = task[q],
           \A j \in DOMAIN rows : rows'[j].recorded = rows[j].recorded,
           \A j \in DOMAIN rows : rows'[j].state = "running" => rows[j].state = "running",
           \A j \in DOMAIN rows : j # i => up'[j] = up[j],
           up'[i] = up[i] \/ rows[i].recorded,
           \/ /\ task'[p].do = "teardown" /\ task'[p].id = i
              /\ task'[p].step # "mark" => rows[i].recorded
           \/ task'[p].do = "none" /\ (i \in spoilt' \/ rows'[i].state # "running")
    PROVE  IInv'
<1>0. /\ TypeOK /\ p \in Processes
      /\ \A j \in 1..MaxSessions : j # p /\ j \in Processes
      /\ \A j \in DOMAIN rows : j \in 1..MaxSessions
  BY SessionTypes, DesktopsAssumption DEF IInv, Processes
<1>1. \A j \in DOMAIN rows : task'[j] = task[j]
  BY <1>0
<1>2. OwnProvisioner'
  <2>1. \A q \in Callers \cup {Reaper} : q \in Processes
    BY DEF Processes
  <2> QED BY <1>0, <2>1 DEF IInv, OwnProvisioner
<1>3. RecordedLast'
  BY <1>1 DEF IInv, RecordedLast, Provisioning
<1>4. SeenRecorded'
  <2>1. ASSUME NEW q \in Processes, task'[q].do = "teardown", task'[q].step # "mark"
        PROVE  rows'[task'[q].id].recorded
    <3>1. CASE q = p
      BY <2>1, <3>1
    <3>2. CASE q # p
      <4>1. task'[q] = task[q] /\ task[q].id \in DOMAIN rows /\ rows[task[q].id].recorded
        BY <1>0, <2>1, <3>2 DEF IInv, SeenRecorded, TypeOK
      <4> QED BY <4>1
    <3> QED BY <3>1, <3>2
  <2>2. ASSUME NEW r \in reapList', r.recorded  PROVE rows'[r.id].recorded
    <3>1. r.id \in DOMAIN rows /\ rows[r.id].recorded
      BY <1>0, <2>2 DEF IInv, SeenRecorded, TypeOK
    <3> QED BY <3>1
  <2> QED BY <2>1, <2>2 DEF SeenRecorded
<1>5. Progress'
  <2>1. ASSUME NEW j \in DOMAIN rows
        PROVE  /\ task'[j].do = "build" => up'[j] = Made(task'[j].step)
               /\ task'[j].do = "fail" /\ j \notin spoilt' => up'[j] \subseteq Left(task'[j].step)
    <3>1. CASE Provisioning(j)
      <4>1. up'[j] = up[j]
        BY <3>1 DEF IInv, RecordedLast
      <4> QED BY <1>1, <4>1 DEF IInv, Progress
    <3>2. CASE ~Provisioning(j)
      BY <1>1, <3>2 DEF Provisioning
    <3> QED BY <3>1, <3>2
  <2> QED BY <2>1 DEF Progress
<1>6. Accounted'
  <2>1. ASSUME NEW j \in DOMAIN rows \ spoilt', up'[j] # {}
        PROVE  task'[j].do \in {"build", "fail"} \/ rows'[j].recorded
    <3>1. up'[j] = up[j] \/ rows[j].recorded
      OBVIOUS
    <3> QED BY <1>1, <2>1, <3>1 DEF IInv, Accounted, Provisioning
  <2> QED BY <2>1 DEF Accounted, Provisioning
<1>7. RunningIsUp'
  <2>1. ASSUME NEW j \in DOMAIN rows \ spoilt', rows'[j].state = "running"
        PROVE  up'[j] = Parts \/ TearingDown(j)'
    <3>1. CASE j = i
      <4>1. task'[p].do = "teardown" /\ task'[p].id = j
        BY <2>1, <3>1
      <4> QED BY <1>0, <4>1 DEF TearingDown
    <3>2. CASE j # i /\ up[j] = Parts
      BY <3>2
    <3>3. CASE j # i /\ TearingDown(j)
      <4>1. PICK q \in Processes : task[q].do = "teardown" /\ task[q].id = j
        BY <3>3 DEF TearingDown
      <4>2. q # p
        BY <3>3, <4>1
      <4> QED BY <4>1, <4>2 DEF TearingDown
    <3> QED BY <2>1, <3>1, <3>2, <3>3 DEF IInv, RunningIsUp
  <2> QED BY <2>1 DEF RunningIsUp
<1> QED BY <1>2, <1>3, <1>4, <1>5, <1>6, <1>7 DEF IInv

(* Who removes a workload is its provisioner, or a request or the reaper.  *)
LEMMA Removers ==
    ASSUME IInv, NEW p \in Processes, task[p].do \in {"fail", "teardown"}
    PROVE  /\ task[p].id \in DOMAIN rows
           /\ task[p].do = "fail" => task[p].id = p /\ Provisioning(p)
           /\ task[p].do = "teardown" => p \in Callers \cup {Reaper}
<1>1. p \in Callers \cup {Reaper} \/ p \in 1..MaxSessions
  BY DEF Processes
<1> QED BY <1>1 DEF IInv, OwnProvisioner, TypeOK, Provisioning, Idle

(* A removal that succeeds, fails or is ignored, of one part.              *)
LEMMA CleanupKeeps ==
    ASSUME IInv, NEW p \in Processes, Cleanup(p) \/ CleanupFails(p)
    PROVE  IInv'
<1> DEFINE i == task[p].id
           s == task[p].step
<1>1. Cleaning(p) /\ Steps(p, AfterCleanup(s)) /\ UNCHANGED <<rows, idle, reapList>>
  BY DEF Cleanup, CleanupFails
<1>2. /\ TypeOK /\ i \in DOMAIN rows /\ up[i] \in SUBSET Parts /\ rows[i] \in Row
      /\ task[p].do \in {"fail", "teardown"} /\ s \in {"connection", "pod", "service"}
  BY <1>1, Removers, SessionTypes DEF IInv, Cleaning
<1>3. AfterCleanup(s) \in {"pod", "service", "mark"}
  BY <1>2 DEF AfterCleanup
<1>4. PICK w \in SUBSET Parts :
         /\ up' = [up EXCEPT ![i] = w] \/ (up' = up /\ w = up[i])
         /\ w = up[i] \ Gone(s) \/ i \in spoilt'
  <2>1. CASE Cleanup(p)
    <3>1. up' = [up EXCEPT ![i] = up[i] \ Gone(s)] /\ up[i] \ Gone(s) \in SUBSET Parts
      BY <1>2, <2>1 DEF Cleanup
    <3> QED BY <3>1
  <2>2. CASE CleanupFails(p)
    BY <1>2, <2>2 DEF CleanupFails
  <2> QED BY <2>1, <2>2
<1>5. /\ spoilt \subseteq spoilt' /\ spoilt' \subseteq spoilt \cup {i}
      /\ touches' \in 0..MaxTouches /\ failures' \in 0..MaxFailures /\ restarts' \in 0..MaxRestarts
  BY <1>2, DesktopsAssumption DEF TypeOK, Cleanup, CleanupFails, Fails, counts
<1>6. /\ task' \in [Processes -> Task] /\ task'[p].do = task[p].do /\ task'[p].id = i
      /\ task'[p].step = AfterCleanup(s)
      /\ \A q \in Processes : q # p => task'[q] = task[q]
  BY <1>1, <1>2, <1>3, StepChange
<1>7. /\ up' \in Seq(SUBSET Parts) /\ Len(up') = Len(up) /\ up'[i] = w
      /\ \A j \in DOMAIN rows : j # i => up'[j] = up[j]
  BY <1>2, <1>4, UpChange DEF TypeOK
<1>8. TypeOK'
  <2>1. \A q \in Processes : task'[q].do \in {"build", "fail", "teardown"} => task'[q].id \in DOMAIN rows
    BY <1>2, <1>6 DEF TypeOK
  <2> QED BY <1>1, <1>2, <1>5, <1>6, <1>7, <2>1 DEF TypeOK
<1>9. CASE task[p].do = "fail"
  <2>1. i = p /\ Provisioning(p)
    BY <1>9, Removers
  <2>2. ~rows[i].recorded /\ (rows[i].state = "running" => rows[i].recorded)
    BY <1>2, <2>1 DEF IInv, RecordedLast
  <2>3. i \notin spoilt' => up'[i] \subseteq Left(AfterCleanup(s))
    <3>1. SUFFICES ASSUME i \notin spoilt'  PROVE w \subseteq Left(AfterCleanup(s))
      BY <1>7
    <3>2. w = up[i] \ Gone(s) /\ up[i] \subseteq Left(s)
      BY <1>2, <1>4, <1>5, <1>9, <2>1, <3>1 DEF IInv, Progress
    <3>3. CASE s = "connection"
      <4>1. up[i] \ Gone(s) \subseteq {"pod", "service"}
        BY <1>2, <3>3 DEF Gone, Parts
      <4> QED BY <3>2, <3>3, <4>1 DEF AfterCleanup, Left
    <3>4. CASE s = "pod"
      BY <3>2, <3>4 DEF AfterCleanup, Left, Gone
    <3>5. CASE s = "service"
      BY <3>2, <3>5 DEF AfterCleanup, Left, Gone
    <3> QED BY <1>2, <3>3, <3>4, <3>5
  <2>4. task'[p] # Idle /\ task'[p].do = "fail"
    BY <1>6, <1>9 DEF Idle
  <2> HIDE DEF i, s
  <2> QED BY <1>1, <1>2, <1>5, <1>6, <1>7, <1>8, <2>1, <2>2, <2>3, <2>4, ProvisionerStep
<1>10. CASE task[p].do = "teardown"
  <2>1. p \in Callers \cup {Reaper}
    BY <1>10, Removers
  <2>2. rows[i].recorded
    BY <1>2, <1>10 DEF IInv, SeenRecorded
  <2> HIDE DEF s
  <2> QED BY <1>1, <1>2, <1>5, <1>6, <1>7, <1>8, <1>10, <2>1, <2>2, TeardownStep
<1> QED BY <1>2, <1>9, <1>10

(* The last statement of fail or of a teardown, whether it succeeds or not.*)
LEMMA SetStateKeeps ==
    ASSUME IInv, NEW p \in Processes, SetState(p) \/ SetStateFails(p)
    PROVE  IInv'
<1> DEFINE i == task[p].id
           r == [rows[i] EXCEPT !.state = IF task[p].do = "fail" THEN "error" ELSE "stopped"]
<1>1. /\ task[p].do \in {"fail", "teardown"} /\ task[p].step = "mark"
      /\ task' = [task EXCEPT ![p] = Idle] /\ UNCHANGED <<idle, up, reapList>>
  BY DEF SetState, SetStateFails, Does
<1>2. /\ TypeOK /\ i \in DOMAIN rows /\ rows[i] \in Row
  BY <1>1, Removers, SessionTypes DEF IInv
<1>3. r \in Row /\ r.state \in {"error", "stopped"} /\ r.recorded = rows[i].recorded
  BY <1>2 DEF Row
<1>4. \/ rows' = [rows EXCEPT ![i] = r] /\ spoilt' = spoilt
      \/ rows' = rows /\ spoilt' = spoilt \cup {i}
  BY <1>2 DEF SetState, SetStateFails, TypeOK
<1>5. touches' \in 0..MaxTouches /\ failures' \in 0..MaxFailures /\ restarts' \in 0..MaxRestarts
  BY <1>2, DesktopsAssumption DEF TypeOK, SetState, SetStateFails, Fails, counts
<1> HIDE DEF r
<1>6. /\ rows' \in Seq(Row) /\ Len(rows') = Len(rows) /\ DOMAIN rows' = DOMAIN rows
      /\ \A j \in DOMAIN rows : j # i => rows'[j] = rows[j]
      /\ rows'[i] = r \/ (rows'[i] = rows[i] /\ i \in spoilt')
  BY <1>2, <1>3, <1>4, RowChange DEF TypeOK
<1>7. spoilt \subseteq spoilt' /\ spoilt' \subseteq spoilt \cup {i}
  BY <1>4
<1>8. Idle \in Task /\ Idle.do = "none"
  BY DesktopsAssumption DEF Task, Idle
<1>9. /\ task' \in [Processes -> Task] /\ task'[p] = Idle
      /\ \A q \in Processes : q # p => task'[q] = task[q]
  BY <1>1, <1>2, <1>8, TaskChange
<1>10. TypeOK'
  <2>1. \A q \in Processes : task'[q].do \in {"build", "fail", "teardown"} => task'[q].id \in DOMAIN rows'
    BY <1>2, <1>6, <1>8, <1>9 DEF TypeOK
  <2> QED BY <1>1, <1>2, <1>5, <1>6, <1>7, <1>9, <2>1 DEF TypeOK
<1>11. CASE task[p].do = "fail"
  <2>1. i = p /\ Provisioning(p)
    BY <1>11, Removers
  <2>2. ~rows[i].recorded /\ (rows[i].state = "running" => rows[i].recorded)
    BY <1>2, <2>1 DEF IInv, RecordedLast
  <2>3. rows'[i].recorded = rows[i].recorded /\ rows'[i].state # "running"
    BY <1>3, <1>6, <2>2
  <2>4. i \notin spoilt => up[i] = {}
    BY <1>1, <1>2, <1>11, <2>1 DEF IInv, Progress, Left
  <2> HIDE DEF i
  <2> QED BY <1>1, <1>2, <1>6, <1>7, <1>8, <1>9, <1>10, <2>1, <2>2, <2>3, <2>4, ProvisionerStep
<1>12. CASE task[p].do = "teardown"
  <2>1. p \in Callers \cup {Reaper}
    BY <1>12, Removers
  <2>2. \A j \in DOMAIN rows : /\ rows'[j].recorded = rows[j].recorded
                               /\ rows'[j].state = "running" => rows[j].state = "running"
    BY <1>3, <1>6
  <2>3. i \in spoilt' \/ rows'[i].state # "running"
    BY <1>3, <1>6
  <2> QED BY <1>1, <1>2, <1>6, <1>7, <1>8, <1>9, <1>10, <1>12, <2>1, <2>2, <2>3, TeardownStep
<1> QED BY <1>1, <1>11, <1>12

(* A restart forgets every goroutine; what one was at counts as spoilt.    *)
LEMMA RestartKeeps ==
    ASSUME IInv, Restart
    PROVE  IInv'
<1> DEFINE lost == {task[p].id : p \in {q \in Processes : task[q].do \in {"build", "fail", "teardown"}}}
<1>1. /\ task' = [p \in Processes |-> Idle] /\ reapList' = {} /\ spoilt' = spoilt \cup lost
      /\ UNCHANGED <<rows, idle, up, touches, failures>> /\ restarts < MaxRestarts /\ restarts' = restarts + 1
  BY DEF Restart
<1>2. TypeOK /\ lost \subseteq DOMAIN rows
  BY DEF IInv, TypeOK
<1>3. \A i \in DOMAIN rows \ lost : ~Provisioning(i) /\ ~TearingDown(i)
  <2>1. \A i \in DOMAIN rows : i \in Processes /\ i \in 1..MaxSessions
    BY <1>2, SessionTypes
  <2>2. \A i \in DOMAIN rows : Provisioning(i) => task[i].id = i
    BY <2>1 DEF IInv, OwnProvisioner, Provisioning, Idle
  <2> QED BY <2>1, <2>2 DEF Provisioning, TearingDown
<1> HIDE DEF lost
<1>4. Idle \in Task /\ Idle.do = "none"
  BY DesktopsAssumption DEF Task, Idle
<1>5. \A p \in Processes : task'[p] = Idle
  BY <1>1
<1>6. \A i \in DOMAIN rows : i \in Processes
  BY <1>2, SessionTypes
<1>7. TypeOK'
  <2>1. task' \in [Processes -> Task]
    BY <1>1, <1>4
  <2>2. restarts' \in 0..MaxRestarts
    BY <1>1, <1>2, DesktopsAssumption DEF TypeOK
  <2> QED BY <1>1, <1>2, <1>4, <1>5, <2>1, <2>2 DEF TypeOK
<1>8. OwnProvisioner'
  <2>1. \A p \in (1..MaxSessions) \cup Callers \cup {Reaper} : p \in Processes
    BY DEF Processes
  <2> QED BY <1>4, <1>5, <2>1 DEF OwnProvisioner
<1>9. RecordedLast'
  BY <1>1, <1>4, <1>5, <1>6 DEF IInv, RecordedLast, Provisioning
<1>10. SeenRecorded'
  BY <1>1, <1>4, <1>5 DEF SeenRecorded
<1>11. Progress'
  BY <1>1, <1>4, <1>5, <1>6 DEF Progress
<1>12. Accounted'
  BY <1>1, <1>3 DEF IInv, Accounted
<1>13. RunningIsUp'
  BY <1>1, <1>3 DEF IInv, RunningIsUp
<1> QED BY <1>7, <1>8, <1>9, <1>10, <1>11, <1>12, <1>13 DEF IInv

-----------------------------------------------------------------------------
(* The empty table, and no process at work.                                *)
LEMMA Starts == Init => IInv
<1> SUFFICES ASSUME Init  PROVE IInv
  OBVIOUS
<1>1. /\ rows = <<>> /\ up = <<>> /\ DOMAIN rows = {} /\ Len(rows) = 0
      /\ idle = {} /\ reapList = {} /\ spoilt = {}
      /\ task = [p \in Processes |-> Idle] /\ touches = 0 /\ failures = 0 /\ restarts = 0
  BY DEF Init
<1>2. Idle \in Task /\ Idle.do = "none"
  BY DesktopsAssumption DEF Task, Idle
<1>3. \A p \in Processes : task[p] = Idle
  BY <1>1
<1>4. TypeOK
  <2>1. rows \in Seq(Row) /\ up \in Seq(SUBSET Parts) /\ Len(up) = 0
    BY <1>1
  <2>2. 0 \in 0..MaxTouches /\ 0 \in 0..MaxFailures /\ 0 \in 0..MaxRestarts /\ 0 <= MaxSessions
    BY DesktopsAssumption
  <2>3. task \in [Processes -> Task]
    BY <1>1, <1>2
  <2> QED BY <1>1, <1>2, <1>3, <2>1, <2>2, <2>3 DEF TypeOK
<1>5. OwnProvisioner
  <2>1. \A p \in (1..MaxSessions) \cup Callers \cup {Reaper} : p \in Processes
    BY DEF Processes
  <2> QED BY <1>2, <1>3, <2>1 DEF OwnProvisioner
<1>6. SeenRecorded
  BY <1>1, <1>2, <1>3 DEF SeenRecorded
<1>7. RecordedLast /\ Progress /\ Accounted /\ RunningIsUp
  BY <1>1 DEF RecordedLast, Progress, Accounted, RunningIsUp
<1> QED BY <1>4, <1>5, <1>6, <1>7 DEF IInv

(* Every step keeps the inductive invariant.                               *)
LEMMA Keeps == IInv /\ [Next]_vars => IInv'
<1> SUFFICES ASSUME IInv, [Next]_vars  PROVE IInv'
  OBVIOUS
<1>1. CASE UNCHANGED vars
  BY <1>1 DEF IInv, vars, counts, TypeOK, OwnProvisioner, RecordedLast, SeenRecorded, Progress,
              Accounted, RunningIsUp, Provisioning, TearingDown, Made, Left
<1>2. ASSUME NEW c \in Callers, Request(c)  PROVE IInv'
  BY <1>2, RequestsKeep, CreateKeeps DEF Request
<1>3. ASSUME NEW i \in DOMAIN rows, Provision(i) \/ Touch(i) \/ Expire(i)  PROVE IInv'
  BY <1>3, MakesKeeps, ProvisionEnds, WatchKeeps DEF Provision
<1>4. ASSUME NEW p \in Processes, Remove(p)  PROVE IInv'
  BY <1>4, CleanupKeeps, SetStateKeeps DEF Remove
<1>5. CASE ListIdle \/ ReapNext \/ Restart
  BY <1>5, WatchKeeps, RequestsKeep, RestartKeeps
<1> QED BY <1>1, <1>2, <1>3, <1>4, <1>5 DEF Next

(* The inductive invariant holds in every reachable state.                 *)
THEOREM DesktopsInvariance == Spec => []IInv
  BY Starts, Keeps, PTL DEF Spec

(* Every variable of the desktops service keeps its type.                  *)
THEOREM DesktopsTypeCorrect == Spec => []TypeOK
<1>1. IInv => TypeOK
  BY DEF IInv
<1> QED BY <1>1, DesktopsInvariance, PTL

(* No workload of a session runs unaccounted for: while any part of one    *)
(* exists, its provisioner still works on it or its row names it, unless   *)
(* a failure nobody repeats hit that session.                              *)
THEOREM WorkloadsAccounted == Spec => []Accounted
<1>1. IInv => Accounted
  BY DEF IInv
<1> QED BY <1>1, DesktopsInvariance, PTL

(* A session listed as running has its pod, Service, connection and grant, *)
(* or somebody has begun to stop it.                                       *)
THEOREM RunningCanBeOpened == Spec => []RunningIsUp
<1>1. IInv => RunningIsUp
  BY DEF IInv
<1> QED BY <1>1, DesktopsInvariance, PTL
=============================================================================
