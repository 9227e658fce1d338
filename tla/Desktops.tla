------------------------------ MODULE Desktops ------------------------------
(***************************************************************************)
(* internal/desktops: container desktops launched on demand.  A session is *)
(* a row of desktop_sessions; its workload is a pod, a Service and a       *)
(* granted Guacamole connection.  Requests (Launch, Stop, Touch), one      *)
(* provisioning goroutine per session and the idle reaper change both, one *)
(* database statement or one call of Kubernetes or Guacamole at a time.    *)
(*                                                                         *)
(* VM flavors go through the same steps with a virtual machine for a pod.  *)
(* Volumes are kept for the next session and are left out.                 *)
(***************************************************************************)
EXTENDS Naturals, Sequences, FiniteSets

CONSTANTS
    Callers,      \* concurrent requests
    Reaper,       \* the goroutine of RunReaper
    Users,
    UserOf,       \* whose request a caller's is
    MaxPerUser,   \* Config.MaxPerUser
    MaxSessions,  \* bound: sessions created
    MaxTouches,   \* bound: heartbeats of sessions that had gone idle
    MaxFailures,  \* bound: statements and calls that fail
    MaxRestarts   \* bound: restarts of the server

Processes == Callers \cup {Reaper} \cup 1..MaxSessions

ASSUME DesktopsAssumption ==
    /\ {MaxPerUser, MaxSessions, MaxTouches, MaxFailures, MaxRestarts} \subseteq Nat
    /\ Reaper \notin Callers
    /\ \A p \in Callers \cup {Reaper} : p \notin 1..MaxSessions
    /\ UserOf \in [Callers -> Users]

VARIABLES
    rows,      \* desktop_sessions, oldest first
    idle,      \* the sessions whose last_seen_at is older than IdleTTL
    up,        \* what exists of each session's workload
    task,      \* what each process is doing; session i's provisioner is i
    reapList,  \* what ListIdle returned and Reap has yet to tear down
    spoilt,    \* history: the sessions hit by a failure nobody repeats
    touches, failures, restarts  \* how many so far

counts == <<touches, failures, restarts>>
vars == <<rows, idle, up, task, reapList, spoilt, counts>>

-----------------------------------------------------------------------------
(* "recorded" is whether pod_name, guac_conn_id and open_url are set.      *)
Row == [user : Users, state : {"starting", "running", "stopped", "error"},
        recorded : BOOLEAN]

Parts == {"pod", "service", "connection", "grant"}

(* A grant goes with its connection.                                       *)
Gone(part) == IF part = "connection" THEN {"connection", "grant"} ELSE {part}

Idle == [do |-> "none", step |-> "none", id |-> 0]

Task == [do : {"none", "create", "build", "fail", "teardown"},
         step : {"none", "pod", "service", "wait", "connection", "grant", "run", "mark"},
         id : 0..MaxSessions]

Active(i) == rows[i].state \in {"starting", "running"}

ActiveOf(user) == {i \in DOMAIN rows : rows[i].user = user /\ Active(i)}

Does(p, what) == task' = [task EXCEPT ![p] = what]

Steps(p, step) == task' = [task EXCEPT ![p].step = step]

At(p, do, step) == task[p].do = do /\ task[p].step = step

(* A statement or call fails.                                              *)
Fails == failures < MaxFailures /\ failures' = failures + 1 /\ UNCHANGED <<touches, restarts>>

-----------------------------------------------------------------------------
(* Launch counts the user's active sessions ...                            *)
Launch(c) ==
    /\ task[c] = Idle /\ Len(rows) < MaxSessions
    /\ Cardinality(ActiveOf(UserOf[c])) < MaxPerUser
    /\ Does(c, [do |-> "create", step |-> "none", id |-> 0])
    /\ UNCHANGED <<rows, idle, up, reapList, spoilt, counts>>

(* Mutant of Create: the provisioner is not started.                       *)
CreateOnly(c) ==
    /\ task[c].do = "create" /\ Len(rows) < MaxSessions
    /\ rows' = Append(rows, [user |-> UserOf[c], state |-> "starting", recorded |-> FALSE])
    /\ Does(c, Idle)
    /\ UNCHANGED <<idle, up, reapList, spoilt, counts>>

(* ... then creates the row and starts its provisioner.                    *)
Create(c) ==
    /\ task[c].do = "create" /\ Len(rows) < MaxSessions
    /\ rows' = Append(rows, [user |-> UserOf[c], state |-> "starting", recorded |-> FALSE])
    /\ up' = Append(up, {})
    /\ task' = [task EXCEPT ![c] = Idle,
                            ![Len(rows) + 1] = [do |-> "build", step |-> "pod", id |-> Len(rows) + 1]]
    /\ UNCHANGED <<idle, reapList, spoilt, counts>>

(* Create's statement fails: the request returns the error.                *)
CreateFails(c) ==
    /\ task[c].do = "create"
    /\ Fails
    /\ Does(c, Idle)
    /\ UNCHANGED <<rows, idle, up, reapList, spoilt>>

(* teardown of the session as it was when it was read.                     *)
Teardown(i, recorded) ==
    [do |-> "teardown", step |-> IF recorded THEN "connection" ELSE "mark", id |-> i]

(* Stop reads the caller's session, whatever its state.                    *)
Stop(c, i) ==
    /\ task[c] = Idle
    /\ rows[i].user = UserOf[c]
    /\ Does(c, Teardown(i, rows[i].recorded))
    /\ UNCHANGED <<rows, idle, up, reapList, spoilt, counts>>

(* A heartbeat; the page sends it for running sessions.                    *)
Touch(i) ==
    /\ rows[i].state = "running" /\ i \in idle
    /\ touches < MaxTouches
    /\ touches' = touches + 1
    /\ idle' = idle \ {i}
    /\ UNCHANGED <<rows, up, task, reapList, spoilt, failures, restarts>>

(* IdleTTL passes without a heartbeat.  It is 30 minutes: longer than the  *)
(* timeouts of a provisioning, 4 minutes and 10 seconds a call, add up to. *)
Expire(i) ==
    /\ Active(i) /\ i \notin idle
    /\ task[i] = Idle
    /\ idle' = idle \cup {i}
    /\ UNCHANGED <<rows, up, task, reapList, spoilt, counts>>
-----------------------------------------------------------------------------
(* provision (provisionVM): each step makes one more part of the workload. *)

Makes(i, part, next) ==
    /\ up' = [up EXCEPT ![i] = @ \cup {part}]
    /\ Steps(i, next)
    /\ UNCHANGED <<rows, idle, reapList, spoilt, counts>>

CreatePod(i) == At(i, "build", "pod") /\ Makes(i, "pod", "service")

CreateService(i) == At(i, "build", "service") /\ Makes(i, "service", "wait")

(* waitReady sees the pod running.                                         *)
WaitReady(i) ==
    /\ At(i, "build", "wait") /\ "pod" \in up[i]
    /\ Steps(i, "connection")
    /\ UNCHANGED <<rows, idle, up, reapList, spoilt, counts>>

CreateConnection(i) == At(i, "build", "connection") /\ Makes(i, "connection", "grant")

Grant(i) == At(i, "build", "grant") /\ Makes(i, "grant", "run")

(* A call fails, or the pod is not ready in time; a call may fail although *)
(* it landed.  fail removes what is known to exist: the pod and the        *)
(* Service by name, but a connection whose identifier got lost stays.      *)
BuildFails(i) ==
    /\ task[i].do = "build" /\ task[i].step \in {"pod", "service", "wait", "connection"}
    /\ Fails
    /\ \E landed \in {{}, Parts \cap {task[i].step}} :
          /\ up' = [up EXCEPT ![i] = @ \cup landed]
          /\ spoilt' = IF "connection" \in landed THEN spoilt \cup {i} ELSE spoilt
    /\ Does(i, [do |-> "fail", step |-> "pod", id |-> i])
    /\ UNCHANGED <<rows, idle, reapList>>

(* Mutant of GrantFails: fail is not told of the connection.               *)
GrantForgets(i) ==
    /\ At(i, "build", "grant")
    /\ Fails
    /\ Does(i, [do |-> "fail", step |-> "pod", id |-> i])
    /\ UNCHANGED <<rows, idle, up, reapList, spoilt>>

(* Mutant of GrantFails: the error is not looked at.                       *)
GrantIgnored(i) ==
    /\ At(i, "build", "grant")
    /\ Fails
    /\ Steps(i, "run")
    /\ UNCHANGED <<rows, idle, up, reapList, spoilt>>

(* The grant fails: the connection goes too.                               *)
GrantFails(i) ==
    /\ At(i, "build", "grant")
    /\ Fails
    /\ Does(i, [do |-> "fail", step |-> "connection", id |-> i])
    /\ UNCHANGED <<rows, idle, up, reapList, spoilt>>

SetRunning(i) ==
    /\ At(i, "build", "run")
    /\ rows' = [rows EXCEPT ![i].state = "running", ![i].recorded = TRUE]
    /\ idle' = idle \ {i}
    /\ Does(i, Idle)
    /\ UNCHANGED <<up, reapList, spoilt, counts>>

(* SetRunning fails: it is only logged.                                    *)
SetRunningFails(i) ==
    /\ At(i, "build", "run")
    /\ Fails
    /\ spoilt' = spoilt \cup {i}
    /\ Does(i, Idle)
    /\ UNCHANGED <<rows, idle, up, reapList>>

-----------------------------------------------------------------------------
(* cleanup, of fail and of teardown: the connection, the pod, the Service. *)

AfterCleanup(step) ==
    CASE step = "connection" -> "pod" [] step = "pod" -> "service" [] step = "service" -> "mark"

Cleaning(p) ==
    task[p].do \in {"fail", "teardown"} /\ task[p].step \in {"connection", "pod", "service"}

Cleanup(p) ==
    /\ Cleaning(p)
    /\ up' = [up EXCEPT ![task[p].id] = @ \ Gone(task[p].step)]
    /\ Steps(p, AfterCleanup(task[p].step))
    /\ UNCHANGED <<rows, idle, reapList, spoilt, counts>>

(* A deletion fails: it is ignored.                                        *)
CleanupFails(p) ==
    /\ Cleaning(p)
    /\ Fails
    /\ spoilt' = spoilt \cup {task[p].id}
    /\ Steps(p, AfterCleanup(task[p].step))
    /\ UNCHANGED <<rows, idle, up, reapList>>

(* Mutant of SetState: only a session that has been running is stopped.    *)
SetStateOfRecorded(p) ==
    /\ task[p].do \in {"fail", "teardown"} /\ task[p].step = "mark"
    /\ rows' = [rows EXCEPT ![task[p].id].state =
                   IF task[p].do = "fail" THEN "error" ELSE IF rows[task[p].id].recorded THEN "stopped" ELSE @]
    /\ Does(p, Idle)
    /\ UNCHANGED <<idle, up, reapList, spoilt, counts>>

SetState(p) ==
    /\ task[p].do \in {"fail", "teardown"} /\ task[p].step = "mark"
    /\ rows' = [rows EXCEPT ![task[p].id].state =
                               IF task[p].do = "fail" THEN "error" ELSE "stopped"]
    /\ Does(p, Idle)
    /\ UNCHANGED <<idle, up, reapList, spoilt, counts>>

(* SetState fails: the workload is gone and the row does not say so.       *)
SetStateFails(p) ==
    /\ task[p].do \in {"fail", "teardown"} /\ task[p].step = "mark"
    /\ Fails
    /\ spoilt' = spoilt \cup {task[p].id}
    /\ Does(p, Idle)
    /\ UNCHANGED <<rows, idle, up, reapList>>

-----------------------------------------------------------------------------
(* Reap: ListIdle, then a teardown of each as it was listed.               *)
ListIdle ==
    /\ reapList = {} /\ task[Reaper] = Idle
    /\ \E i \in idle : Active(i)
    /\ reapList' = {[id |-> i, recorded |-> rows[i].recorded] : i \in {j \in idle : Active(j)}}
    /\ UNCHANGED <<rows, idle, up, task, spoilt, counts>>

ReapNext ==
    /\ task[Reaper] = Idle
    /\ \E r \in reapList :
          /\ reapList' = reapList \ {r}
          /\ Does(Reaper, Teardown(r.id, r.recorded))
    /\ UNCHANGED <<rows, idle, up, spoilt, counts>>

(* The server restarts: whatever it was doing is forgotten.                *)
Restart ==
    /\ restarts < MaxRestarts
    /\ restarts' = restarts + 1
    /\ task' = [p \in Processes |-> Idle]
    /\ reapList' = {}
    /\ spoilt' = spoilt \cup {task[p].id : p \in {q \in Processes : task[q].do \in {"build", "fail", "teardown"}}}
    /\ UNCHANGED <<rows, idle, up, touches, failures>>

-----------------------------------------------------------------------------
Init ==
    /\ rows = <<>> /\ up = <<>>
    /\ idle = {} /\ reapList = {} /\ spoilt = {}
    /\ task = [p \in Processes |-> Idle]
    /\ touches = 0 /\ failures = 0 /\ restarts = 0

Request(c) ==
    \/ Launch(c) \/ Create(c) \/ CreateFails(c)
    \/ \E i \in DOMAIN rows : Stop(c, i)

Provision(i) ==
    \/ CreatePod(i) \/ CreateService(i) \/ WaitReady(i)
    \/ CreateConnection(i) \/ Grant(i) \/ SetRunning(i)
    \/ BuildFails(i) \/ GrantFails(i) \/ SetRunningFails(i)

(* What a process that has begun to remove a workload does.                *)
Remove(p) == Cleanup(p) \/ CleanupFails(p) \/ SetState(p) \/ SetStateFails(p)

Next ==
    \/ \E c \in Callers : Request(c)
    \/ \E i \in DOMAIN rows : Provision(i) \/ Touch(i) \/ Expire(i)
    \/ \E p \in Processes : Remove(p)
    \/ ListIdle \/ ReapNext \/ Restart

Spec == Init /\ [][Next]_vars

(* Calls and statements end, by their timeouts; the reaper runs once a     *)
(* minute; a session that gets no heartbeat goes idle.                     *)
FairSpec ==
    /\ Spec
    /\ \A i \in 1..MaxSessions : WF_vars(i \in DOMAIN rows /\ (Provision(i) \/ Expire(i)))
    /\ \A p \in Processes : WF_vars(Remove(p))
    /\ WF_vars(ListIdle \/ ReapNext)

-----------------------------------------------------------------------------
TypeOK ==
    /\ rows \in Seq(Row) /\ Len(rows) <= MaxSessions
    /\ up \in Seq(SUBSET Parts) /\ Len(up) = Len(rows)
    /\ idle \subseteq DOMAIN rows /\ spoilt \subseteq DOMAIN rows
    /\ task \in [Processes -> Task]
    /\ \A p \in Processes : task[p].do \in {"build", "fail", "teardown"} => task[p].id \in DOMAIN rows
    /\ reapList \subseteq [id : DOMAIN rows, recorded : BOOLEAN]
    /\ touches \in 0..MaxTouches /\ failures \in 0..MaxFailures /\ restarts \in 0..MaxRestarts

Provisioning(i) == task[i].do \in {"build", "fail"}

TearingDown(i) == \E p \in Processes : task[p].do = "teardown" /\ task[p].id = i

(* Nothing runs that nobody knows of: whatever exists of a workload is     *)
(* still being provisioned, or named by its session's row for Stop to find,*)
(* whichever call of provision failed and whoever stopped the session in   *)
(* the meantime.                                                           *)
Accounted ==
    \A i \in DOMAIN rows \ spoilt :
        up[i] # {} => Provisioning(i) \/ rows[i].recorded

(* A session that is offered to its user as running can be opened, unless  *)
(* somebody is just stopping it.                                           *)
RunningIsUp ==
    \A i \in DOMAIN rows \ spoilt :
        rows[i].state = "running" => up[i] = Parts \/ TearingDown(i)

(* "Sessions reap when idle": none stays starting or running for ever once *)
(* nobody watches it, not even when a restart cut its provisioning short.  *)
SessionsEnd ==
    \A i \in 1..MaxSessions :
        (i \in DOMAIN rows /\ Active(i)) ~> (i \in DOMAIN rows /\ ~Active(i))
=============================================================================
