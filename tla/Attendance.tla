------------------------------ MODULE Attendance ------------------------------
(***************************************************************************)
(* What a call promises about who is seen in it, with no hub, message or   *)
(* queue: whoever is shown has come to the call, and whoever disappears    *)
(* from view has a session that went away, unless one's own link to them   *)
(* broke.  A user may come with several sessions (browser tabs); a session *)
(* comes once.                                                             *)
(***************************************************************************)
CONSTANTS Tabs, Users, Owner

VARIABLES
    here,      \* the sessions that have come
    closed,    \* the sessions that were closed, at their own end
    gone,      \* the sessions that were seen to go
    seen,      \* the users that each session shows
    broken     \* the users to whom the link of each session has broken

avars == <<here, closed, gone, seen, broken>>

Init ==
    /\ here = {} /\ closed = {} /\ gone = {}
    /\ seen = [t \in Tabs |-> {}]
    /\ broken = [t \in Tabs |-> {}]

Come(t) ==
    /\ here' = here \cup {t}
    /\ UNCHANGED <<closed, gone, seen, broken>>

(* Only a session that was closed goes.                                    *)
Go(t) ==
    /\ t \in here \cap closed
    /\ gone' = gone \cup {t}
    /\ UNCHANGED <<here, closed, seen, broken>>

Close(t) ==
    /\ closed' = closed \cup {t}
    /\ seen' = [seen EXCEPT ![t] = {}]
    /\ UNCHANGED <<here, gone, broken>>

See(t, new) ==
    /\ t \notin closed
    /\ new \subseteq {Owner[s] : s \in here}
    /\ seen' = [seen EXCEPT ![t] = @ \cup new]
    /\ UNCHANGED <<here, closed, gone, broken>>

Forget(t, u) ==
    /\ u \in {Owner[s] : s \in gone}
    /\ seen' = [seen EXCEPT ![t] = @ \ {u}]
    /\ UNCHANGED <<here, closed, gone, broken>>

Break(t, u) ==
    /\ seen' = [seen EXCEPT ![t] = @ \ {u}]
    /\ broken' = [broken EXCEPT ![t] = @ \cup {u}]
    /\ UNCHANGED <<here, closed, gone>>

Next ==
    \E t \in Tabs :
        \/ Come(t) \/ Go(t) \/ Close(t)
        \/ \E new \in SUBSET Users : See(t, new)
        \/ \E u \in Users : Forget(t, u) \/ Break(t, u)

Spec == Init /\ [][Next]_avars
===============================================================================
