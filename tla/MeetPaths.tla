------------------------------- MODULE MeetPaths -------------------------------
(***************************************************************************)
(* The inductive invariants of MeetCall behind MeshComplete, NoGhosts,     *)
(* OneCaller and MuteShown: what the handler of a tab q may still be       *)
(* sending, what is in the queue of a tab p, and what p shows of q.        *)
(***************************************************************************)
EXTENDS MeetCall

-----------------------------------------------------------------------------
(* The life of a handler: it has announced its join; it is in the call.    *)
Served == {"serving", "leaving", "removed", "emptied", "parting", "ended"}

InCall == {"added", "greeted", "listed", "serving"}

(* What the handler of s may be sending at the stage it has reached.       *)
Posted(s, p, m) ==
    /\ p \in Came
    /\ m.type = "presence" => stage[s] = "greeted" /\ p = s
    /\ m.type = "roster_state" => stage[s] = "listed" /\ p = s
    /\ m.type \in {"join", "media_state", "offer", "answer"} => stage[s] = "serving"
    /\ m.type = "leave" => stage[s] = "ended"
    /\ m.type \notin {"presence", "roster_state"} => m.from = Owner[s]

(* Who a message in a queue comes from.                                    *)
Spoken(m) ==
    m.type \notin {"presence", "roster_state"} =>
        \E s \in Tabs : /\ Owner[s] = m.from /\ stage[s] \in Served
                        /\ m.type = "leave" => stage[s] = "ended"

(* A handler sends one message at a time, the one its stage calls for.     *)
OutboxesWired ==
    \A s \in Tabs :
        /\ \A send \in outbox[s] : Posted(s, send[1], send[2])
        /\ \A x, y \in outbox[s] : x[2] = y[2]

(* A peer is a tab of that user, in that callRoom and still in the call.   *)
PeersWired ==
    \A r \in Tabs, u \in Users : peers[r][u] # None =>
        /\ Owner[peers[r][u]] = u /\ room[peers[r][u]] = r
        /\ stage[peers[r][u]] \in InCall \cup {"leaving"}

(* Only who came has a queue, and only who was served is in it.            *)
QueuesWired ==
    \A t \in Tabs :
        /\ queue[t] # <<>> => t \in Came
        /\ \A i \in DOMAIN queue[t] : Spoken(queue[t][i])

(* A tab shows, and calls, only users who came, and only while it is served*)
TabsWired ==
    \A t \in Tabs :
        /\ \A u \in Users :
              pc[t][u].on => stage[t] = "serving" /\ ws[t] # "closed" /\ u \in OwnersOf(Came)
        /\ \A i \in DOMAIN up[t] : up[t][i].type # "media_state" => up[t][i].to \in OwnersOf(Came)
        /\ stage[t] \notin Served => ~muted[t]

(* Those who were there before a tab are other tabs, and were served.      *)
EldersWired ==
    \A q \in Tabs : \A p \in elders[q] : stage[p] \in Served /\ q \in Came /\ p # q

Wired == OutboxesWired /\ PeersWired /\ QueuesWired /\ TabsWired /\ EldersWired

-----------------------------------------------------------------------------
(* News of u.                                                              *)
From(m, u) == m.type \notin {"presence", "roster_state"} /\ m.from = u

Says(m, type, u) == m.type = type /\ m.from = u

Queued(p, type, u) == \E i \in DOMAIN queue[p] : Says(queue[p][i], type, u)

Sending(q, p, type) == \E send \in outbox[q] : send[1] = p /\ send[2].type = type

(* No list that an elder of q has still to read names q's user.            *)
Unlisted(p, u) ==
    \A i \in DOMAIN queue[p] :
        queue[p][i].type \in {"presence", "roster_state"} => u \notin queue[p][i].users

Elder(p, q) ==
    LET u == Owner[q] IN
      /\ Unlisted(p, u)
      /\ pc[p][u].on => pc[p][u].polite /\ stage[q] \in Served

(* The two in one callRoom, and nothing was lost between them.             *)
Meeting(p, q) ==
    /\ Present(p) /\ Present(q) /\ room[p] = room[q] /\ Owner[p] # Owner[q]
    /\ stage[p] \in {"greeted", "listed", "serving"} /\ stage[q] = "serving"
    /\ p \notin lost /\ Owner[q] \notin broken[p] /\ ws[p] # "closed"

(* A message that makes its reader show u.                                 *)
Shows(m, u) == \/ m.type = "presence" /\ u \in m.users
               \/ Says(m, "join", u)

(* p shows q, or will: the news of q is in its queue or on its way to it.  *)
Meets(p, q) ==
    LET u == Owner[q] IN
      \/ pc[p][u].on
      \/ \E i \in DOMAIN queue[p] : Shows(queue[p][i], u)
      \/ \E send \in outbox[p] \cup outbox[q] : send[1] = p /\ Shows(send[2], u)

(* The leave of a user is the last that comes from it.                     *)
LeavesLast(p, q) ==
    LET u == Owner[q] IN
      \A i \in DOMAIN queue[p] : Says(queue[p][i], "leave", u) =>
          /\ \A send \in outbox[q] : send[1] # p
          /\ \A j \in DOMAIN queue[p] : i < j => ~From(queue[p][j], u)

(* Once q has gone, an elder p is told, or will be, or has been.           *)
Parted(p, q) ==
    LET u == Owner[q] IN
      stage[q] = "ended" /\ room[p] = room[q] /\ Present(p) /\ p \notin lost =>
          \/ \E send \in outbox[q] : send[1] = p
          \/ Queued(p, "leave", u)
          \/ ~pc[p][u].on /\ ~Queued(p, "join", u) /\ ~Queued(p, "offer", u)

(* An elder p of q does not call q.                                        *)
Uncalled(p, q) ==
    LET u == Owner[p] IN
      /\ pc[q][u].on => ~pc[q][u].polite
      /\ ~Queued(q, "join", u) /\ ~Queued(q, "offer", u)
      /\ ~Sending(p, q, "join") /\ ~Sending(p, q, "offer")
      /\ \A i \in DOMAIN up[p] : up[p][i].type = "offer" => up[p][i].to # Owner[q]

(* An answer of p to q is on its way, or q has taken one.                  *)
Answering(p, q) ==
    \/ \E i \in DOMAIN up[p] : up[p][i].type = "answer" /\ up[p][i].to = Owner[q]
    \/ Sending(p, q, "answer")
    \/ Queued(q, "answer", Owner[p])
    \/ pc[q][Owner[p]].on /\ pc[q][Owner[p]].sig = "agreed"

Answered(p, q) ==
    /\ Answering(p, q) /\ stage[q] \in InCall
    /\ ws[p] # "closed" /\ Owner[q] \notin broken[p]
    => pc[p][Owner[q]].on /\ pc[p][Owner[q]].sig = "answered"

(* The hub's record of q's microphone is q's, but for what q has sent.     *)
Recorded(q) ==
    q \notin unsent =>
      /\ \A i \in DOMAIN up[q] :
            /\ up[q][i].type = "media_state"
            /\ \A j \in DOMAIN up[q] : i < j => up[q][j].type # "media_state"
            => (up[q][i].off <=> ~micOn[q])
      /\ (\A i \in DOMAIN up[q] : up[q][i].type # "media_state") => (muted[q] <=> ~micOn[q])

(* An elder p has q's flag as the hub has it, but for what is on its way:  *)
(* in q's outbox, ...                                                      *)
Sound(p, q) ==
    \A send \in outbox[q] : send[1] = p /\ send[2].type = "media_state" =>
        /\ Owner[q] \in send[2].muted <=> muted[q]
        /\ pc[p][Owner[q]].on \/ Queued(p, "join", Owner[q])

(* ... or in p's queue, where the join comes first; ...                    *)
Led(p, q) ==
    \A i \in DOMAIN queue[p] : Says(queue[p][i], "media_state", Owner[q]) =>
        pc[p][Owner[q]].on \/ \E j \in DOMAIN queue[p] : j < i /\ Says(queue[p][j], "join", Owner[q])

(* ... the last flag there is the hub's, and without one p's tile is right.*)
LastMute(p, q) ==
    \A i \in DOMAIN queue[p] :
        /\ Says(queue[p][i], "media_state", Owner[q])
        /\ \A j \in DOMAIN queue[p] : i < j => ~Says(queue[p][j], "media_state", Owner[q])
        => (Owner[q] \in queue[p][i].muted <=> muted[q])

NoMute(p, q) ==
    ~Queued(p, "media_state", Owner[q]) =>
        (muted[q] <=> pc[p][Owner[q]].on /\ pc[p][Owner[q]].muted)

Flagged(p, q) ==
    /\ Sound(p, q) /\ Led(p, q)
    /\ ~Sending(q, p, "media_state") => LastMute(p, q) /\ NoMute(p, q)

-----------------------------------------------------------------------------
(* Whom a tab meets it shows, or the news is on its way to it.             *)
Joined == \A p, q \in Tabs : Sole(q) /\ Meeting(p, q) => Meets(p, q)

(* The leave of a user is the last of it, and reaches who was there before.*)
Left == \A p, q \in Tabs : Sole(q) => LeavesLast(p, q) /\ (p \in elders[q] => Parted(p, q))

(* To a tab that was there before, a newcomer is one it does not call.     *)
Known == \A p, q \in Tabs : Sole(q) /\ p \in elders[q] => Elder(p, q)

(* Of two, only the later calls, and is agreed once the other has answered.*)
Called ==
    \A p, q \in Tabs : Sole(p) /\ Sole(q) /\ p \in elders[q] => Uncalled(p, q) /\ Answered(p, q)

(* A microphone is as its tab set it, but for what is on its way.          *)
Heard ==
    /\ \A q \in Tabs : Recorded(q)
    /\ \A p, q \in Tabs : Sole(q) /\ p \in elders[q] /\ Meeting(p, q) => Flagged(p, q)
===============================================================================
