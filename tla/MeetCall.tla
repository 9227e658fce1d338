------------------------------- MODULE MeetCall -------------------------------
(***************************************************************************)
(* One video meeting: internal/meet/hub.go, the hub that relays the WebRTC *)
(* signalling of its participants, with their browsers: CallView of        *)
(* web/app/src/pages/meet/index.tsx.                                       *)
(*                                                                         *)
(* A tab opens the call once and leaves it once; a reload, or a second     *)
(* device, is another tab of the same user.  The hub knows participants by *)
(* user.  A queue stands for peer.out and what the writer put on the       *)
(* socket.  Left out: chat, ICE candidates, screen sharing, and the camera *)
(* and hand flags, which travel like the mute flag that is modelled.  What *)
(* a browser awaits within one message is one step.                        *)
(***************************************************************************)
EXTENDS Naturals, Sequences, FiniteSets

CONSTANTS
    Tabs,         \* call views, each with one socket and its hub handler
    Users,        \* peer ids
    Owner,        \* the user of each tab
    None,         \* nil
    QueueCap,     \* the capacity of peer.out
    Devices,      \* the tabs that get a camera and microphone when they ask
    MaxEvents     \* bound: mutes, links that fail and departures

ASSUME MeetAssumption ==
    /\ Owner \in [Tabs -> Users]
    /\ None \notin Tabs
    /\ QueueCap \in Nat \ {0}
    /\ Devices \subseteq Tabs
    /\ MaxEvents \in Nat

VARIABLES
    rooms,     \* Hub.rooms[roomID]; a callRoom goes by the tab it was made for
    peers,     \* callRoom.peers of each callRoom
    room,      \* cr in the handler of each tab
    stage,     \* how far the handler of each tab is
    outbox,    \* what each handler still has to send, as <<peer, message>>
    queue,     \* messages to each tab
    up,        \* messages from each tab that its handler has not read
    muted,     \* peer.audioMuted of each tab
    ws,        \* each tab's socket as the tab sees it
    media,     \* each tab's getUserMedia
    micOn,     \* each tab's microphone button
    pc,        \* each tab's RemotePeer and RTCPeerConnection for each user
    pending,   \* each tab's pendingOffersRef
    events,    \* how many so far
    lost,      \* history: the tabs for which a full queue dropped a message
    unsent,    \* history: the tabs whose last toggle found no open socket
    broken,    \* history: the users to whom a tab's connection has failed
    elders     \* history: the tabs that were in the call when a tab came

hub == <<rooms, peers, room, stage, muted>>
net == <<outbox, queue, lost>>
view == <<pc, pending, broken>>
button == <<media, micOn, unsent>>
vars == <<hub, net, up, ws, view, button, elders, events>>

-----------------------------------------------------------------------------
NoConn == [on |-> FALSE]

(* A new RTCPeerConnection with its tile: it carries the local tracks if   *)
(* there are any yet.                                                      *)
Conn(t, polite) ==
    [on |-> TRUE, polite |-> polite, tracks |-> media[t] = "on",
     sig |-> "new", muted |-> FALSE]

Shown(t) == {u \in Users : pc[t][u].on}

Idle(t) == outbox[t] = {}

(* Mutant of Others: only those whose own join is complete.                *)
OthersServing(t) ==
    {s \in {peers[room[t]][u] : u \in Users} \ {None, t} : stage[s] = "serving"}

(* The peers of a callRoom other than t itself.                            *)
Others(t) == {peers[room[t]][u] : u \in Users} \ {None, t}

OwnersOf(tabs) == {Owner[s] : s \in tabs}

(* A message that lists peers with their state.                            *)
Listing(type, tabs) ==
    [type |-> type, from |-> None,
     users |-> OwnersOf(tabs), muted |-> OwnersOf({s \in tabs : muted[s]})]

(* A message from one peer.                                                *)
Notice(type, u, off) ==
    [type |-> type, from |-> u, users |-> {}, muted |-> IF off THEN {u} ELSE {}]

Present(t) == room[t] # None /\ peers[room[t]][Owner[t]] = t

Send(t, m, to) == outbox' = [outbox EXCEPT ![t] = {<<p, m>> : p \in to}]

-----------------------------------------------------------------------------
(* The handler of a tab.                                                   *)

(* Mutant of Enter: a callRoom made but not kept.                          *)
EnterUnrecorded(t) ==
    /\ ws[t] # "none" /\ stage[t] = "none"
    /\ stage' = [stage EXCEPT ![t] = "entered"]
    /\ rooms' = IF rooms = None THEN t ELSE rooms
    /\ room' = [room EXCEPT ![t] = rooms]
    /\ UNCHANGED <<peers, muted, net, up, ws, view, button, elders, events>>

(* websocket.Accept, then getOrCreate.                                     *)
Enter(t) ==
    /\ ws[t] # "none" /\ stage[t] = "none"
    /\ stage' = [stage EXCEPT ![t] = "entered"]
    /\ rooms' = IF rooms = None THEN t ELSE rooms
    /\ room' = [room EXCEPT ![t] = rooms']
    /\ UNCHANGED <<peers, muted, net, up, ws, view, button, elders, events>>

AddPeer(t) ==
    /\ stage[t] = "entered"
    /\ stage' = [stage EXCEPT ![t] = "added"]
    /\ peers' = [peers EXCEPT ![room[t]][Owner[t]] = t]
    /\ elders' = [elders EXCEPT ![t] = {s \in Tabs : stage[s] = "serving" /\ Present(s)}]
    /\ UNCHANGED <<rooms, room, muted, net, up, ws, view, button, events>>

(* sendPresence and sendRosterState: a snapshot under the lock, then the   *)
(* send to the tab itself.                                                 *)
SendPresence(t) ==
    /\ stage[t] = "added"
    /\ stage' = [stage EXCEPT ![t] = "greeted"]
    /\ Send(t, Listing("presence", Others(t)), {t})
    /\ UNCHANGED <<rooms, peers, room, muted, queue, lost, up, ws, view, button, elders, events>>

SendRosterState(t) ==
    /\ stage[t] = "greeted" /\ Idle(t)
    /\ stage' = [stage EXCEPT ![t] = "listed"]
    /\ Send(t, Listing("roster_state", Others(t)), {t})
    /\ UNCHANGED <<rooms, peers, room, muted, queue, lost, up, ws, view, button, elders, events>>

(* The join is broadcast; the writer and the read loop start.              *)
AnnounceJoin(t) ==
    /\ stage[t] = "listed" /\ Idle(t)
    /\ stage' = [stage EXCEPT ![t] = "serving"]
    /\ Send(t, Notice("join", Owner[t], FALSE), Others(t))
    /\ UNCHANGED <<rooms, peers, room, muted, queue, lost, up, ws, view, button, elders, events>>

(* One send of a broadcast, or the only one of a unicast, to a channel     *)
(* that drops what does not fit.                                           *)
Deliver(t) ==
    \E send \in outbox[t] :
        /\ outbox' = [outbox EXCEPT ![t] = @ \ {send}]
        /\ IF Len(queue[send[1]]) < QueueCap
             THEN /\ queue' = [queue EXCEPT ![send[1]] = Append(@, send[2])]
                  /\ UNCHANGED lost
             ELSE /\ lost' = lost \cup {send[1]}
                  /\ UNCHANGED queue
        /\ UNCHANGED <<hub, up, ws, view, button, elders, events>>

(* route.  A media_state changes the peer and is broadcast; what has a     *)
(* target goes to the peer of that user, if there is one.                  *)
Route(t) ==
    /\ stage[t] = "serving" /\ Idle(t) /\ up[t] # <<>>
    /\ LET m == Head(up[t]) IN
         IF m.type = "media_state"
           THEN /\ muted' = [muted EXCEPT ![t] = m.off]
                /\ Send(t, Notice(m.type, Owner[t], m.off), Others(t))
           ELSE /\ Send(t, Notice(m.type, Owner[t], FALSE), {peers[room[t]][m.to]} \ {None})
                /\ UNCHANGED muted
    /\ up' = [up EXCEPT ![t] = Tail(@)]
    /\ UNCHANGED <<rooms, peers, room, stage, queue, lost, ws, view, button, elders, events>>

(* Mutant of EndServe: a failed write ends the handler of an open socket.  *)
EndServeOnWrite(t) ==
    /\ stage[t] = "serving" /\ Idle(t)
    /\ up[t] = <<>> /\ queue[t] # <<>>
    /\ stage' = [stage EXCEPT ![t] = "leaving"]
    /\ UNCHANGED <<rooms, peers, room, muted, net, up, ws, view, button, elders, events>>

(* The handler of a closed socket ends its read loop and then waits for    *)
(* its writer, which ends only when it has something to write and fails:   *)
(* the context it also waits for ends with the handler itself.             *)
EndServe(t) ==
    /\ stage[t] = "serving" /\ Idle(t)
    /\ ws[t] = "closed" /\ up[t] = <<>> /\ queue[t] # <<>>
    /\ stage' = [stage EXCEPT ![t] = "leaving"]
    /\ UNCHANGED <<rooms, peers, room, muted, net, up, ws, view, button, elders, events>>

(* The deferred delete, by user.                                           *)
RemovePeer(t) ==
    /\ stage[t] = "leaving"
    /\ stage' = [stage EXCEPT ![t] = "removed"]
    /\ peers' = [peers EXCEPT ![room[t]][Owner[t]] = None]
    /\ UNCHANGED <<rooms, room, muted, net, up, ws, view, button, elders, events>>

(* cleanup: empty is read under the lock of the callRoom, and the room     *)
(* deleted under the hub's.                                                *)
CheckEmpty(t) ==
    /\ stage[t] = "removed"
    /\ stage' = [stage EXCEPT ![t] =
                    IF \A u \in Users : peers[room[t]][u] = None THEN "emptied" ELSE "parting"]
    /\ UNCHANGED <<rooms, peers, room, muted, net, up, ws, view, button, elders, events>>

DeleteRoom(t) ==
    /\ stage[t] = "emptied"
    /\ stage' = [stage EXCEPT ![t] = "parting"]
    /\ rooms' = IF rooms = room[t] THEN None ELSE rooms
    /\ UNCHANGED <<peers, room, muted, net, up, ws, view, button, elders, events>>

AnnounceLeave(t) ==
    /\ stage[t] = "parting"
    /\ stage' = [stage EXCEPT ![t] = "ended"]
    /\ Send(t, Notice("leave", Owner[t], FALSE), Others(t))
    /\ UNCHANGED <<rooms, peers, room, muted, queue, lost, up, ws, view, button, elders, events>>

Handler(t) ==
    \/ Enter(t) \/ AddPeer(t) \/ SendPresence(t) \/ SendRosterState(t) \/ AnnounceJoin(t)
    \/ Deliver(t) \/ Route(t) \/ EndServe(t)
    \/ RemovePeer(t) \/ CheckEmpty(t) \/ DeleteRoom(t) \/ AnnounceLeave(t)

-----------------------------------------------------------------------------
(* The browser.                                                            *)

(* sendSignal: a message finds an open socket or is dropped.               *)
SendSignal(t, m) == up' = IF ws[t] = "open" THEN [up EXCEPT ![t] = Append(@, m)] ELSE up

(* CallView mounts: its effects ask for the camera and open the socket.    *)
Mount(t) ==
    /\ ws[t] = "none"
    /\ ws' = [ws EXCEPT ![t] = "connecting"]
    /\ media' = [media EXCEPT ![t] = "asking"]
    /\ UNCHANGED <<hub, net, up, view, micOn, unsent, elders, events>>

Opened(t) ==
    /\ ws[t] = "connecting" /\ stage[t] # "none"
    /\ ws' = [ws EXCEPT ![t] = "open"]
    /\ UNCHANGED <<hub, net, up, view, button, elders, events>>

(* The user allows the devices; one who does not stays without.            *)
AcquireMedia(t) ==
    /\ t \in Devices /\ media[t] = "asking" /\ ws[t] # "closed"
    /\ media' = [media EXCEPT ![t] = "on"]
    /\ UNCHANGED <<hub, net, up, ws, view, micOn, unsent, elders, events>>

ToggleMic(t) ==
    /\ media[t] = "on" /\ ws[t] # "closed" /\ events < MaxEvents
    /\ events' = events + 1
    /\ micOn' = [micOn EXCEPT ![t] = ~@]
    /\ SendSignal(t, [type |-> "media_state", to |-> None, off |-> micOn[t]])
    /\ unsent' = IF ws[t] = "open" THEN unsent \ {t} ELSE unsent \cup {t}
    /\ UNCHANGED <<hub, net, ws, view, media, elders>>

(* onnegotiationneeded, which fires for a connection that has tracks.      *)
Negotiate(t, u) ==
    /\ pc[t][u].on /\ pc[t][u].tracks /\ pc[t][u].sig = "new"
    /\ ~pc[t][u].polite /\ u \notin pending[t]
    /\ pc' = [pc EXCEPT ![t][u].sig = "offered"]
    /\ pending' = [pending EXCEPT ![t] = @ \cup {u}]
    /\ SendSignal(t, [type |-> "offer", to |-> u, off |-> FALSE])
    /\ UNCHANGED <<hub, net, ws, broken, button, elders, events>>

(* handleSignal, message by message.                                       *)
TakePresence(t, m) ==
    /\ m.type = "presence"
    /\ pc' = [pc EXCEPT ![t] = [u \in Users |->
                 IF u \in m.users /\ ~@[u].on THEN Conn(t, FALSE) ELSE @[u]]]
    /\ UNCHANGED <<up, pending>>

TakeRosterState(t, m) ==
    /\ m.type = "roster_state"
    /\ pc' = [pc EXCEPT ![t] = [u \in Users |->
                 IF u \in m.users /\ @[u].on THEN [@[u] EXCEPT !.muted = u \in m.muted]
                                             ELSE @[u]]]
    /\ UNCHANGED <<up, pending>>

TakeMediaState(t, m) ==
    /\ m.type = "media_state"
    /\ pc' = IF pc[t][m.from].on
               THEN [pc EXCEPT ![t][m.from].muted = m.from \in m.muted] ELSE pc
    /\ UNCHANGED <<up, pending>>

(* Mutant of TakeJoin: the one who was there calls too.                    *)
TakeJoinCalling(t, m) ==
    /\ m.type = "join"
    /\ pc' = IF pc[t][m.from].on THEN pc ELSE [pc EXCEPT ![t][m.from] = Conn(t, FALSE)]
    /\ UNCHANGED <<up, pending>>

TakeJoin(t, m) ==
    /\ m.type = "join"
    /\ pc' = IF pc[t][m.from].on THEN pc ELSE [pc EXCEPT ![t][m.from] = Conn(t, TRUE)]
    /\ UNCHANGED <<up, pending>>

(* Mutant of TakeLeave: a connection that is being made is kept.           *)
TakeLeaveLater(t, m) ==
    /\ m.type = "leave"
    /\ pc' = IF pc[t][m.from].on /\ pc[t][m.from].sig # "new"
               THEN [pc EXCEPT ![t][m.from] = NoConn] ELSE pc
    /\ pending' = [pending EXCEPT ![t] = @ \ {m.from}]
    /\ UNCHANGED up

TakeLeave(t, m) ==
    /\ m.type = "leave"
    /\ pc' = [pc EXCEPT ![t][m.from] = NoConn]
    /\ pending' = [pending EXCEPT ![t] = @ \ {m.from}]
    /\ UNCHANGED up

(* Mutant of TakeOffer: a new connection for every offer.                  *)
TakeOfferAnew(t, m) ==
    /\ m.type = "offer"
    /\ pc' = [pc EXCEPT ![t][m.from] = [Conn(t, TRUE) EXCEPT !.sig = "answered"]]
    /\ SendSignal(t, [type |-> "answer", to |-> m.from, off |-> FALSE])
    /\ UNCHANGED pending

(* An offer is always answered; one of the tab's own is rolled back.       *)
TakeOffer(t, m) ==
    /\ m.type = "offer"
    /\ LET known == IF pc[t][m.from].on THEN pc[t][m.from] ELSE Conn(t, TRUE) IN
         pc' = [pc EXCEPT ![t][m.from] = [known EXCEPT !.sig = "answered"]]
    /\ SendSignal(t, [type |-> "answer", to |-> m.from, off |-> FALSE])
    /\ UNCHANGED pending

TakeAnswer(t, m) ==
    /\ m.type = "answer"
    /\ IF pc[t][m.from].on /\ pc[t][m.from].sig = "offered"
         THEN /\ pc' = [pc EXCEPT ![t][m.from].sig = "agreed"]
              /\ pending' = [pending EXCEPT ![t] = @ \ {m.from}]
         ELSE UNCHANGED <<pc, pending>>
    /\ UNCHANGED up

Receive(t) ==
    /\ ws[t] = "open" /\ stage[t] = "serving" /\ queue[t] # <<>>
    /\ LET m == Head(queue[t]) IN
         \/ TakePresence(t, m) \/ TakeRosterState(t, m) \/ TakeMediaState(t, m)
         \/ TakeJoin(t, m) \/ TakeLeave(t, m) \/ TakeOffer(t, m) \/ TakeAnswer(t, m)
    /\ queue' = [queue EXCEPT ![t] = Tail(@)]
    /\ UNCHANGED <<hub, outbox, lost, ws, broken, button, elders, events>>

(* onconnectionstatechange: ICE gives up.                                  *)
ConnectionFails(t, u) ==
    /\ pc[t][u].on /\ pc[t][u].sig \in {"answered", "agreed"} /\ events < MaxEvents
    /\ events' = events + 1
    /\ pc' = [pc EXCEPT ![t][u] = NoConn]
    /\ broken' = [broken EXCEPT ![t] = @ \cup {u}]
    /\ UNCHANGED <<hub, net, up, ws, pending, button, elders>>

(* leave, or the tab is closed.  What the writer had written already it    *)
(* cannot fail to write.                                                   *)
Leave(t) ==
    /\ ws[t] \in {"connecting", "open"} /\ events < MaxEvents
    /\ events' = events + 1
    /\ ws' = [ws EXCEPT ![t] = "closed"]
    /\ pc' = [pc EXCEPT ![t] = [u \in Users |-> NoConn]]
    /\ pending' = [pending EXCEPT ![t] = {}]
    /\ \E written \in 0..Len(queue[t]) :
         /\ written > 0 => stage[t] = "serving"
         /\ queue' = [queue EXCEPT ![t] = SubSeq(@, written + 1, Len(@))]
    /\ UNCHANGED <<hub, outbox, lost, up, broken, button, elders>>

Browser(t) ==
    \/ Mount(t) \/ Opened(t) \/ AcquireMedia(t) \/ ToggleMic(t) \/ Receive(t) \/ Leave(t)
    \/ \E u \in Users : Negotiate(t, u) \/ ConnectionFails(t, u)

-----------------------------------------------------------------------------
Init ==
    /\ rooms = None
    /\ peers = [r \in Tabs |-> [u \in Users |-> None]]
    /\ room = [t \in Tabs |-> None]
    /\ stage = [t \in Tabs |-> "none"]
    /\ outbox = [t \in Tabs |-> {}]
    /\ queue = [t \in Tabs |-> <<>>]
    /\ up = [t \in Tabs |-> <<>>]
    /\ muted = [t \in Tabs |-> FALSE]
    /\ ws = [t \in Tabs |-> "none"]
    /\ media = [t \in Tabs |-> "none"]
    /\ micOn = [t \in Tabs |-> TRUE]
    /\ pc = [t \in Tabs |-> [u \in Users |-> NoConn]]
    /\ pending = [t \in Tabs |-> {}]
    /\ events = 0
    /\ lost = {} /\ unsent = {}
    /\ broken = [t \in Tabs |-> {}]
    /\ elders = [t \in Tabs |-> {}]

Next == \E t \in Tabs : Handler(t) \/ Browser(t)

Spec == Init /\ [][Next]_vars

-----------------------------------------------------------------------------
Lists ==
    [type : {"presence", "roster_state"}, from : {None},
     users : SUBSET Users, muted : SUBSET Users]

News ==
    [type : {"media_state", "join", "leave", "offer", "answer"}, from : Users,
     users : {{}}, muted : SUBSET Users]

Messages == Lists \cup News

Signals ==
    [type : {"media_state"}, to : {None}, off : BOOLEAN]
    \cup [type : {"offer", "answer"}, to : Users, off : {FALSE}]

Conns ==
    {NoConn} \cup
    [on : {TRUE}, polite : BOOLEAN, tracks : BOOLEAN,
     sig : {"new", "offered", "answered", "agreed"}, muted : BOOLEAN]

Stages ==
    {"none", "entered", "added", "greeted", "listed", "serving",
     "leaving", "removed", "emptied", "parting", "ended"}

(* Every variable has its type.                                            *)
TypeOK ==
    /\ rooms \in Tabs \cup {None}
    /\ peers \in [Tabs -> [Users -> Tabs \cup {None}]]
    /\ room \in [Tabs -> Tabs \cup {None}]
    /\ stage \in [Tabs -> Stages]
    /\ \A t \in Tabs : stage[t] = "none" <=> room[t] = None
    /\ outbox \in [Tabs -> SUBSET (Tabs \X Messages)]
    /\ queue \in [Tabs -> Seq(Messages)]
    /\ up \in [Tabs -> Seq(Signals)]
    /\ muted \in [Tabs -> BOOLEAN]
    /\ ws \in [Tabs -> {"none", "connecting", "open", "closed"}]
    /\ media \in [Tabs -> {"none", "asking", "on"}]
    /\ micOn \in [Tabs -> BOOLEAN]
    /\ pc \in [Tabs -> [Users -> Conns]]
    /\ pending \in [Tabs -> SUBSET Users]
    /\ events \in 0..MaxEvents
    /\ lost \subseteq Tabs /\ unsent \subseteq Tabs
    /\ broken \in [Tabs -> SUBSET Users]
    /\ elders \in [Tabs -> SUBSET Tabs]

-----------------------------------------------------------------------------
(* A tab whose user has no other tab that ever came to the call.           *)
Sole(t) == \A s \in Tabs : s # t /\ Owner[s] = Owner[t] => stage[s] = "none"

(* p has nothing from q any more to take from the hub.                     *)
UpToDate(p, q) ==
    /\ ws[p] = "open" /\ queue[p] = <<>>
    /\ \A send \in outbox[q] : send[1] # p

Together(p, q) ==
    /\ stage[p] = "serving" /\ Present(p)
    /\ stage[q] = "serving" /\ Present(q)
    /\ room[p] = room[q] /\ Owner[p] # Owner[q]

(* However joins overlap, two participants of one callRoom miss each other *)
(* at most for as long as a message is on its way: a tab that took         *)
(* everything the hub had for it shows everyone who is in the callRoom,    *)
(* unless a full queue dropped something or its own link has failed.       *)
MeshComplete ==
    \A p, q \in Tabs :
        /\ Together(p, q) /\ UpToDate(p, q) /\ Sole(q)
        /\ p \notin lost /\ Owner[q] \notin broken[p]
        => pc[p][Owner[q]].on

(* Those who were in the call before q came lose q with q: after the       *)
(* handler of q has told them, no tile of q stays or comes back, whatever  *)
(* made it (a join, an offer) and whatever was on its way.  (With a tab    *)
(* that came after q one may stay: the list it gets is taken under the lock*)
(* and sent after it, by when the leave of q may have passed.)             *)
NoGhosts ==
    \A p, q \in Tabs :
        /\ p \in elders[q] /\ Sole(q) /\ room[p] = room[q]
        /\ Present(p) /\ p \notin lost /\ pc[p][Owner[q]].on
        => \/ \E i \in DOMAIN queue[p] :
                 queue[p][i].type = "leave" /\ queue[p][i].from = Owner[q]
           \/ stage[q] # "ended" \/ \E send \in outbox[q] : send[1] = p

(* Between one who was there and one who came, the newcomer calls and the  *)
(* other answers, whatever the order in which the list, the join and the   *)
(* offer reach them, and the newcomer's connection is agreed only on what  *)
(* the other has answered.                                                 *)
OneCaller ==
    \A p, q \in Tabs :
        /\ p \in elders[q] /\ Together(p, q) /\ Sole(p) /\ Sole(q)
        /\ Owner[q] \notin broken[p] /\ Owner[p] \notin broken[q]
        => /\ pc[p][Owner[q]].on => pc[p][Owner[q]].polite
           /\ pc[q][Owner[p]].on =>
                /\ ~pc[q][Owner[p]].polite
                /\ pc[q][Owner[p]].sig = "agreed" /\ ws[p] = "open"
                     => pc[p][Owner[q]].on /\ pc[p][Owner[q]].sig = "answered"

(* Those who were in the call before q came see q's microphone as q has    *)
(* set it, once they took all that q sent: on its way it passed q's        *)
(* socket, the hub's record and their own queue.  (A toggle that found no  *)
(* open socket is never sent.)                                             *)
MuteShown ==
    \A p, q \in Tabs :
        /\ p \in elders[q] /\ Together(p, q) /\ UpToDate(p, q) /\ Sole(q)
        /\ up[q] = <<>> /\ q \notin unsent
        /\ p \notin lost /\ Owner[q] \notin broken[p]
        => pc[p][Owner[q]].muted = ~micOn[q]

(* The call keeps what Attendance promises.                                *)
Came == {t \in Tabs : stage[t] \notin {"none", "entered"}}

Went == {t \in Tabs : stage[t] \in {"leaving", "removed", "emptied", "parting", "ended"}}

Roll == INSTANCE Attendance WITH
    here <- Came,
    closed <- {t \in Tabs : ws[t] = "closed"},
    gone <- Went,
    seen <- [t \in Tabs |-> Shown(t)],
    broken <- broken

Attends == Roll!Spec
===============================================================================
