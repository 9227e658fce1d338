----------------------------- MODULE DocsCollab -----------------------------
(***************************************************************************)
(* internal/docs/collab.go: the Yjs relay Hub of one document, with the    *)
(* y-websocket clients it serves (web/app/src/pages/docs/collab.ts).       *)
(*                                                                         *)
(* A Yjs document is the set of updates it has applied (updates commute    *)
(* and are idempotent).  Each step of a connection's handler that another  *)
(* connection can come between is an action: finding the room, joining it, *)
(* replaying the log, relaying a message, persisting it, leaving the room, *)
(* dropping the empty room.  Awareness messages change no document and are *)
(* left out.                                                               *)
(***************************************************************************)
EXTENDS Naturals, Sequences, FiniteSets

CONSTANTS
    Clients,       \* browser tabs that open the document
    Writers,       \* those whose canWrite() answers TRUE
    QueueCap,      \* capacity of a peer's outbound queue (256)
    OfflineEdits,  \* whether users type while their socket is closed
    MaxEdits,      \* bound: edits made
    MaxOpens,      \* bound: sockets opened, and so rooms created
    MaxFailures    \* bound: database errors of AppendUpdate and Updates

ASSUME DocsAssumption ==
    /\ Writers \subseteq Clients
    /\ QueueCap \in Nat \ {0}
    /\ OfflineEdits \in BOOLEAN
    /\ {MaxEdits, MaxOpens, MaxFailures} \subseteq Nat

VARIABLES
    log,       \* the updates in the document's stored update log
    hubRoom,   \* Hub.rooms[docID]: the number of a room, 0 when there is none
    members,   \* room.peers of every room ever created
    pc,        \* where each client's handler is
    room,      \* the room each handler got from roomFor
    out,       \* peer.out of each connection
    routing,   \* the message each reader has relayed and has yet to persist
    has,       \* the updates each client's Y.Doc has applied
    up,        \* messages each client has sent and the hub has yet to read
    open,      \* whether each client's socket is open
    dropped,   \* whether enqueue ever found a queue full
    lost,      \* history: the updates in messages whose AppendUpdate failed
    edits, opens, failures  \* how many so far

conn == <<pc, room, out, routing>>
client == <<has, up, open>>
counts == <<edits, opens, failures>>
vars == <<log, hubRoom, members, conn, client, counts, dropped, lost>>

-----------------------------------------------------------------------------
(* An update is named by the number of the edit that made it.              *)
Update == [by : Clients, n : 1..MaxEdits]

Step1(known) == [kind |-> "step1", body |-> known]
Step2(diff)  == [kind |-> "step2", body |-> diff]
Edited(u)    == [kind |-> "update", body |-> {u}]

Message == [kind : {"step1", "step2", "update"}, body : SUBSET Update]

NoMessage == [kind |-> "none", body |-> {}]

(* Mutant of CarriesData: only updates are persisted.                      *)
CarriesUpdate(m) == m.kind = "update"

(* carriesData: the messages that are persisted, and refused to viewers.   *)
CarriesData(m) == m.kind \in {"step2", "update"}

SyncDone == Step2({})

(* Mutant of Enqueue: off by one.                                          *)
EnqueueOneMore(queue, msgs) == IF Len(queue) <= QueueCap THEN queue \o msgs ELSE queue

(* peer.enqueue drops the message when the queue is full.                  *)
Enqueue(queue, msgs) == IF Len(queue) < QueueCap THEN queue \o msgs ELSE queue

Goto(c, where) == pc' = [pc EXCEPT ![c] = where]

-----------------------------------------------------------------------------
(* A socket opens.  y-websocket sends a syncStep1 of what the client has;  *)
(* the handler's addPeer finds or creates the room under Hub.mu ...        *)
Open(c) ==
    /\ pc[c] = "away" /\ ~open[c]
    /\ opens < MaxOpens
    /\ opens' = opens + 1
    /\ open' = [open EXCEPT ![c] = TRUE]
    /\ up' = [up EXCEPT ![c] = <<Step1(has[c])>>]
    /\ IF hubRoom = 0
         THEN /\ members' = Append(members, {})
              /\ hubRoom' = Len(members')
         ELSE UNCHANGED <<members, hubRoom>>
    /\ room' = [room EXCEPT ![c] = hubRoom']
    /\ Goto(c, "found")
    /\ UNCHANGED <<log, out, routing, has, edits, failures, dropped, lost>>

(* The user types: an update is sent at once if the socket is open, and is *)
(* otherwise only in the Y.Doc.                                            *)
Edit(c) ==
    /\ edits < MaxEdits
    /\ open[c] \/ OfflineEdits
    /\ LET u == [by |-> c, n |-> edits + 1] IN
         /\ has' = [has EXCEPT ![c] = @ \cup {u}]
         /\ up' = IF open[c] THEN [up EXCEPT ![c] = Append(@, Edited(u))] ELSE up
    /\ edits' = edits + 1
    /\ UNCHANGED <<log, hubRoom, members, conn, open, opens, failures, dropped, lost>>

(* The writer's next message reaches the client, which applies it or, to a *)
(* syncStep1, answers with a syncStep2 of what the other one misses.       *)
Receive(c) ==
    /\ open[c] /\ pc[c] = "live" /\ out[c] # <<>>
    /\ LET m == Head(out[c]) IN
         IF m.kind = "step1"
           THEN /\ up' = [up EXCEPT ![c] = Append(@, Step2(has[c] \ m.body))]
                /\ UNCHANGED has
           ELSE /\ has' = [has EXCEPT ![c] = @ \cup m.body]
                /\ UNCHANGED up
    /\ out' = [out EXCEPT ![c] = Tail(@)]
    /\ UNCHANGED <<log, hubRoom, members, pc, room, routing, open, counts, dropped, lost>>

(* The socket closes; what it still carried either way is lost.            *)
Close(c) ==
    /\ open[c]
    /\ open' = [open EXCEPT ![c] = FALSE]
    /\ up' = [up EXCEPT ![c] = <<>>]
    /\ UNCHANGED <<log, hubRoom, members, conn, has, counts, dropped, lost>>

-----------------------------------------------------------------------------
(* The handler of a connection, ServeFunc.                                 *)

(* ... and joins it under room.mu.                                         *)
AddPeer(c) ==
    /\ pc[c] = "found"
    /\ members' = [members EXCEPT ![room[c]] = @ \cup {c}]
    /\ Goto(c, "joined")
    /\ UNCHANGED <<log, hubRoom, room, out, routing, client, counts, dropped, lost>>

(* replay writes the stored updates to the socket before the writer starts.*)
Replay(c) ==
    /\ pc[c] = "joined" /\ open[c]
    /\ has' = [has EXCEPT ![c] = @ \cup log]
    /\ Goto(c, "live")
    /\ UNCHANGED <<log, hubRoom, members, room, out, routing, up, open, counts, dropped, lost>>

(* Updates fails: the connection is closed so that the client reconnects.  *)
ReplayFails(c) ==
    /\ pc[c] = "joined" /\ open[c]
    /\ failures < MaxFailures
    /\ failures' = failures + 1
    /\ open' = [open EXCEPT ![c] = FALSE]
    /\ up' = [up EXCEPT ![c] = <<>>]
    /\ UNCHANGED <<log, hubRoom, members, conn, has, edits, opens, dropped, lost>>

(* Mutant of Refused: a viewer's syncStep2 goes through.                   *)
RefusedUpdate(c, m) == m.kind = "update" /\ c \notin Writers

(* A viewer's data is dropped.                                             *)
Refused(c, m) == CarriesData(m) /\ c \notin Writers

(* Mutant of Relay: the hub answers a syncStep1 itself and relays it to    *)
(* nobody.                                                                 *)
RelayDataOnly(c) ==
    /\ pc[c] = "live" /\ routing[c] = NoMessage /\ up[c] # <<>>
    /\ LET m == Head(up[c])
           to == [d \in Clients |->
                     CASE d = c /\ m.kind = "step1" -> <<SyncDone>>
                       [] d \in members[room[c]] \ {c} /\ CarriesData(m) -> <<m>>
                       [] OTHER -> <<>>]
       IN  IF Refused(c, m)
             THEN UNCHANGED <<out, routing, dropped>>
             ELSE /\ out' = [d \in Clients |-> Enqueue(out[d], to[d])]
                  /\ dropped' = (dropped \/ \E d \in Clients : out'[d] # out[d] \o to[d])
                  /\ routing' = IF CarriesData(m) THEN [routing EXCEPT ![c] = m] ELSE routing
    /\ up' = [up EXCEPT ![c] = Tail(@)]
    /\ UNCHANGED <<log, hubRoom, members, pc, room, has, open, counts, lost>>

(* The reader drops a viewer's data, and else relays to the rest of the    *)
(* room: route's broadcast.  Only then is data persisted (Persist), or a   *)
(* syncStep1 answered with syncDone.                                       *)
Relay(c) ==
    /\ pc[c] = "live" /\ routing[c] = NoMessage /\ up[c] # <<>>
    /\ LET m == Head(up[c])
           to == [d \in Clients |->
                     IF d = c THEN IF m.kind = "step1" THEN <<SyncDone>> ELSE <<>>
                              ELSE IF d \in members[room[c]] THEN <<m>> ELSE <<>>]
       IN  IF Refused(c, m)
             THEN UNCHANGED <<out, routing, dropped>>
             ELSE /\ out' = [d \in Clients |-> Enqueue(out[d], to[d])]
                  /\ dropped' = (dropped \/ \E d \in Clients : out'[d] # out[d] \o to[d])
                  /\ routing' = IF CarriesData(m) THEN [routing EXCEPT ![c] = m] ELSE routing
    /\ up' = [up EXCEPT ![c] = Tail(@)]
    /\ UNCHANGED <<log, hubRoom, members, pc, room, has, open, counts, lost>>

Persist(c) ==
    /\ routing[c] # NoMessage
    /\ log' = log \cup routing[c].body
    /\ routing' = [routing EXCEPT ![c] = NoMessage]
    /\ UNCHANGED <<hubRoom, members, pc, room, out, client, counts, dropped, lost>>

(* AppendUpdate fails: the error is only logged.                           *)
PersistFails(c) ==
    /\ routing[c] # NoMessage
    /\ failures < MaxFailures
    /\ failures' = failures + 1
    /\ lost' = lost \cup routing[c].body
    /\ routing' = [routing EXCEPT ![c] = NoMessage]
    /\ UNCHANGED <<log, hubRoom, members, pc, room, out, client, edits, opens, dropped>>

(* Mutant of RemovePeer: emptiness is looked at before the peer leaves.    *)
RemovePeerLate(c) ==
    /\ pc[c] \in {"joined", "live"} /\ ~open[c] /\ routing[c] = NoMessage
    /\ members' = [members EXCEPT ![room[c]] = @ \ {c}]
    /\ out' = [out EXCEPT ![c] = <<>>]
    /\ Goto(c, IF members[room[c]] = {} THEN "emptied" ELSE "away")
    /\ UNCHANGED <<log, hubRoom, room, routing, client, counts, dropped, lost>>

(* The reader, or the replay, sees the socket closed: removePeer takes the *)
(* peer out of the room and looks whether that leaves it empty ...         *)
RemovePeer(c) ==
    /\ pc[c] \in {"joined", "live"} /\ ~open[c] /\ routing[c] = NoMessage
    /\ members' = [members EXCEPT ![room[c]] = @ \ {c}]
    /\ out' = [out EXCEPT ![c] = <<>>]
    /\ Goto(c, IF members'[room[c]] = {} THEN "emptied" ELSE "away")
    /\ UNCHANGED <<log, hubRoom, room, routing, client, counts, dropped, lost>>

(* ... and then, under Hub.mu, drops the room from the hub if it is still  *)
(* the hub's.                                                              *)
DropRoom(c) ==
    /\ pc[c] = "emptied"
    /\ hubRoom' = IF hubRoom = room[c] THEN 0 ELSE hubRoom
    /\ Goto(c, "away")
    /\ UNCHANGED <<log, members, room, out, routing, client, counts, dropped, lost>>

-----------------------------------------------------------------------------
Init ==
    /\ log = {}
    /\ hubRoom = 0
    /\ members = <<>>
    /\ pc = [c \in Clients |-> "away"]
    /\ room = [c \in Clients |-> 0]
    /\ out = [c \in Clients |-> <<>>]
    /\ routing = [c \in Clients |-> NoMessage]
    /\ has = [c \in Clients |-> {}]
    /\ up = [c \in Clients |-> <<>>]
    /\ open = [c \in Clients |-> FALSE]
    /\ dropped = FALSE
    /\ lost = {}
    /\ edits = 0 /\ opens = 0 /\ failures = 0

Next ==
    \E c \in Clients :
        \/ Open(c) \/ Edit(c) \/ Receive(c) \/ Close(c)
        \/ AddPeer(c) \/ Replay(c) \/ ReplayFails(c)
        \/ Relay(c) \/ Persist(c) \/ PersistFails(c)
        \/ RemovePeer(c) \/ DropRoom(c)

Spec == Init /\ [][Next]_vars

-----------------------------------------------------------------------------
TypeOK ==
    /\ log \subseteq Update
    /\ members \in Seq(SUBSET Clients)
    /\ hubRoom \in 0..Len(members)
    /\ pc \in [Clients -> {"away", "found", "joined", "live", "emptied"}]
    /\ room \in [Clients -> 0..Len(members)]
    /\ out \in [Clients -> Seq(Message)]
    /\ \A c \in Clients : Len(out[c]) <= QueueCap
    /\ routing \in [Clients -> Message \cup {NoMessage}]
    /\ has \in [Clients -> SUBSET Update]
    /\ up \in [Clients -> Seq(Message)]
    /\ open \in [Clients -> BOOLEAN]
    /\ dropped \in BOOLEAN
    /\ lost \subseteq Update
    /\ edits \in 0..MaxEdits /\ opens \in 0..MaxOpens /\ failures \in 0..MaxFailures

Live == {c \in Clients : pc[c] = "live" /\ open[c]}

(* Every handler is either away or serving, and no message is on its way.  *)
AtRest ==
    \A c \in Clients :
        /\ pc[c] = (IF open[c] THEN "live" ELSE "away")
        /\ up[c] = <<>> /\ routing[c] = NoMessage
        /\ open[c] => out[c] = <<>>

(* ServeFunc's "drop their data updates server-side": what a viewer typed  *)
(* reaches neither the log nor another client, not even inside a syncStep2 *)
(* that answers someone else's syncStep1.                                  *)
ViewersReadOnly ==
    /\ \A u \in log : u.by \in Writers
    /\ \A c \in Clients : \A u \in has[c] : u.by \in Writers \cup {c}

(* What a collaborator has been shown is stored or about to be: route's    *)
(* relay before persist.  A failed AppendUpdate, which is only logged,     *)
(* loses the updates of its own message and no others.                     *)
SeenIsStored ==
    \A c \in Clients : \A u \in has[c] :
        u.by # c => u \in log \cup lost \cup UNION {routing[d].body : d \in Clients}

(* Joins at any moment, even between an edit's relay and its persistence,  *)
(* leave all clients with the same writers' edits once everything has been *)
(* delivered, because the syncStep1 each newcomer opens with is relayed and*)
(* answered: as long as nobody left, failed, overflowed or typed offline.  *)
JoinersConverge ==
    (AtRest /\ ~OfflineEdits /\ failures = 0 /\ ~dropped /\ opens = Cardinality(Live)) =>
        \A c, d \in Live : \A u \in has[c] : u.by \in Writers => u \in has[d]

(* The hub does not keep the room of a document nobody has open.           *)
NoRoomLeaks == (\A c \in Clients : pc[c] = "away") => hubRoom = 0
=============================================================================
