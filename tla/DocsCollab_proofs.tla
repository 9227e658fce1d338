-------------------------- MODULE DocsCollab_proofs --------------------------
(***************************************************************************)
(* Proofs about DocsCollab, for every set of clients and writers, every    *)
(* queue capacity and every number of edits, sockets and failures: viewers *)
(* are read-only, what a client was shown is stored, no room leaks, and    *)
(* clients agree until somebody leaves.                                    *)
(***************************************************************************)
EXTENDS DocsCollab, TLAPS, SequenceTheorems, FiniteSetTheorems

-----------------------------------------------------------------------------
(* The messages of a queue, and what the operations on queues do to them.  *)

Items(queue) == {queue[i] : i \in DOMAIN queue}

(* Reading a message takes the first one off the queue.                    *)
LEMMA ReadQueue ==
    ASSUME NEW q \in Seq(Message), q # <<>>
    PROVE  /\ Head(q) \in Message /\ Head(q) \in Items(q)
           /\ Tail(q) \in Seq(Message) /\ Items(Tail(q)) \subseteq Items(q)
           /\ Len(Tail(q)) <= Len(q)
  BY DEF Items

(* A client sends a message.                                               *)
LEMMA SendMessage ==
    ASSUME NEW q \in Seq(Message), NEW m \in Message
    PROVE  /\ Append(q, m) \in Seq(Message)
           /\ Items(Append(q, m)) \subseteq Items(q) \cup {m}
  BY DEF Items

(* peer.enqueue of nothing or of one message never overfills a queue.      *)
LEMMA EnqueueOne ==
    ASSUME QueueCap \in Nat, NEW q \in Seq(Message), Len(q) <= QueueCap, NEW m \in Message,
           NEW msgs, msgs = <<>> \/ msgs = <<m>>
    PROVE  /\ Enqueue(q, msgs) \in Seq(Message)
           /\ Len(Enqueue(q, msgs)) <= QueueCap
           /\ Items(Enqueue(q, msgs)) \subseteq Items(q) \cup {m}
<1>1. CASE msgs = <<>>
  BY <1>1 DEF Enqueue, Items
<1>2. CASE msgs = <<m>>
  <2>1. q \o <<m>> = Append(q, m) /\ Len(Append(q, m)) = Len(q) + 1
    OBVIOUS
  <2>2. CASE Len(q) < QueueCap
    <3>1. Enqueue(q, msgs) = Append(q, m)
      BY <1>2, <2>1, <2>2 DEF Enqueue
    <3>2. Len(Append(q, m)) <= QueueCap
      BY <2>1, <2>2, LenProperties
    <3> QED BY <3>1, <3>2, SendMessage
  <2>3. CASE ~(Len(q) < QueueCap)
    <3>1. Enqueue(q, msgs) = q
      BY <2>3 DEF Enqueue
    <3> QED BY <3>1
  <2> QED BY <2>2, <2>3
<1> QED BY <1>1, <1>2

(* The messages the model writes are messages of the protocol.             *)
LEMMA Messages ==
    ASSUME NEW us \in SUBSET Update, NEW u \in Update
    PROVE  /\ Step1(us) \in Message /\ Step2(us) \in Message /\ Edited(u) \in Message
           /\ SyncDone \in Message
           /\ NoMessage \notin Message
           /\ ~CarriesData(Step1(us)) /\ CarriesData(Step2(us)) /\ CarriesData(Edited(u))
           /\ Step1(us).body = us /\ Step2(us).body = us /\ Edited(u).body = {u}
           /\ SyncDone.body = {}
  BY DEF Step1, Step2, Edited, Message, SyncDone, NoMessage, CarriesData

(* What route and reply do to each queue: nothing, or one message more,    *)
(* the one read or, for its sender, a syncDone.                            *)
LEMMA RelayedTo ==
    ASSUME TypeOK, NEW c \in Clients, Relay(c)
    PROVE  /\ Head(up[c]) \in Message /\ Head(up[c]) \in Items(up[c])
           /\ ~Refused(c, Head(up[c])) \/ (out' = out /\ routing' = routing)
           /\ \/ routing' = routing
              \/ /\ CarriesData(Head(up[c]))
                 /\ routing' = [routing EXCEPT ![c] = Head(up[c])]
           /\ ~Refused(c, Head(up[c])) /\ CarriesData(Head(up[c]))
                 => routing' = [routing EXCEPT ![c] = Head(up[c])]
           /\ out' \in [Clients -> Seq(Message)]
           /\ \A d \in Clients :
                 /\ Len(out'[d]) <= QueueCap
                 /\ Items(out'[d]) \subseteq Items(out[d]) \cup {Head(up[c]), SyncDone}
  <1> DEFINE m == Head(up[c])
             to == [d \in Clients |->
                     IF d = c THEN IF m.kind = "step1" THEN <<SyncDone>> ELSE <<>>
                              ELSE IF d \in members[room[c]] THEN <<m>> ELSE <<>>]
  <1>1. m \in Message /\ m \in Items(up[c])
    BY ReadQueue DEF Relay, TypeOK
  <1>2. CASE Refused(c, m)
    BY <1>1, <1>2 DEF Relay, TypeOK
  <1>3. CASE ~Refused(c, m)
    <2>1. out' = [d \in Clients |-> Enqueue(out[d], to[d])]
      BY <1>3 DEF Relay
    <2>2. routing' = IF CarriesData(m) THEN [routing EXCEPT ![c] = m] ELSE routing
      BY <1>3 DEF Relay
    <2>3. ASSUME NEW d \in Clients
          PROVE  /\ Enqueue(out[d], to[d]) \in Seq(Message)
                 /\ Len(Enqueue(out[d], to[d])) <= QueueCap
                 /\ Items(Enqueue(out[d], to[d])) \subseteq Items(out[d]) \cup {m, SyncDone}
      <3>1. SyncDone \in Message /\ QueueCap \in Nat
        BY DocsAssumption DEF SyncDone, Step2, Message
      <3>2. out[d] \in Seq(Message) /\ Len(out[d]) <= QueueCap
        BY DEF TypeOK
      <3>3. to[d] = <<>> \/ to[d] = <<m>> \/ to[d] = <<SyncDone>>
        OBVIOUS
      <3> HIDE DEF to, m
      <3>4. CASE to[d] = <<>> \/ to[d] = <<m>>
        BY <1>1, <3>1, <3>2, <3>4, EnqueueOne
      <3>5. CASE to[d] = <<SyncDone>>
        BY <3>1, <3>2, <3>5, EnqueueOne
      <3> QED BY <3>3, <3>4, <3>5
    <2> HIDE DEF to
    <2> QED BY <1>1, <1>3, <2>1, <2>2, <2>3
  <1> QED BY <1>2, <1>3

-----------------------------------------------------------------------------
(* The inductive invariant.  What a client has says nothing of what it is  *)
(* about to receive, so the queues need invariants of their own.           *)

(* What a client sends is a writer's or its own ...                        *)
SentIsOwn ==
    \A c \in Clients : \A m \in Items(up[c]) :
        CarriesData(m) => \A u \in m.body : u.by \in Writers \cup {c}

(* ... and what the reader lets through is a writer's.                     *)
RelayedIsWriters ==
    \A c \in Clients :
        /\ \A u \in routing[c].body : u.by \in Writers
        /\ \A m \in Items(out[c]) : CarriesData(m) => \A u \in m.body : u.by \in Writers

(* An update that is stored, that its reader is about to store, or that it *)
(* failed to store.                                                        *)
Stored == log \cup lost \cup UNION {routing[d].body : d \in Clients}

(* So is what waits in a queue to be shown.                                *)
QueuedIsStored ==
    \A c \in Clients : \A m \in Items(out[c]) : CarriesData(m) => m.body \subseteq Stored

(* A connection past roomFor has a room, and is in no other room's peers.  *)
RoomsKnown ==
    /\ \A c \in Clients : pc[c] # "away" => room[c] \in DOMAIN members
    /\ \A r \in DOMAIN members : \A c \in members[r] :
          room[c] = r /\ pc[c] \in {"joined", "live"}

(* Someone still in a handler will drop the hub's room.                    *)
RoomIsHeld == hubRoom # 0 => \E c \in Clients : pc[c] # "away" /\ room[c] = hubRoom

IInv == /\ TypeOK
        /\ SentIsOwn /\ RelayedIsWriters /\ ViewersReadOnly
        /\ QueuedIsStored /\ SeenIsStored
        /\ RoomsKnown /\ RoomIsHeld

-----------------------------------------------------------------------------
(* What a reader is about to store is a set of updates.                    *)
LEMMA RoutingBody ==
    ASSUME TypeOK, NEW c \in Clients
    PROVE  routing[c].body \in SUBSET Update
<1>1. routing[c] \in Message \cup {NoMessage}
  BY DEF TypeOK
<1>2. CASE routing[c] \in Message
  BY <1>2 DEF Message
<1>3. CASE routing[c] = NoMessage
  BY <1>3 DEF NoMessage
<1> QED BY <1>1, <1>2, <1>3

(* Every operation keeps the types.                                        *)
LEMMA TypeStep ==
    ASSUME IInv, NEW c \in Clients
    PROVE  /\ Open(c) \/ Edit(c) \/ Receive(c) \/ Close(c) => TypeOK'
           /\ AddPeer(c) \/ Replay(c) \/ ReplayFails(c) => TypeOK'
           /\ Relay(c) \/ Persist(c) \/ PersistFails(c) => TypeOK'
           /\ RemovePeer(c) \/ DropRoom(c) => TypeOK'
<1> USE DocsAssumption DEF IInv
<1>1. ASSUME Open(c)  PROVE TypeOK'
  <2>1. Step1(has[c]) \in Message
    BY DEF TypeOK, Step1, Message
  <2>2. members' \in Seq(SUBSET Clients) /\ Len(members) <= Len(members') /\ hubRoom' \in 0..Len(members')
    <3>1. CASE hubRoom = 0
      <4>1. members' = Append(members, {}) /\ hubRoom' = Len(members')
        BY <1>1, <3>1 DEF Open
      <4>2. members \in Seq(SUBSET Clients) /\ {} \in SUBSET Clients
        BY DEF TypeOK
      <4>3. members' \in Seq(SUBSET Clients) /\ Len(members') = Len(members) + 1
        BY <4>1, <4>2, AppendProperties
      <4> QED BY <4>1, <4>2, <4>3, LenProperties
    <3>2. CASE hubRoom # 0
      BY <1>1, <3>2, LenProperties DEF TypeOK, Open
    <3> QED BY <3>1, <3>2
  <2>3. up' \in [Clients -> Seq(Message)]
    BY <1>1, <2>1 DEF TypeOK, Open
  <2>4. room' \in [Clients -> 0..Len(members')] /\ opens' \in 0..MaxOpens
    <3>1. room' = [room EXCEPT ![c] = hubRoom'] /\ opens' = opens + 1 /\ opens < MaxOpens
      BY <1>1 DEF Open
    <3>2. Len(members) \in Nat /\ Len(members') \in Nat
      BY <2>2, LenProperties DEF TypeOK
    <3>3. opens' \in 0..MaxOpens
      BY <3>1 DEF TypeOK
    <3>4. 0..Len(members) \subseteq 0..Len(members')
      BY <2>2, <3>2
    <3> QED BY <2>2, <3>1, <3>3, <3>4 DEF TypeOK
  <2> QED BY <1>1, <2>2, <2>3, <2>4 DEF TypeOK, Open, Goto
<1>2. ASSUME Edit(c)  PROVE TypeOK'
  <2> DEFINE u == [by |-> c, n |-> edits + 1]
  <2>1. u \in Update /\ Edited(u) \in Message
    BY <1>2 DEF TypeOK, Edit, Update, Edited, Message
  <2> HIDE DEF u
  <2>2. has' = [has EXCEPT ![c] = has[c] \cup {u}]
        /\ up' = IF open[c] THEN [up EXCEPT ![c] = Append(up[c], Edited(u))] ELSE up
    BY <1>2 DEF Edit, u
  <2>3. Append(up[c], Edited(u)) \in Seq(Message)
    BY <2>1, SendMessage DEF TypeOK
  <2>4. has' \in [Clients -> SUBSET Update] /\ up' \in [Clients -> Seq(Message)]
    BY <2>1, <2>2, <2>3 DEF TypeOK
  <2>5. edits' \in 0..MaxEdits
    BY <1>2 DEF TypeOK, Edit
  <2> QED BY <1>2, <2>4, <2>5 DEF TypeOK, Edit, conn
<1>3. ASSUME Receive(c)  PROVE TypeOK'
  <2> DEFINE m == Head(out[c])
  <2>1. out[c] \in Seq(Message) /\ out[c] # <<>>
    BY <1>3 DEF TypeOK, Receive
  <2>2. m \in Message /\ Tail(out[c]) \in Seq(Message) /\ Len(Tail(out[c])) <= Len(out[c])
    BY <2>1, ReadQueue
  <2>3. m.body \in SUBSET Update
    BY <2>2 DEF Message
  <2>4. Append(up[c], Step2(has[c] \ m.body)) \in Seq(Message)
    BY <2>3, SendMessage DEF TypeOK, Step2, Message
  <2>5. \/ /\ up' = [up EXCEPT ![c] = Append(up[c], Step2(has[c] \ m.body))]
           /\ has' = has
        \/ /\ has' = [has EXCEPT ![c] = has[c] \cup m.body]
           /\ up' = up
    BY <1>3 DEF Receive
  <2>6. out' = [out EXCEPT ![c] = Tail(out[c])]
    BY <1>3 DEF Receive
  <2> HIDE DEF m
  <2>7. up' \in [Clients -> Seq(Message)] /\ has' \in [Clients -> SUBSET Update]
    BY <2>3, <2>4, <2>5 DEF TypeOK
  <2>8. out' \in [Clients -> Seq(Message)] /\ \A d \in Clients : Len(out'[d]) <= QueueCap
    <3>1. Len(Tail(out[c])) <= QueueCap
      BY <2>1, <2>2, LenProperties DEF TypeOK
    <3> QED BY <2>2, <2>6, <3>1 DEF TypeOK
  <2> QED BY <1>3, <2>7, <2>8 DEF TypeOK, Receive, counts
<1>4. ASSUME Close(c)  PROVE TypeOK'
  BY <1>4 DEF TypeOK, Close, conn, counts
<1>5. ASSUME AddPeer(c)  PROVE TypeOK'
  <2>1. room[c] \in DOMAIN members /\ members[room[c]] \cup {c} \in SUBSET Clients
    BY <1>5 DEF TypeOK, AddPeer, RoomsKnown
  <2>2. members' \in Seq(SUBSET Clients) /\ Len(members') = Len(members)
    BY <1>5, <2>1, ExceptSeq DEF TypeOK, AddPeer
  <2> QED BY <1>5, <2>2 DEF TypeOK, AddPeer, Goto, client, counts
<1>6. ASSUME Replay(c)  PROVE TypeOK'
  BY <1>6 DEF TypeOK, Replay, Goto, counts
<1>7. ASSUME ReplayFails(c)  PROVE TypeOK'
  BY <1>7 DEF TypeOK, ReplayFails, conn
<1>8. ASSUME Relay(c)  PROVE TypeOK'
  <2>1. /\ out' \in [Clients -> Seq(Message)]
        /\ \A d \in Clients : Len(out'[d]) <= QueueCap
        /\ routing' = routing \/ routing' = [routing EXCEPT ![c] = Head(up[c])]
        /\ Head(up[c]) \in Message
    BY <1>8, RelayedTo
  <2>2. routing' \in [Clients -> Message \cup {NoMessage}]
    BY <2>1 DEF TypeOK
  <2>3. up' \in [Clients -> Seq(Message)]
    BY <1>8, ReadQueue DEF TypeOK, Relay
  <2>4. dropped' \in BOOLEAN
    BY <1>8 DEF TypeOK, Relay
  <2> QED BY <1>8, <2>1, <2>2, <2>3, <2>4 DEF TypeOK, Relay, counts
<1>9. ASSUME Persist(c)  PROVE TypeOK'
  <2>1. routing[c].body \subseteq Update
    BY RoutingBody
  <2> QED BY <1>9, <2>1 DEF TypeOK, Persist, client, counts
<1>10. ASSUME PersistFails(c)  PROVE TypeOK'
  <2>1. routing[c].body \subseteq Update
    BY RoutingBody
  <2> QED BY <1>10, <2>1 DEF TypeOK, PersistFails, client
<1>11. ASSUME RemovePeer(c)  PROVE TypeOK'
  <2>1. room[c] \in DOMAIN members /\ members[room[c]] \ {c} \in SUBSET Clients
    BY <1>11 DEF TypeOK, RemovePeer, RoomsKnown
  <2>2. members' \in Seq(SUBSET Clients) /\ Len(members') = Len(members)
    BY <1>11, <2>1, ExceptSeq DEF TypeOK, RemovePeer
  <2>3. out' \in [Clients -> Seq(Message)] /\ \A d \in Clients : Len(out'[d]) <= QueueCap
    BY <1>11 DEF TypeOK, RemovePeer
  <2> QED BY <1>11, <2>2, <2>3 DEF TypeOK, RemovePeer, Goto, client, counts
<1>12. ASSUME DropRoom(c)  PROVE TypeOK'
  BY <1>12 DEF TypeOK, DropRoom, Goto, client, counts
<1> QED BY <1>1, <1>2, <1>3, <1>4, <1>5, <1>6, <1>7, <1>8, <1>9, <1>10, <1>11, <1>12
-----------------------------------------------------------------------------
(* The read-only half of the invariant: what a viewer typed stays with it. *)
ByWriters == SentIsOwn /\ RelayedIsWriters /\ ViewersReadOnly

(* A step that adds nothing to any queue, document or log.                 *)
LEMMA NothingNew ==
    ASSUME IInv,
           log' = log, has' = has,
           \A d \in Clients : /\ Items(up'[d]) \subseteq Items(up[d])
                              /\ Items(out'[d]) \subseteq Items(out[d])
                              /\ routing'[d].body = routing[d].body \/ routing'[d].body = {}
    PROVE  ByWriters'
<1>1. SentIsOwn' /\ ViewersReadOnly'
  BY DEF IInv, SentIsOwn, ViewersReadOnly, CarriesData
<1>2. RelayedIsWriters'
  BY DEF IInv, RelayedIsWriters, CarriesData
<1> QED BY <1>1, <1>2 DEF ByWriters

(* An emptied queue has no messages.                                       *)
LEMMA EmptyQueue == Items(<<>>) = {} /\ NoMessage.body = {}
  BY DEF Items, NoMessage

(* No operation shows or stores what a viewer typed.                       *)
LEMMA ReadOnlyStep ==
    ASSUME IInv, NEW c \in Clients
    PROVE  /\ Open(c) \/ Edit(c) \/ Receive(c) \/ Close(c) => ByWriters'
           /\ AddPeer(c) \/ Replay(c) \/ ReplayFails(c) => ByWriters'
           /\ Relay(c) \/ Persist(c) \/ PersistFails(c) => ByWriters'
           /\ RemovePeer(c) \/ DropRoom(c) => ByWriters'
<1>0. TypeOK /\ SentIsOwn /\ RelayedIsWriters /\ ViewersReadOnly
  BY DEF IInv
<1>1. ASSUME Open(c)  PROVE ByWriters'
  <2>1. Items(<<Step1(has[c])>>) = {Step1(has[c])} /\ ~CarriesData(Step1(has[c]))
    BY DEF Items, Step1, CarriesData
  <2>2. \A d \in Clients : up'[d] = IF d = c THEN <<Step1(has[c])>> ELSE up[d]
    BY <1>0, <1>1 DEF TypeOK, Open
  <2>3. SentIsOwn'
    BY <1>0, <2>1, <2>2 DEF SentIsOwn, CarriesData
  <2> QED BY <1>0, <1>1, <2>3 DEF ByWriters, Open, RelayedIsWriters, ViewersReadOnly, CarriesData
<1>2. ASSUME Edit(c)  PROVE ByWriters'
  <2> DEFINE u == [by |-> c, n |-> edits + 1]
  <2>1. u \in Update /\ u.by = c
    BY <1>0, <1>2, DocsAssumption DEF TypeOK, Edit, Update
  <2>2. has' = [has EXCEPT ![c] = has[c] \cup {u}]
        /\ up' = IF open[c] THEN [up EXCEPT ![c] = Append(up[c], Edited(u))] ELSE up
    BY <1>2 DEF Edit
  <2> HIDE DEF u
  <2>3. Items(Append(up[c], Edited(u))) \subseteq Items(up[c]) \cup {Edited(u)}
        /\ Edited(u).body = {u}
    BY <1>0, <2>1, SendMessage, Messages DEF TypeOK
  <2>4. \A d \in Clients : /\ d # c => up'[d] = up[d] /\ has'[d] = has[d]
                           /\ d = c => up'[d] = up[d] \/ up'[d] = Append(up[d], Edited(u))
                           /\ d = c => has'[d] = has[d] \cup {u}
    BY <1>0, <2>2 DEF TypeOK
  <2>5. SentIsOwn'
    <3>1. \A d \in Clients : \A n \in Items(up'[d]) :
             n \in Items(up[d]) \/ (d = c /\ n.body = {u})
      BY <2>3, <2>4
    <3> QED BY <1>0, <2>1, <3>1 DEF SentIsOwn, CarriesData
  <2>6. ViewersReadOnly'
    BY <1>0, <1>2, <2>1, <2>4 DEF ViewersReadOnly, Edit
  <2> QED BY <1>0, <1>2, <2>5, <2>6 DEF ByWriters, Edit, conn, RelayedIsWriters, CarriesData
<1>3. ASSUME Receive(c)  PROVE ByWriters'
  <2> DEFINE m == Head(out[c])
             answer == Step2(has[c] \ m.body)
  <2>1. m \in Message /\ m \in Items(out[c]) /\ Items(Tail(out[c])) \subseteq Items(out[c])
    BY <1>0, <1>3, ReadQueue DEF TypeOK, Receive
  <2>2. \/ /\ up' = [up EXCEPT ![c] = Append(up[c], answer)]
           /\ has' = has
        \/ /\ has' = [has EXCEPT ![c] = has[c] \cup m.body]
           /\ m.kind # "step1"
           /\ up' = up
    BY <1>3 DEF Receive
  <2>3. answer \in Message /\ answer.body \subseteq has[c]
    BY <1>0 DEF TypeOK, Step2, Message
  <2>4. Items(Append(up[c], answer)) \subseteq Items(up[c]) \cup {answer}
    BY <1>0, <2>3, SendMessage DEF TypeOK
  <2>5. m.kind # "step1" => CarriesData(m)
    BY <2>1 DEF Message, CarriesData
  <2>6. out' = [out EXCEPT ![c] = Tail(out[c])]
    BY <1>3 DEF Receive
  <2> HIDE DEF m, answer
  <2>7. SentIsOwn'
    <3>1. CASE up' = up
      BY <1>0, <3>1 DEF SentIsOwn, CarriesData
    <3>2. CASE up' = [up EXCEPT ![c] = Append(up[c], answer)]
      <4>1. \A d \in Clients : up'[d] = IF d = c THEN Append(up[c], answer) ELSE up[d]
        BY <1>0, <3>2 DEF TypeOK
      <4>2. \A u \in answer.body : u.by \in Writers \cup {c}
        BY <1>0, <2>3 DEF ViewersReadOnly
      <4> QED BY <1>0, <2>4, <4>1, <4>2 DEF SentIsOwn, CarriesData
    <3> QED BY <2>2, <3>1, <3>2
  <2>8. ViewersReadOnly'
    <3>1. CASE has' = has
      BY <1>0, <1>3, <3>1 DEF ViewersReadOnly, Receive
    <3>2. CASE has' = [has EXCEPT ![c] = has[c] \cup m.body] /\ m.kind # "step1"
      <4>1. \A u \in m.body : u.by \in Writers
        BY <1>0, <2>1, <2>5, <3>2 DEF RelayedIsWriters
      <4>2. \A d \in Clients : has'[d] = IF d = c THEN has[c] \cup m.body ELSE has[d]
        BY <1>0, <3>2 DEF TypeOK
      <4> QED BY <1>0, <1>3, <4>1, <4>2 DEF ViewersReadOnly, Receive
    <3> QED BY <2>2, <3>1, <3>2
  <2>9. RelayedIsWriters'
    <3>1. \A d \in Clients : Items(out'[d]) \subseteq Items(out[d])
      BY <1>0, <2>1, <2>6 DEF TypeOK
    <3> QED BY <1>0, <1>3, <3>1 DEF RelayedIsWriters, Receive, CarriesData
  <2> QED BY <2>7, <2>8, <2>9 DEF ByWriters
<1>4. ASSUME Close(c)  PROVE ByWriters'
  <2>1. \A d \in Clients : Items(up'[d]) \subseteq Items(up[d])
    BY <1>0, <1>4, EmptyQueue DEF TypeOK, Close
  <2> QED BY <1>4, <2>1, NothingNew DEF Close, conn
<1>5. ASSUME AddPeer(c)  PROVE ByWriters'
  BY <1>5, NothingNew DEF AddPeer, client
<1>6. ASSUME Replay(c)  PROVE ByWriters'
  <2>1. \A d \in Clients : has'[d] \subseteq has[d] \cup log
    BY <1>0, <1>6 DEF TypeOK, Replay
  <2>2. ViewersReadOnly'
    BY <1>0, <1>6, <2>1 DEF ViewersReadOnly, Replay
  <2> QED BY <1>0, <1>6, <2>2 DEF ByWriters, Replay, SentIsOwn, RelayedIsWriters, CarriesData
<1>7. ASSUME ReplayFails(c)  PROVE ByWriters'
  <2>1. \A d \in Clients : Items(up'[d]) \subseteq Items(up[d])
    BY <1>0, <1>7, EmptyQueue DEF TypeOK, ReplayFails
  <2> QED BY <1>7, <2>1, NothingNew DEF ReplayFails, conn
<1>8. ASSUME Relay(c)  PROVE ByWriters'
  <2> DEFINE m == Head(up[c])
  <2>1. m \in Message /\ m \in Items(up[c]) /\ Items(Tail(up[c])) \subseteq Items(up[c])
    BY <1>0, <1>8, ReadQueue DEF TypeOK, Relay
  <2>2. /\ \A d \in Clients : Items(out'[d]) \subseteq Items(out[d]) \cup {m, SyncDone}
        /\ ~Refused(c, m) \/ (out' = out /\ routing' = routing)
        /\ routing' = routing \/ (CarriesData(m) /\ routing' = [routing EXCEPT ![c] = m])
    BY <1>0, <1>8, RelayedTo
  <2>3. up' = [up EXCEPT ![c] = Tail(up[c])]
    BY <1>8 DEF Relay
  <2> HIDE DEF m
  <2>4. SyncDone.body = {}
    BY DEF SyncDone, Step2
  <2>5. ~Refused(c, m) /\ CarriesData(m) => \A u \in m.body : u.by \in Writers
    BY <1>0, <2>1 DEF Refused, SentIsOwn
  <2>6. SentIsOwn'
    <3>1. \A d \in Clients : Items(up'[d]) \subseteq Items(up[d])
      BY <1>0, <2>1, <2>3 DEF TypeOK
    <3> QED BY <1>0, <3>1 DEF SentIsOwn, CarriesData
  <2>7. RelayedIsWriters'
    <3>1. CASE Refused(c, m)
      BY <1>0, <2>2, <3>1 DEF RelayedIsWriters, CarriesData
    <3>2. CASE ~Refused(c, m)
      <4>1. \A d \in Clients : routing'[d] = routing[d] \/ (CarriesData(m) /\ routing'[d] = m)
        BY <1>0, <2>2 DEF TypeOK
      <4> QED BY <1>0, <2>2, <2>4, <2>5, <3>2, <4>1 DEF RelayedIsWriters, CarriesData
    <3> QED BY <3>1, <3>2
  <2>8. ViewersReadOnly'
    BY <1>0, <1>8 DEF ViewersReadOnly, Relay
  <2> QED BY <2>6, <2>7, <2>8 DEF ByWriters
<1>9. ASSUME Persist(c)  PROVE ByWriters'
  <2>1. \A d \in Clients : routing'[d].body = routing[d].body \/ routing'[d].body = {}
    BY <1>0, <1>9, EmptyQueue DEF TypeOK, Persist
  <2>2. RelayedIsWriters'
    BY <1>0, <1>9, <2>1 DEF RelayedIsWriters, Persist, CarriesData
  <2>3. ViewersReadOnly'
    BY <1>0, <1>9 DEF ViewersReadOnly, RelayedIsWriters, Persist, client
  <2> QED BY <1>0, <1>9, <2>2, <2>3 DEF ByWriters, Persist, client, SentIsOwn, CarriesData
<1>10. ASSUME PersistFails(c)  PROVE ByWriters'
  <2>1. \A d \in Clients : routing'[d].body = routing[d].body \/ routing'[d].body = {}
    BY <1>0, <1>10, EmptyQueue DEF TypeOK, PersistFails
  <2> QED BY <1>10, <2>1, NothingNew DEF PersistFails, client
<1>11. ASSUME RemovePeer(c)  PROVE ByWriters'
  <2>1. \A d \in Clients : Items(out'[d]) \subseteq Items(out[d])
    BY <1>0, <1>11, EmptyQueue DEF TypeOK, RemovePeer
  <2> QED BY <1>11, <2>1, NothingNew DEF RemovePeer, client
<1>12. ASSUME DropRoom(c)  PROVE ByWriters'
  BY <1>12, NothingNew DEF DropRoom, client
<1> QED BY <1>1, <1>2, <1>3, <1>4, <1>5, <1>6, <1>7, <1>8, <1>9, <1>10, <1>11, <1>12
-----------------------------------------------------------------------------
(* The durability half: relaying what is about to be stored, and storing it*)
(* before forgetting it, keeps whatever is shown among what is stored.     *)
OnRecord == QueuedIsStored /\ SeenIsStored

(* A step that keeps what was stored, and shows and queues nothing else.   *)
LEMMA NothingForgotten ==
    ASSUME IInv,
           Stored \subseteq Stored',
           \A d \in Clients : /\ Items(out'[d]) \subseteq Items(out[d])
                              /\ \A u \in has'[d] : u \in has[d] \/ u.by = d \/ u \in Stored
    PROVE  OnRecord'
<1>1. QueuedIsStored'
  BY DEF IInv, QueuedIsStored, CarriesData
<1>2. SeenIsStored'
  BY DEF IInv, SeenIsStored, Stored
<1> QED BY <1>1, <1>2 DEF OnRecord

(* Only reading, storing and failing to store change what is on record.    *)
LEMMA StoredSame ==
    ASSUME log' = log, lost' = lost, routing' = routing
    PROVE  Stored' = Stored
  BY DEF Stored

(* No operation shows what is neither stored nor about to be.              *)
LEMMA StoredStep ==
    ASSUME IInv, NEW c \in Clients
    PROVE  /\ Open(c) \/ Edit(c) \/ Receive(c) \/ Close(c) => OnRecord'
           /\ AddPeer(c) \/ Replay(c) \/ ReplayFails(c) => OnRecord'
           /\ Relay(c) \/ Persist(c) \/ PersistFails(c) => OnRecord'
           /\ RemovePeer(c) \/ DropRoom(c) => OnRecord'
<1>0. TypeOK /\ QueuedIsStored /\ SeenIsStored
  BY DEF IInv
<1>1. ASSUME Open(c)  PROVE OnRecord'
  BY <1>1, StoredSame, NothingForgotten DEF Open
<1>2. ASSUME Edit(c)  PROVE OnRecord'
  <2>1. Stored' = Stored
    BY <1>2, StoredSame DEF Edit, conn
  <2>2. \A d \in Clients : \A u \in has'[d] : u \in has[d] \/ u.by = d
    BY <1>0, <1>2 DEF TypeOK, Edit
  <2> QED BY <1>2, <2>1, <2>2, NothingForgotten DEF Edit, conn
<1>3. ASSUME Receive(c)  PROVE OnRecord'
  <2> DEFINE m == Head(out[c])
  <2>1. m \in Message /\ m \in Items(out[c]) /\ Items(Tail(out[c])) \subseteq Items(out[c])
    BY <1>0, <1>3, ReadQueue DEF TypeOK, Receive
  <2>2. \/ has' = has
        \/ m.kind # "step1" /\ has' = [has EXCEPT ![c] = has[c] \cup m.body]
    BY <1>3 DEF Receive
  <2>3. out' = [out EXCEPT ![c] = Tail(out[c])]
    BY <1>3 DEF Receive
  <2>4. Stored' = Stored
    BY <1>3, StoredSame DEF Receive
  <2> HIDE DEF m
  <2>5. m.kind # "step1" => CarriesData(m)
    BY <2>1 DEF Message, CarriesData
  <2>6. \A d \in Clients : Items(out'[d]) \subseteq Items(out[d])
    BY <1>0, <2>1, <2>3 DEF TypeOK
  <2>7. m.kind # "step1" => m.body \subseteq Stored
    BY <1>0, <2>1, <2>5 DEF QueuedIsStored
  <2>8. \A d \in Clients : \A u \in has'[d] : u \in has[d] \/ u \in Stored
    BY <1>0, <2>2, <2>7 DEF TypeOK
  <2> QED BY <2>4, <2>6, <2>8, NothingForgotten
<1>4. ASSUME Close(c)  PROVE OnRecord'
  BY <1>4, StoredSame, NothingForgotten DEF Close, conn, counts
<1>5. ASSUME AddPeer(c)  PROVE OnRecord'
  BY <1>5, StoredSame, NothingForgotten DEF AddPeer, client, counts
<1>6. ASSUME Replay(c)  PROVE OnRecord'
  <2>1. \A d \in Clients : \A u \in has'[d] : u \in has[d] \/ u \in Stored
    BY <1>0, <1>6 DEF TypeOK, Replay, Stored
  <2> QED BY <1>6, <2>1, StoredSame, NothingForgotten DEF Replay, counts
<1>7. ASSUME ReplayFails(c)  PROVE OnRecord'
  BY <1>7, StoredSame, NothingForgotten DEF ReplayFails, conn
<1>8. ASSUME Relay(c)  PROVE OnRecord'
  <2> DEFINE m == Head(up[c])
  <2>1. /\ \A d \in Clients : Items(out'[d]) \subseteq Items(out[d]) \cup {m, SyncDone}
        /\ ~Refused(c, m) \/ (out' = out /\ routing' = routing)
        /\ routing' = routing \/ (CarriesData(m) /\ routing' = [routing EXCEPT ![c] = m])
        /\ ~Refused(c, m) /\ CarriesData(m) => routing' = [routing EXCEPT ![c] = m]
    BY <1>0, <1>8, RelayedTo
  <2>2. routing[c].body = {} /\ log' = log /\ has' = has /\ lost' = lost
    BY <1>8, EmptyQueue DEF Relay
  <2>3. SyncDone.body = {}
    BY DEF SyncDone, Step2
  <2> HIDE DEF m
  <2>4. \A d \in Clients : routing'[d] = routing[d] \/ routing[d].body = {}
    BY <1>0, <2>1, <2>2 DEF TypeOK
  <2>5. Stored \subseteq Stored'
    BY <2>2, <2>4 DEF Stored
  <2>6. SeenIsStored'
    BY <1>0, <2>2, <2>5 DEF SeenIsStored, Stored
  <2>7. ~Refused(c, m) /\ CarriesData(m) => m.body \subseteq Stored'
    BY <1>0, <2>1 DEF TypeOK, Stored
  <2>8. QueuedIsStored'
    <3>1. CASE Refused(c, m)
      BY <1>0, <2>1, <2>2, <2>5, <3>1 DEF QueuedIsStored, CarriesData
    <3>2. CASE ~Refused(c, m)
      BY <1>0, <2>1, <2>2, <2>3, <2>5, <2>7, <3>2 DEF QueuedIsStored, CarriesData
    <3> QED BY <3>1, <3>2
  <2> QED BY <2>6, <2>8 DEF OnRecord
<1>9. ASSUME Persist(c)  PROVE OnRecord'
  <2>1. \A d \in Clients : d # c => routing'[d] = routing[d]
    BY <1>0, <1>9 DEF TypeOK, Persist
  <2>2. Stored \subseteq Stored'
    BY <1>9, <2>1 DEF Stored, Persist
  <2> QED BY <1>9, <2>2, NothingForgotten DEF Persist, client, counts
<1>10. ASSUME PersistFails(c)  PROVE OnRecord'
  <2>1. \A d \in Clients : d # c => routing'[d] = routing[d]
    BY <1>0, <1>10 DEF TypeOK, PersistFails
  <2>2. Stored \subseteq Stored'
    BY <1>10, <2>1 DEF Stored, PersistFails
  <2> QED BY <1>10, <2>2, NothingForgotten DEF PersistFails, client
<1>11. ASSUME RemovePeer(c)  PROVE OnRecord'
  <2>1. \A d \in Clients : Items(out'[d]) \subseteq Items(out[d])
    BY <1>0, <1>11, EmptyQueue DEF TypeOK, RemovePeer
  <2> QED BY <1>11, <2>1, StoredSame, NothingForgotten DEF RemovePeer, client, counts
<1>12. ASSUME DropRoom(c)  PROVE OnRecord'
  BY <1>12, StoredSame, NothingForgotten DEF DropRoom, client, counts
<1> QED BY <1>1, <1>2, <1>3, <1>4, <1>5, <1>6, <1>7, <1>8, <1>9, <1>10, <1>11, <1>12
-----------------------------------------------------------------------------
(* The rooms half: removePeer decides to drop a room after it has left it, *)
(* under another mutex, but whoever is still in the hub's room keeps it    *)
(* or drops it.                                                            *)
Rooms == RoomsKnown /\ RoomIsHeld

(* Steps that move no handler and change no room.                          *)
LEMMA RoomsSame ==
    ASSUME IInv, UNCHANGED <<hubRoom, members, pc, room>>
    PROVE  Rooms'
  BY DEF IInv, Rooms, RoomsKnown, RoomIsHeld

(* No operation loses track of a room somebody is in.                      *)
LEMMA RoomStep ==
    ASSUME IInv, NEW c \in Clients
    PROVE  /\ Open(c) \/ Edit(c) \/ Receive(c) \/ Close(c) => Rooms'
           /\ AddPeer(c) \/ Replay(c) \/ ReplayFails(c) => Rooms'
           /\ Relay(c) \/ Persist(c) \/ PersistFails(c) => Rooms'
           /\ RemovePeer(c) \/ DropRoom(c) => Rooms'
<1>0. TypeOK /\ RoomsKnown /\ RoomIsHeld
  BY DEF IInv
<1>1. ASSUME Open(c)  PROVE Rooms'
  <2>1. pc' = [pc EXCEPT ![c] = "found"] /\ room' = [room EXCEPT ![c] = hubRoom'] /\ pc[c] = "away"
    BY <1>1 DEF Open, Goto
  <2>2. /\ DOMAIN members \subseteq DOMAIN members'
        /\ \A r \in DOMAIN members' :
              IF r \in DOMAIN members THEN members'[r] = members[r] ELSE members'[r] = {}
        /\ hubRoom' \in DOMAIN members'
    <3>1. CASE hubRoom = 0
      <4>1. members' = Append(members, {}) /\ hubRoom' = Len(members')
        BY <1>1, <3>1 DEF Open
      <4>2. members \in Seq(SUBSET Clients) /\ {} \in SUBSET Clients
        BY <1>0 DEF TypeOK
      <4> QED BY <4>1, <4>2, AppendProperties, LenProperties
    <3>2. CASE hubRoom # 0
      <4>1. hubRoom \in 1..Len(members) /\ DOMAIN members = 1..Len(members)
        BY <1>0, <3>2, LenProperties DEF TypeOK
      <4> QED BY <1>1, <3>2, <4>1 DEF Open
    <3> QED BY <3>1, <3>2
  <2>3. \A d \in Clients : d # c => pc'[d] = pc[d] /\ room'[d] = room[d]
    BY <1>0, <2>1 DEF TypeOK
  <2>4. pc'[c] = "found" /\ room'[c] = hubRoom'
    BY <1>0, <2>1 DEF TypeOK
  <2>5. \A r \in DOMAIN members : c \notin members[r]
    BY <1>0, <2>1 DEF RoomsKnown
  <2>6. \A r \in DOMAIN members : members[r] \subseteq Clients
    BY <1>0 DEF TypeOK
  <2>7. RoomsKnown'
    <3>1. \A d \in Clients : pc'[d] # "away" => room'[d] \in DOMAIN members'
      BY <1>0, <2>2, <2>3, <2>4 DEF RoomsKnown
    <3>2. ASSUME NEW r \in DOMAIN members', NEW d \in members'[r]
          PROVE  room'[d] = r /\ pc'[d] \in {"joined", "live"}
      BY <1>0, <2>2, <2>3, <2>5, <2>6, <3>2 DEF RoomsKnown
    <3> QED BY <3>1, <3>2 DEF RoomsKnown
  <2>8. RoomIsHeld'
    BY <2>4 DEF RoomIsHeld
  <2> QED BY <2>7, <2>8 DEF Rooms
<1>2. ASSUME Edit(c)  PROVE Rooms'
  BY <1>2, RoomsSame DEF Edit, conn
<1>3. ASSUME Receive(c)  PROVE Rooms'
  BY <1>3, RoomsSame DEF Receive
<1>4. ASSUME Close(c)  PROVE Rooms'
  BY <1>4, RoomsSame DEF Close, conn
<1>5. ASSUME AddPeer(c)  PROVE Rooms'
  <2>1. pc' = [pc EXCEPT ![c] = "joined"] /\ pc[c] = "found" /\ UNCHANGED <<hubRoom, room>>
        /\ members' = [members EXCEPT ![room[c]] = members[room[c]] \cup {c}]
    BY <1>5 DEF AddPeer, Goto
  <2>2. \A d \in Clients : pc'[d] = IF d = c THEN "joined" ELSE pc[d]
    BY <1>0, <2>1 DEF TypeOK
  <2>3. DOMAIN members' = DOMAIN members /\ members'[room[c]] = members[room[c]] \cup {c}
        /\ \A r \in DOMAIN members : r # room[c] => members'[r] = members[r]
    BY <1>0, <2>1 DEF RoomsKnown
  <2>4. \A r \in DOMAIN members : members[r] \subseteq Clients
    BY <1>0 DEF TypeOK
  <2>5. RoomsKnown'
    <3>1. \A d \in Clients : pc'[d] # "away" => room'[d] \in DOMAIN members'
      BY <1>0, <2>1, <2>2, <2>3 DEF RoomsKnown
    <3>2. ASSUME NEW r \in DOMAIN members', NEW d \in members'[r]
          PROVE  room'[d] = r /\ pc'[d] \in {"joined", "live"}
      BY <1>0, <2>1, <2>2, <2>3, <2>4, <3>2 DEF RoomsKnown
    <3> QED BY <3>1, <3>2 DEF RoomsKnown
  <2>6. RoomIsHeld'
    BY <1>0, <2>1, <2>2 DEF RoomIsHeld
  <2> QED BY <2>5, <2>6 DEF Rooms
<1>6. ASSUME Replay(c)  PROVE Rooms'
  <2>1. pc' = [pc EXCEPT ![c] = "live"] /\ pc[c] = "joined" /\ UNCHANGED <<hubRoom, room, members>>
    BY <1>6 DEF Replay, Goto
  <2>2. \A d \in Clients : pc'[d] = IF d = c THEN "live" ELSE pc[d]
    BY <1>0, <2>1 DEF TypeOK
  <2>3. \A r \in DOMAIN members : members[r] \subseteq Clients
    BY <1>0 DEF TypeOK
  <2> QED BY <1>0, <2>1, <2>2, <2>3 DEF Rooms, RoomsKnown, RoomIsHeld
<1>7. ASSUME ReplayFails(c)  PROVE Rooms'
  BY <1>7, RoomsSame DEF ReplayFails, conn
<1>8. ASSUME Relay(c)  PROVE Rooms'
  BY <1>8, RoomsSame DEF Relay
<1>9. ASSUME Persist(c)  PROVE Rooms'
  BY <1>9, RoomsSame DEF Persist
<1>10. ASSUME PersistFails(c)  PROVE Rooms'
  BY <1>10, RoomsSame DEF PersistFails
<1>11. ASSUME RemovePeer(c)  PROVE Rooms'
  <2> DEFINE left == members[room[c]] \ {c}
  <2>1. /\ members' = [members EXCEPT ![room[c]] = left]
        /\ pc[c] \in {"joined", "live"} /\ UNCHANGED <<hubRoom, room>>
        /\ pc' = [pc EXCEPT ![c] = IF members'[room[c]] = {} THEN "emptied" ELSE "away"]
    BY <1>11 DEF RemovePeer, Goto
  <2>2. room[c] \in DOMAIN members
    BY <1>0, <2>1 DEF RoomsKnown
  <2> HIDE DEF left
  <2>3. DOMAIN members' = DOMAIN members /\ members'[room[c]] = left
        /\ \A r \in DOMAIN members : r # room[c] => members'[r] = members[r]
    BY <2>1, <2>2
  <2>4. \A d \in Clients : pc'[d] = IF d = c THEN (IF left = {} THEN "emptied" ELSE "away")
                                             ELSE pc[d]
    BY <1>0, <2>1, <2>3 DEF TypeOK
  <2>5. \A d \in left : d \in Clients /\ d # c /\ room[d] = room[c] /\ pc[d] \in {"joined", "live"}
    BY <1>0, <2>2 DEF TypeOK, RoomsKnown, left
  <2>6. RoomsKnown'
    <3>1. \A d \in Clients : pc'[d] # "away" => room'[d] \in DOMAIN members'
      BY <1>0, <2>1, <2>2, <2>3, <2>4 DEF RoomsKnown
    <3>2. ASSUME NEW r \in DOMAIN members', NEW d \in members'[r]
          PROVE  room'[d] = r /\ pc'[d] \in {"joined", "live"}
      <4>1. CASE r = room[c]
        BY <2>1, <2>3, <2>4, <2>5, <3>2, <4>1
      <4>2. CASE r # room[c]
        <5>1. d \in members[r] /\ r \in DOMAIN members
          BY <2>3, <3>2, <4>2
        <5>2. d \in Clients /\ room[d] = r /\ pc[d] \in {"joined", "live"}
          BY <1>0, <5>1 DEF TypeOK, RoomsKnown
        <5> QED BY <2>1, <2>4, <4>2, <5>2
      <4> QED BY <4>1, <4>2
    <3> QED BY <3>1, <3>2 DEF RoomsKnown
  <2>7. RoomIsHeld'
    <3> SUFFICES ASSUME hubRoom' # 0
                 PROVE  \E d \in Clients : pc'[d] # "away" /\ room'[d] = hubRoom'
      BY DEF RoomIsHeld
    <3>1. PICK d \in Clients : pc[d] # "away" /\ room[d] = hubRoom
      BY <1>0, <2>1 DEF RoomIsHeld
    <3>2. CASE d # c
      BY <2>1, <2>4, <3>1, <3>2
    <3>3. CASE d = c /\ left = {}
      BY <2>1, <2>4, <3>1, <3>3
    <3>4. CASE d = c /\ left # {}
      BY <2>1, <2>4, <2>5, <3>1, <3>4
    <3> QED BY <3>2, <3>3, <3>4
  <2> QED BY <2>6, <2>7 DEF Rooms
<1>12. ASSUME DropRoom(c)  PROVE Rooms'
  <2>1. /\ pc[c] = "emptied" /\ UNCHANGED <<members, room>>
        /\ hubRoom' = IF hubRoom = room[c] THEN 0 ELSE hubRoom
        /\ pc' = [pc EXCEPT ![c] = "away"]
    BY <1>12 DEF DropRoom, Goto
  <2>2. \A d \in Clients : pc'[d] = IF d = c THEN "away" ELSE pc[d]
    BY <1>0, <2>1 DEF TypeOK
  <2>3. \A r \in DOMAIN members : members[r] \subseteq Clients /\ c \notin members[r]
    <3>1. \A r \in DOMAIN members : members[r] \subseteq Clients
      BY <1>0 DEF TypeOK
    <3>2. \A r \in DOMAIN members : c \notin members[r]
      BY <1>0, <2>1 DEF RoomsKnown
    <3> QED BY <3>1, <3>2
  <2>4. RoomsKnown'
    BY <1>0, <2>1, <2>2, <2>3 DEF RoomsKnown
  <2>5. RoomIsHeld'
    BY <1>0, <2>1, <2>2 DEF RoomIsHeld
  <2> QED BY <2>4, <2>5 DEF Rooms
<1> QED BY <1>1, <1>2, <1>3, <1>4, <1>5, <1>6, <1>7, <1>8, <1>9, <1>10, <1>11, <1>12

-----------------------------------------------------------------------------
(* Nobody has opened the document: no queue, no log, no room.              *)
LEMMA Starts == Init => IInv
<1> SUFFICES ASSUME Init  PROVE IInv
  OBVIOUS
<1> USE DocsAssumption, EmptyQueue
<1>1. TypeOK
  <2>1. log \subseteq Update /\ members \in Seq(SUBSET Clients) /\ Len(members) = 0
    BY DEF Init
  <2>2. hubRoom \in 0..Len(members) /\ room \in [Clients -> 0..Len(members)]
    BY <2>1 DEF Init
  <2>3. \A c \in Clients : Len(out[c]) <= QueueCap
    BY DEF Init
  <2>4. /\ out \in [Clients -> Seq(Message)] /\ up \in [Clients -> Seq(Message)]
        /\ routing \in [Clients -> Message \cup {NoMessage}]
    BY DEF Init
  <2>5. pc \in [Clients -> {"away", "found", "joined", "live", "emptied"}]
        /\ has \in [Clients -> SUBSET Update] /\ open \in [Clients -> BOOLEAN]
    BY DEF Init
  <2>6. edits \in 0..MaxEdits /\ opens \in 0..MaxOpens /\ failures \in 0..MaxFailures
    BY DEF Init
  <2> QED BY <2>1, <2>2, <2>3, <2>4, <2>5, <2>6 DEF Init, TypeOK
<1>2. SentIsOwn /\ RelayedIsWriters /\ ViewersReadOnly
  BY DEF Init, SentIsOwn, RelayedIsWriters, ViewersReadOnly
<1>3. QueuedIsStored /\ SeenIsStored
  BY DEF Init, QueuedIsStored, SeenIsStored
<1>4. RoomsKnown /\ RoomIsHeld
  BY DEF Init, RoomsKnown, RoomIsHeld
<1> QED BY <1>1, <1>2, <1>3, <1>4 DEF IInv

(* Every step of the hub, the clients and the database keeps the invariant.*)
LEMMA Keeps == IInv /\ [Next]_vars => IInv'
<1> SUFFICES ASSUME IInv, [Next]_vars  PROVE IInv'
  OBVIOUS
<1>1. CASE Next
  <2>1. PICK c \in Clients :
            \/ Open(c) \/ Edit(c) \/ Receive(c) \/ Close(c)
            \/ AddPeer(c) \/ Replay(c) \/ ReplayFails(c)
            \/ Relay(c) \/ Persist(c) \/ PersistFails(c)
            \/ RemovePeer(c) \/ DropRoom(c)
    BY <1>1 DEF Next
  <2>2. TypeOK'
    BY <2>1, TypeStep
  <2>3. ByWriters'
    BY <2>1, ReadOnlyStep
  <2>4. OnRecord'
    BY <2>1, StoredStep
  <2>5. Rooms'
    BY <2>1, RoomStep
  <2> QED BY <2>2, <2>3, <2>4, <2>5 DEF IInv, ByWriters, OnRecord, Rooms
<1>2. CASE UNCHANGED vars
  <2> USE <1>2 DEF IInv, vars, conn, client, counts
  <2>1. TypeOK'
    BY DEF TypeOK
  <2>2. SentIsOwn' /\ RelayedIsWriters' /\ ViewersReadOnly'
    BY DEF SentIsOwn, RelayedIsWriters, ViewersReadOnly, CarriesData
  <2>3. QueuedIsStored' /\ SeenIsStored'
    BY DEF QueuedIsStored, SeenIsStored, Stored, CarriesData
  <2>4. RoomsKnown' /\ RoomIsHeld'
    BY DEF RoomsKnown, RoomIsHeld
  <2> QED BY <2>1, <2>2, <2>3, <2>4
<1> QED BY <1>1, <1>2

(* The invariant holds in every state the relay reaches.                   *)
THEOREM DocsInvariance == Spec => []IInv
<1> QED BY Starts, Keeps, PTL DEF Spec

(* The relay's variables keep their types, and no peer's queue grows past  *)
(* its capacity whatever is relayed to it.                                 *)
THEOREM DocsTypeCorrect == Spec => []TypeOK
<1>1. IInv => TypeOK
  BY DEF IInv
<1> QED BY <1>1, DocsInvariance, PTL

(* What a viewer types reaches neither the stored log nor another client's *)
(* document: ServeFunc drops updates and syncStep2s of who cannot write.   *)
THEOREM ViewersStayReadOnly == Spec => []ViewersReadOnly
<1>1. IInv => ViewersReadOnly
  BY DEF IInv
<1> QED BY <1>1, DocsInvariance, PTL

(* Whatever a client was shown of the others' edits is in the stored log,  *)
(* or its reader is about to append it: route's order, relay then persist, *)
(* loses an edit only if AppendUpdate failed for the message it was in.    *)
THEOREM SeenStaysStored == Spec => []SeenIsStored
<1>1. IInv => SeenIsStored
  BY DEF IInv
<1> QED BY <1>1, DocsInvariance, PTL

(* Once every handler has returned the hub keeps no room, although the     *)
(* last one out finds the room empty under room.mu and drops it under      *)
(* Hub.mu later, when someone else may have joined.                        *)
THEOREM RoomsAreDropped == Spec => []NoRoomLeaks
<1>1. IInv => NoRoomLeaks
  BY DEF IInv, RoomIsHeld, NoRoomLeaks
<1> QED BY <1>1, DocsInvariance, PTL
-----------------------------------------------------------------------------
(* Convergence, as long as nobody left, failed or overflowed.              *)

(* An update is stored, shown, or in a message somewhere.                  *)
Around(u) ==
    \/ u \in log
    \/ \E c \in Clients :
          \/ u \in has[c] \cup routing[c].body
          \/ \E m \in Items(up[c]) \cup Items(out[c]) : u \in m.body

(* Whoever typed an update has it, wherever else it is.                    *)
AuthorsHave == \A u \in Update : Around(u) => u \in has[u.by]

Opened == {c \in Clients : open[c]}

(* Every open socket has been counted.                                     *)
OpensCounted == IsFiniteSet(Opened) /\ Cardinality(Opened) <= opens

(* No socket has closed yet, nothing has failed and no queue overflowed.   *)
Undisturbed == failures = 0 /\ ~dropped /\ opens = Cardinality(Opened)

Entering == {"found", "joined"}

(* Until somebody leaves there is one room, of those who have joined it,   *)
(* and who has not come has typed nothing.                                 *)
OneRoom ==
    /\ \A c \in Clients :
          IF open[c] THEN pc[c] \in Entering \cup {"live"} /\ room[c] = hubRoom /\ hubRoom # 0
                     ELSE pc[c] = "away" /\ has[c] = {}
    /\ \A c \in Clients : pc[c] \in {"joined", "live"} => c \in members[hubRoom]

(* A newcomer still has to ask the others, and asks for all they have.     *)
Asking(d) == Step1({}) \in Items(up[d])

NewcomersAsk == \A d \in Clients : pc[d] \in Entering => Asking(d)

Carried(queue, u) == \E m \in Items(queue) : CarriesData(m) /\ u \in m.body

(* What w typed has come to d, or is on its way there, or w has been or    *)
(* will be asked for it.                                                   *)
Comes(u, w, d) ==
    \/ u \in has[d]
    \/ Carried(out[d], u) \/ Carried(up[w], u)
    \/ Step1({}) \in Items(out[w])
    \/ Asking(d) /\ pc[w] = "live"

EditsCome ==
    \A w, d \in Clients : w \in Writers /\ open[w] /\ open[d] =>
        \A u \in has[w] : u.by = w => Comes(u, w, d)

(* Before its reader starts, all that a newcomer typed is on its way.      *)
FirstEdits ==
    \A w \in Clients : pc[w] \in Entering =>
        \A u \in has[w] : u.by = w => Carried(up[w], u)

Calm == OneRoom /\ NewcomersAsk /\ FirstEdits /\ EditsCome

Converging == ~OfflineEdits /\ Undisturbed => Calm

CInv == AuthorsHave /\ OpensCounted /\ Converging

-----------------------------------------------------------------------------
(* Nothing is lost of a queue but what is read.                            *)
LEMMA QueueKeeps ==
    ASSUME NEW q \in Seq(Message), NEW m \in Message
    PROVE  /\ Items(q) \subseteq Items(Append(q, m)) /\ m \in Items(Append(q, m))
           /\ q # <<>> => Items(q) \subseteq Items(Tail(q)) \cup {Head(q)}
<1>1. Items(q) \subseteq Items(Append(q, m))
  <2> SUFFICES ASSUME NEW i \in DOMAIN q  PROVE Append(q, m)[i] = q[i] /\ i \in DOMAIN Append(q, m)
    BY DEF Items
  <2> QED OBVIOUS
<1>2. m \in Items(Append(q, m))
  <2>1. Append(q, m)[Len(q) + 1] = m /\ Len(q) + 1 \in DOMAIN Append(q, m)
    OBVIOUS
  <2> QED BY <2>1 DEF Items
<1>3. ASSUME q # <<>>, NEW i \in DOMAIN q  PROVE q[i] \in Items(Tail(q)) \cup {Head(q)}
  <2>1. CASE i = 1
    BY <2>1
  <2>2. CASE i # 1
    <3>1. i - 1 \in DOMAIN Tail(q) /\ Tail(q)[i - 1] = q[i]
      BY <2>2, <1>3
    <3> QED BY <3>1 DEF Items
  <2> QED BY <2>1, <2>2
<1> QED BY <1>1, <1>2, <1>3 DEF Items

(* While no queue overflows, what a reader relays reaches every peer.      *)
LEMMA Reaches ==
    ASSUME TypeOK, NEW c \in Clients, Relay(c), ~dropped', ~Refused(c, Head(up[c]))
    PROVE  \A d \in Clients :
              /\ Items(out[d]) \subseteq Items(out'[d])
              /\ d # c /\ d \in members[room[c]] => Head(up[c]) \in Items(out'[d])
  <1> DEFINE m == Head(up[c])
             to == [d \in Clients |->
                     IF d = c THEN IF m.kind = "step1" THEN <<SyncDone>> ELSE <<>>
                              ELSE IF d \in members[room[c]] THEN <<m>> ELSE <<>>]
  <1>1. m \in Message /\ SyncDone \in Message
    BY ReadQueue DEF Relay, TypeOK, SyncDone, Step2, Message
  <1>2. \A d \in Clients : out'[d] = out[d] \o to[d]
    BY DEF Relay
  <1> TAKE d \in Clients
  <1>3. out[d] \in Seq(Message)
    BY DEF TypeOK
  <1>4. to[d] = <<>> \/ to[d] = <<m>> \/ to[d] = <<SyncDone>>
    OBVIOUS
  <1>5. d # c /\ d \in members[room[c]] => to[d] = <<m>>
    OBVIOUS
  <1> HIDE DEF to, m
  <1>6. CASE to[d] = <<>>
    <2>1. out'[d] = out[d]
      <3>1. out[d] \o <<>> = out[d]
        BY <1>3
      <3> QED BY <1>2, <1>6, <3>1
    <2>2. <<m>> # <<>>
      OBVIOUS
    <2> QED BY <2>1, <2>2, <1>5, <1>6 DEF m
  <1>7. ASSUME NEW x \in Message, to[d] = <<x>>
        PROVE  Items(out[d]) \subseteq Items(out'[d]) /\ x \in Items(out'[d])
    <2>1. out'[d] = Append(out[d], x)
      <3>1. out[d] \o <<x>> = Append(out[d], x)
        BY <1>3
      <3> QED BY <1>2, <1>7, <3>1
    <2> QED BY <2>1, <1>3, QueueKeeps
  <1>8. CASE to[d] = <<m>>
    BY <1>1, <1>7, <1>8 DEF m
  <1>9. CASE to[d] = <<SyncDone>>
    <2>1. <<SyncDone>> = <<m>> => SyncDone = m
      OBVIOUS
    <2> QED BY <1>1, <1>5, <1>7, <1>9, <2>1 DEF m
  <1> QED BY <1>4, <1>6, <1>8, <1>9

-----------------------------------------------------------------------------
(* What every step of the relay is.                                        *)
Step(c) ==
    \/ Open(c) \/ Edit(c) \/ Receive(c) \/ Close(c)
    \/ AddPeer(c) \/ Replay(c) \/ ReplayFails(c)
    \/ Relay(c) \/ Persist(c) \/ PersistFails(c)
    \/ RemovePeer(c) \/ DropRoom(c)

(* No step takes anything from a document.                                 *)
LEMMA DocumentsGrow ==
    ASSUME TypeOK, NEW c \in Clients, Step(c), NEW d \in Clients
    PROVE  has[d] \subseteq has'[d]
<1> USE DEF TypeOK
<1>1. CASE Edit(c)
  BY <1>1 DEF Edit
<1>2. CASE Receive(c)
  BY <1>2 DEF Receive
<1>3. CASE Replay(c)
  BY <1>3 DEF Replay
<1>4. CASE ~Edit(c) /\ ~Receive(c) /\ ~Replay(c)
  BY <1>4 DEF Step, Open, Close, AddPeer, ReplayFails, Relay, Persist, PersistFails,
              RemovePeer, DropRoom, client
<1> QED BY <1>1, <1>2, <1>3, <1>4

(* An update that is anywhere after a step was so before it, or is new in  *)
(* the document of the one who typed it.                                   *)
LEMMA AroundBefore ==
    ASSUME TypeOK, NEW c \in Clients, Step(c), NEW u \in Update, Around(u)'
    PROVE  Around(u) \/ u \in has'[u.by]
<1>0. /\ up \in [Clients -> Seq(Message)]
      /\ \A d \in Clients : up[d] \in Seq(Message) /\ out[d] \in Seq(Message)
      /\ \A d \in Clients : has[d] \in SUBSET Update
      /\ \A m \in Message : m.body \in SUBSET Update
      /\ log \in SUBSET Update
  BY DEF TypeOK, Message
<1>1. CASE Open(c)
  <2>1. \A d \in Clients : up'[d] = up[d] \/ (d = c /\ up'[d] = <<Step1(has[c])>>)
    BY <1>0, <1>1 DEF Open
  <2>2. Items(<<Step1(has[c])>>) = {Step1(has[c])} /\ Step1(has[c]).body = has[c]
    BY DEF Items, Step1
  <2>3. log' = log /\ has' = has /\ out' = out /\ routing' = routing
    BY <1>1 DEF Open
  <2> QED BY <2>1, <2>2, <2>3 DEF Around
<1>2. CASE Edit(c)
  <2> DEFINE e == [by |-> c, n |-> edits + 1]
  <2>1. has' = [has EXCEPT ![c] = @ \cup {e}] /\ e.by = c
    BY <1>2 DEF Edit
  <2>2. \A d \in Clients : up'[d] = up[d] \/ (d = c /\ up'[d] = Append(up[c], Edited(e)))
    BY <1>0, <1>2 DEF Edit
  <2>3. \A d \in Clients : Items(up'[d]) \subseteq Items(up[d]) \cup {Edited(e)}
    <3>1. e \in Update
      BY <1>2, DocsAssumption DEF Edit, TypeOK, Update
    <3>2. Edited(e) \in Message
      BY <3>1, Messages
    <3>3. Items(Append(up[c], Edited(e))) \subseteq Items(up[c]) \cup {Edited(e)}
      BY <1>0, <3>2, SendMessage
    <3> HIDE DEF e
    <3> QED BY <2>2, <3>3
  <2>4. Edited(e).body = {e}
    BY DEF Edited
  <2>5. e \in has'[c]
    BY <2>1 DEF TypeOK
  <2>6. \A d \in Clients : has'[d] \subseteq has[d] \cup {e}
    BY <2>1 DEF TypeOK
  <2>7. log' = log /\ out' = out /\ routing' = routing
    BY <1>2 DEF Edit, conn
  <2> HIDE DEF e
  <2> QED BY <2>1, <2>3, <2>4, <2>5, <2>6, <2>7 DEF Around
<1>3. CASE Receive(c)
  <2> DEFINE m == Head(out[c])
  <2>1. m \in Message /\ m \in Items(out[c]) /\ Items(Tail(out[c])) \subseteq Items(out[c])
    BY <1>0, <1>3, ReadQueue DEF Receive
  <2>2. log' = log /\ routing' = routing /\ out' = [out EXCEPT ![c] = Tail(@)]
    BY <1>3 DEF Receive
  <2>3. \A d \in Clients : has'[d] \subseteq has[d] \cup m.body
    BY <1>3 DEF Receive, TypeOK
  <2>4. \A d \in Clients : \A x \in Items(up'[d]) : x \in Items(up[d]) \/ x.body \subseteq has[c]
    <3>1. Step2(has[c] \ m.body) \in Message /\ Step2(has[c] \ m.body).body \subseteq has[c]
      BY <1>0 DEF Step2, Message
    <3>2. \A d \in Clients :
             up'[d] = up[d] \/ (d = c /\ up'[d] = Append(up[c], Step2(has[c] \ m.body)))
      BY <1>0, <1>3 DEF Receive
    <3> DEFINE s == Step2(has[c] \ m.body)
    <3>3. Items(Append(up[c], s)) \subseteq Items(up[c]) \cup {s} /\ s.body \subseteq has[c]
      BY <1>0, <3>1, SendMessage
    <3> HIDE DEF s
    <3>4. \A d \in Clients : Items(up'[d]) \subseteq Items(up[d]) \cup {s}
      BY <3>2, <3>3 DEF s
    <3> QED BY <3>3, <3>4
  <2>5. \A d \in Clients : Items(out'[d]) \subseteq Items(out[d])
    BY <2>1, <2>2 DEF TypeOK
  <2> HIDE DEF m
  <2> QED BY <2>1, <2>2, <2>3, <2>4, <2>5 DEF Around
<1>4. CASE Close(c) \/ ReplayFails(c)
  <2>1. \A d \in Clients : up'[d] = up[d] \/ up'[d] = <<>>
    BY <1>4 DEF Close, ReplayFails, TypeOK
  <2>2. log' = log /\ has' = has /\ out' = out /\ routing' = routing
    BY <1>4 DEF Close, ReplayFails, conn
  <2> QED BY <2>1, <2>2, EmptyQueue DEF Around
<1>5. CASE Replay(c)
  BY <1>5 DEF Replay, TypeOK, Around
<1>6. CASE Relay(c)
  <2>1. log' = log /\ has' = has /\ up' = [up EXCEPT ![c] = Tail(@)]
    BY <1>6 DEF Relay
  <2>2. up[c] # <<>>
    BY <1>6 DEF Relay
  <2>3. \A d \in Clients : Items(up'[d]) \subseteq Items(up[d])
    BY <1>0, <2>1, <2>2, ReadQueue DEF TypeOK
  <2>4. \A d \in Clients : Items(out'[d]) \subseteq Items(out[d]) \cup {Head(up[c]), SyncDone}
    BY <1>6, RelayedTo
  <2>5. \A d \in Clients : routing'[d].body = routing[d].body \/ routing'[d].body = Head(up[c]).body
    BY <1>6, RelayedTo DEF TypeOK
  <2>6. Head(up[c]) \in Items(up[c]) /\ SyncDone.body = {}
    BY <1>0, <2>2, ReadQueue DEF SyncDone, Step2
  <2> QED BY <2>1, <2>3, <2>4, <2>5, <2>6 DEF Around
<1>7. CASE Persist(c) \/ PersistFails(c)
  <2>1. \A d \in Clients : routing'[d].body = routing[d].body \/ routing'[d].body = {}
    BY <1>7, EmptyQueue DEF Persist, PersistFails, TypeOK
  <2>2. log' \subseteq log \cup routing[c].body /\ has' = has /\ up' = up /\ out' = out
    BY <1>7 DEF Persist, PersistFails, client
  <2> QED BY <2>1, <2>2 DEF Around
<1>8. CASE AddPeer(c) \/ DropRoom(c)
  BY <1>8 DEF AddPeer, DropRoom, client, Around
<1>9. CASE RemovePeer(c)
  <2>1. \A d \in Clients : out'[d] = out[d] \/ out'[d] = <<>>
    BY <1>9 DEF RemovePeer, TypeOK
  <2> QED BY <1>9, <2>1, EmptyQueue DEF RemovePeer, client, Around
<1> QED BY <1>1, <1>2, <1>3, <1>4, <1>5, <1>6, <1>7, <1>8, <1>9 DEF Step

(* Whoever typed an update keeps it.                                       *)
LEMMA AuthorsStep ==
    ASSUME TypeOK, NEW c \in Clients, Step(c), AuthorsHave
    PROVE  AuthorsHave'
<1> SUFFICES ASSUME NEW u \in Update, Around(u)'  PROVE u \in has'[u.by]
  BY DEF AuthorsHave
<1>1. u.by \in Clients
  BY DEF Update
<1> QED BY <1>1, AroundBefore, DocumentsGrow DEF AuthorsHave


-----------------------------------------------------------------------------
(* Opening a socket is counted, and a socket that closed is missed for     *)
(* good, so that an undisturbed state has only undisturbed ones before it. *)
LEMMA OpensStep ==
    ASSUME TypeOK, OpensCounted, NEW c \in Clients, Step(c)
    PROVE  /\ OpensCounted'
           /\ Undisturbed' => Undisturbed /\ ~Close(c) /\ ~ReplayFails(c) /\ ~PersistFails(c)
<1>0. opens \in Nat /\ failures \in Nat /\ IsFiniteSet(Opened) /\ Cardinality(Opened) \in Nat
  BY DocsAssumption, FS_CardinalityType DEF TypeOK, OpensCounted
<1>1. CASE Open(c)
  <2>1. Opened' = Opened \cup {c} /\ c \notin Opened
    BY <1>1 DEF Open, Opened, TypeOK
  <2>2. IsFiniteSet(Opened') /\ Cardinality(Opened') = Cardinality(Opened) + 1
    BY <1>0, <2>1, FS_AddElement
  <2>3. opens' = opens + 1 /\ failures' = failures /\ dropped' = dropped
    BY <1>1 DEF Open
  <2>4. ~Close(c) /\ ~ReplayFails(c) /\ ~PersistFails(c)
    BY <2>3, <1>0 DEF Close, ReplayFails, PersistFails, counts
  <2> QED BY <1>0, <2>2, <2>3, <2>4 DEF OpensCounted, Undisturbed
<1>2. CASE Close(c) \/ ReplayFails(c)
  <2>1. Opened' = Opened \ {c} /\ c \in Opened
    BY <1>2 DEF Close, ReplayFails, Opened, TypeOK
  <2>2. IsFiniteSet(Opened') /\ Cardinality(Opened') = Cardinality(Opened) - 1
    BY <1>0, <2>1, FS_RemoveElement
  <2>3. opens' = opens
    BY <1>2 DEF Close, ReplayFails, counts
  <2>4. Cardinality(Opened') < opens'
    BY <1>0, <2>2, <2>3 DEF OpensCounted
  <2>5. Cardinality(Opened') # opens'
    BY <1>0, <2>2, <2>3, <2>4
  <2> QED BY <1>0, <2>2, <2>3, <2>4, <2>5 DEF OpensCounted, Undisturbed
<1>3. CASE ~Open(c) /\ ~Close(c) /\ ~ReplayFails(c)
  <2>1. open' = open /\ opens' = opens
    BY <1>3 DEF Step, Edit, Receive, AddPeer, Replay, Relay, Persist, PersistFails, RemovePeer,
                DropRoom, client, counts
  <2>2. Opened' = Opened
    BY <2>1 DEF Opened
  <2>3. failures' = failures \/ (PersistFails(c) /\ failures' = failures + 1)
    BY <1>3 DEF Step, Edit, Receive, AddPeer, Replay, Relay, Persist, PersistFails, RemovePeer,
                DropRoom, counts
  <2>4. dropped => dropped'
    BY <1>3 DEF Step, Edit, Receive, AddPeer, Replay, Relay, Persist, PersistFails, RemovePeer,
                DropRoom
  <2>5. PersistFails(c) => failures' # 0
    BY <1>0 DEF PersistFails
  <2> QED BY <1>0, <1>3, <2>1, <2>2, <2>3, <2>4, <2>5 DEF OpensCounted, Undisturbed
<1> QED BY <1>1, <1>2, <1>3

(* As long as sockets stay open nobody leaves the room.                    *)
LEMMA NobodyLeaves ==
    ASSUME OneRoom, NEW c \in Clients
    PROVE  ~RemovePeer(c) /\ ~DropRoom(c)
  BY DEF OneRoom, RemovePeer, DropRoom, Entering

(* There stays one room.                                                   *)
LEMMA OneRoomStep ==
    ASSUME IInv, OneRoom, ~OfflineEdits, NEW c \in Clients,
           \/ Open(c) \/ Edit(c) \/ Receive(c)
           \/ AddPeer(c) \/ Replay(c) \/ Relay(c) \/ Persist(c)
    PROVE  OneRoom'
<1> USE DEF Entering
<1>0. TypeOK /\ RoomsKnown
  BY DEF IInv
<1>1. CASE Open(c)
  <2>1. /\ pc' = [pc EXCEPT ![c] = "found"] /\ open' = [open EXCEPT ![c] = TRUE]
        /\ room' = [room EXCEPT ![c] = hubRoom'] /\ has' = has
        /\ pc \in [Clients -> {"away", "found", "joined", "live", "emptied"}]
        /\ open \in [Clients -> BOOLEAN] /\ room \in [Clients -> 0..Len(members)]
    BY <1>0, <1>1 DEF Open, Goto, TypeOK
  <2>2. CASE hubRoom = 0
    <3>1. \A d \in Clients : ~open[d] /\ pc[d] = "away" /\ has[d] = {}
      BY <2>2 DEF OneRoom
    <3>2. hubRoom' # 0
      BY <1>0, <1>1, <2>2 DEF Open, TypeOK
    <3> QED BY <2>1, <3>1, <3>2 DEF OneRoom
  <2>3. CASE hubRoom # 0
    <3>1. hubRoom' = hubRoom /\ members' = members
      BY <1>1, <2>3 DEF Open
    <3> QED BY <2>1, <2>3, <3>1 DEF OneRoom
  <2> QED BY <2>2, <2>3
<1>2. CASE Edit(c)
  BY <1>0, <1>2 DEF Edit, OneRoom, TypeOK, conn
<1>3. CASE Receive(c)
  BY <1>0, <1>3 DEF Receive, OneRoom, TypeOK
<1>4. CASE AddPeer(c)
  <2>1. open[c] /\ room[c] = hubRoom /\ hubRoom # 0 /\ hubRoom \in DOMAIN members
    BY <1>0, <1>4 DEF AddPeer, OneRoom, RoomsKnown
  <2>2. members'[hubRoom] = members[hubRoom] \cup {c}
    BY <1>0, <1>4, <2>1 DEF AddPeer, TypeOK
  <2>3. pc' = [pc EXCEPT ![c] = "joined"] /\ hubRoom' = hubRoom /\ room' = room
        /\ open' = open /\ has' = has
    BY <1>4 DEF AddPeer, Goto, client
  <2> QED BY <1>0, <2>1, <2>2, <2>3 DEF OneRoom, TypeOK
<1>5. CASE Replay(c)
  BY <1>0, <1>5 DEF Replay, Goto, OneRoom, TypeOK
<1>6. CASE Relay(c) \/ Persist(c)
  BY <1>6 DEF Relay, Persist, OneRoom, client
<1> QED BY <1>1, <1>2, <1>3, <1>4, <1>5, <1>6

(* A newcomer's question, and what it typed, wait for its reader.          *)
LEMMA NewcomerStep ==
    ASSUME TypeOK, OneRoom, NewcomersAsk, FirstEdits, ~OfflineEdits, NEW c \in Clients,
           \/ Open(c) \/ Edit(c) \/ Receive(c)
           \/ AddPeer(c) \/ Replay(c) \/ Relay(c) \/ Persist(c)
    PROVE  NewcomersAsk' /\ FirstEdits'
<1> USE DEF Entering
<1>0. /\ up \in [Clients -> Seq(Message)] /\ has \in [Clients -> SUBSET Update]
      /\ pc \in [Clients -> {"away", "found", "joined", "live", "emptied"}]
  BY DEF TypeOK
<1>1. CASE Open(c)
  <2>1. /\ pc' = [pc EXCEPT ![c] = "found"] /\ has' = has
        /\ up' = [up EXCEPT ![c] = <<Step1(has[c])>>]
    BY <1>1 DEF Open, Goto
  <2>2. has[c] = {}
    BY <1>1 DEF Open, OneRoom
  <2>3. Step1({}) \in Items(<<Step1({})>>)
    BY DEF Items
  <2> QED BY <1>0, <2>1, <2>2, <2>3 DEF NewcomersAsk, FirstEdits, Asking
<1>2. CASE Edit(c)
  <2> DEFINE e == [by |-> c, n |-> edits + 1]
  <2>1. /\ pc' = pc /\ has' = [has EXCEPT ![c] = @ \cup {e}]
        /\ up' = [up EXCEPT ![c] = Append(@, Edited(e))]
    BY <1>2 DEF Edit, conn
  <2>2. Edited(e) \in Message /\ CarriesData(Edited(e)) /\ e \in Edited(e).body
    <3>1. e \in Update
      BY <1>2, DocsAssumption DEF Edit, TypeOK, Update
    <3> QED BY <3>1, Messages
  <2>3. Items(up[c]) \subseteq Items(Append(up[c], Edited(e)))
        /\ Edited(e) \in Items(Append(up[c], Edited(e)))
    BY <1>0, <2>2, QueueKeeps
  <2> HIDE DEF e
  <2>4. \A d \in Clients : Items(up[d]) \subseteq Items(up'[d])
    BY <1>0, <2>1, <2>3
  <2>5. Carried(up'[c], e)
    BY <1>0, <2>1, <2>2, <2>3 DEF Carried
  <2>6. NewcomersAsk'
    BY <2>1, <2>4 DEF NewcomersAsk, Asking
  <2>7. ASSUME NEW w \in Clients, pc'[w] \in Entering, NEW u \in has'[w], u.by = w
        PROVE  Carried(up'[w], u)
    <3>1. CASE u \in has[w]
      BY <2>1, <2>4, <2>7, <3>1 DEF FirstEdits, Carried
    <3>2. CASE u \notin has[w]
      <4>1. w = c /\ u = e
        BY <1>0, <2>1, <2>7, <3>2
      <4> QED BY <2>5, <4>1
    <3> QED BY <3>1, <3>2
  <2> QED BY <2>6, <2>7 DEF FirstEdits
<1>3. CASE Receive(c)
  <2>1. pc' = pc /\ pc[c] = "live"
    BY <1>3 DEF Receive
  <2>2. \A d \in Clients : d # c => has'[d] = has[d] /\ up'[d] = up[d]
    BY <1>0, <1>3 DEF Receive
  <2> QED BY <2>1, <2>2 DEF NewcomersAsk, FirstEdits, Asking
<1>4. CASE AddPeer(c)
  <2>1. pc[c] = "found" /\ pc' = [pc EXCEPT ![c] = "joined"] /\ up' = up /\ has' = has
    BY <1>4 DEF AddPeer, Goto, client
  <2>2. \A d \in Clients : pc'[d] \in Entering => pc[d] \in Entering
    BY <1>0, <2>1
  <2> QED BY <2>1, <2>2 DEF NewcomersAsk, FirstEdits, Asking
<1>5. CASE Replay(c)
  <2>1. /\ pc' = [pc EXCEPT ![c] = "live"] /\ up' = up
        /\ has' = [has EXCEPT ![c] = @ \cup log]
    BY <1>5 DEF Replay, Goto
  <2>2. \A d \in Clients : pc'[d] \in Entering => pc[d] \in Entering /\ has'[d] = has[d]
    BY <1>0, <2>1
  <2> QED BY <2>1, <2>2 DEF NewcomersAsk, FirstEdits, Asking
<1>6. CASE Relay(c)
  <2>1. pc' = pc /\ pc[c] = "live" /\ has' = has /\ up' = [up EXCEPT ![c] = Tail(@)]
    BY <1>6 DEF Relay
  <2>2. \A d \in Clients : d # c => up'[d] = up[d]
    BY <1>0, <2>1
  <2> QED BY <2>1, <2>2 DEF NewcomersAsk, FirstEdits, Asking
<1>7. CASE Persist(c)
  BY <1>7 DEF Persist, client, NewcomersAsk, FirstEdits, Asking
<1> QED BY <1>1, <1>2, <1>3, <1>4, <1>5, <1>6, <1>7


(* What was on its way to d still comes if nothing is taken away.          *)
LEMMA ComesStill ==
    ASSUME NEW u, NEW w \in Clients, NEW d \in Clients, Comes(u, w, d),
           has[d] \subseteq has'[d], Items(out[d]) \subseteq Items(out'[d]),
           Items(out[w]) \subseteq Items(out'[w]), Items(up[w]) \subseteq Items(up'[w]),
           Items(up[d]) \subseteq Items(up'[d]), pc[w] = "live" => pc'[w] = "live"
    PROVE  Comes(u, w, d)'
  BY DEF Comes, Carried, Asking

(* Only by typing does an author come to have more of its own.             *)
LEMMA OwnBefore ==
    ASSUME TypeOK, AuthorsHave, NEW c \in Clients, Step(c), ~Edit(c),
           NEW w \in Clients, NEW u \in has'[w], u.by = w
    PROVE  u \in has[w] /\ u \in Update
<1>0. /\ has \in [Clients -> SUBSET Update] /\ log \in SUBSET Update
      /\ out \in [Clients -> Seq(Message)] /\ \A m \in Message : m.body \in SUBSET Update
  BY DEF TypeOK, Message
<1>1. CASE Receive(c)
  <2>1. Head(out[c]) \in Message /\ Head(out[c]) \in Items(out[c])
    BY <1>0, <1>1, ReadQueue DEF Receive
  <2>2. u \in has[w] \/ u \in Head(out[c]).body
    BY <1>0, <1>1 DEF Receive
  <2>3. u \in Update /\ Around(u)
    BY <1>0, <2>1, <2>2 DEF Around
  <2> QED BY <2>3 DEF AuthorsHave
<1>2. CASE Replay(c)
  <2>1. u \in has[w] \/ u \in log
    BY <1>0, <1>2 DEF Replay
  <2>2. u \in Update /\ Around(u)
    BY <1>0, <2>1 DEF Around
  <2> QED BY <2>2 DEF AuthorsHave
<1>3. CASE ~Receive(c) /\ ~Replay(c)
  <2>1. has' = has
    BY <1>3 DEF Step, Open, Close, AddPeer, ReplayFails, Relay, Persist, PersistFails,
                RemovePeer, DropRoom, client
  <2> QED BY <1>0, <2>1
<1> QED BY <1>1, <1>2, <1>3

(* A newcomer has been sent nothing yet, and asks for everything.          *)
LEMMA OpenComes ==
    ASSUME TypeOK, AuthorsHave, Calm, NEW c \in Clients, Open(c)
    PROVE  EditsCome'
<1>0. /\ up \in [Clients -> Seq(Message)] /\ pc[c] = "away" /\ ~open[c] /\ has[c] = {}
      /\ up' = [up EXCEPT ![c] = <<Step1(has[c])>>] /\ has' = has /\ out' = out
      /\ pc' = [pc EXCEPT ![c] = "found"] /\ open' = [open EXCEPT ![c] = TRUE]
      /\ pc \in [Clients -> {"away", "found", "joined", "live", "emptied"}]
      /\ open \in [Clients -> BOOLEAN]
  BY DEF Open, Goto, TypeOK, Calm, OneRoom
<1> SUFFICES ASSUME NEW w \in Clients, NEW d \in Clients, w \in Writers, open'[w], open'[d],
                    NEW u \in has'[w], u.by = w
             PROVE  Comes(u, w, d)'
  BY DEF EditsCome
<1>1. w # c /\ u \in has[w] /\ open[w] /\ up'[w] = up[w] /\ pc'[w] = pc[w]
  BY <1>0
<1>2. CASE d = c
  <2>1. Step1({}) \in Items(up'[d])
    BY <1>0, <1>2 DEF Items
  <2>2. CASE pc[w] = "live"
    BY <1>1, <2>1, <2>2 DEF Comes, Asking
  <2>3. CASE pc[w] \in Entering
    BY <1>1, <2>3 DEF Calm, FirstEdits, Comes
  <2> QED BY <1>1, <2>2, <2>3 DEF Calm, OneRoom
<1>3. CASE d # c
  <2>1. Comes(u, w, d) /\ up'[d] = up[d]
    BY <1>0, <1>1, <1>3 DEF Calm, EditsCome
  <2> QED BY <1>0, <1>1, <2>1, ComesStill
<1> QED BY <1>2, <1>3

(* What is typed is sent.                                                  *)
LEMMA EditComes ==
    ASSUME TypeOK, AuthorsHave, Calm, ~OfflineEdits, NEW c \in Clients, Edit(c)
    PROVE  EditsCome'
<1> DEFINE e == [by |-> c, n |-> edits + 1]
<1>0. /\ up \in [Clients -> Seq(Message)] /\ has \in [Clients -> SUBSET Update]
      /\ up' = [up EXCEPT ![c] = Append(@, Edited(e))] /\ has' = [has EXCEPT ![c] = @ \cup {e}]
      /\ out' = out /\ pc' = pc /\ open' = open
  BY DEF Edit, conn, TypeOK
<1>1. Edited(e) \in Message /\ CarriesData(Edited(e)) /\ e \in Edited(e).body
  <2>1. e \in Update
    BY DocsAssumption DEF Edit, TypeOK, Update
  <2> QED BY <2>1, Messages
<1>2. Items(up[c]) \subseteq Items(Append(up[c], Edited(e)))
      /\ Edited(e) \in Items(Append(up[c], Edited(e)))
  BY <1>0, <1>1, QueueKeeps
<1> HIDE DEF e
<1>3. \A d \in Clients : Items(up[d]) \subseteq Items(up'[d]) /\ has[d] \subseteq has'[d]
  BY <1>0, <1>2
<1>4. Carried(up'[c], e)
  BY <1>0, <1>1, <1>2 DEF Carried
<1> SUFFICES ASSUME NEW w \in Clients, NEW d \in Clients, w \in Writers, open'[w], open'[d],
                    NEW u \in has'[w], u.by = w
             PROVE  Comes(u, w, d)'
  BY DEF EditsCome
<1>5. CASE u \in has[w]
  <2>1. Comes(u, w, d)
    BY <1>0, <1>5 DEF Calm, EditsCome
  <2> QED BY <1>0, <1>3, <2>1, ComesStill
<1>6. CASE u \notin has[w]
  <2>1. w = c /\ u = e
    BY <1>0, <1>6
  <2> QED BY <1>4, <2>1 DEF Comes
<1> QED BY <1>5, <1>6

(* What is received is shown, or answered with all that is there.          *)
LEMMA ReceiveComes ==
    ASSUME TypeOK, AuthorsHave, Calm, NEW c \in Clients, Receive(c)
    PROVE  EditsCome'
<1> DEFINE m == Head(out[c])
           s == Step2(has[c] \ m.body)
<1>0. /\ up \in [Clients -> Seq(Message)] /\ out \in [Clients -> Seq(Message)]
      /\ has \in [Clients -> SUBSET Update] /\ out[c] # <<>>
      /\ out' = [out EXCEPT ![c] = Tail(@)] /\ pc' = pc /\ open' = open
  BY DEF Receive, TypeOK
<1>1. m.kind = "step1" => up' = [up EXCEPT ![c] = Append(@, s)] /\ has' = has
  BY DEF Receive
<1>2. m.kind # "step1" => has' = [has EXCEPT ![c] = @ \cup m.body] /\ up' = up
  BY DEF Receive
<1>3. s \in Message /\ CarriesData(s) /\ s.body = has[c] \ m.body
  BY <1>0 DEF Step2, Message, CarriesData
<1>4. Items(up[c]) \subseteq Items(Append(up[c], s)) /\ s \in Items(Append(up[c], s))
  BY <1>0, <1>3, QueueKeeps
<1>5. m \in Message /\ Items(out[c]) \subseteq Items(Tail(out[c])) \cup {m}
  BY <1>0, ReadQueue, QueueKeeps
<1> HIDE DEF s, m
<1>6. \A d \in Clients : /\ Items(up[d]) \subseteq Items(up'[d]) /\ has[d] \subseteq has'[d]
                         /\ d # c => out'[d] = out[d]
                         /\ Items(out[d]) \subseteq Items(out'[d]) \cup {m}
  BY <1>0, <1>1, <1>2, <1>4, <1>5
<1> SUFFICES ASSUME NEW w \in Clients, NEW d \in Clients, w \in Writers, open'[w], open'[d],
                    NEW u \in has'[w], u.by = w
             PROVE  Comes(u, w, d)'
  BY DEF EditsCome
<1>7. u \in has[w]
  <2>1. edits' = edits /\ edits \in Nat
    BY DocsAssumption DEF Receive, counts, TypeOK
  <2>2. ~Edit(c)
    <3>1. edits + 1 # edits
      BY <2>1
    <3> QED BY <2>1, <3>1 DEF Edit
  <2>3. Step(c)
    BY DEF Step
  <2> QED BY <2>2, <2>3, OwnBefore
<1>8. Comes(u, w, d)
  BY <1>0, <1>7 DEF Calm, EditsCome
<1>9. CASE d = c /\ CarriesData(m) /\ u \in m.body
  BY <1>0, <1>2, <1>9 DEF CarriesData, Comes
<1>10. CASE w = c /\ m = Step1({})
  <2>1. u \in s.body /\ s \in Items(up'[w])
    BY <1>0, <1>1, <1>3, <1>4, <1>7, <1>10 DEF Step1
  <2> QED BY <1>3, <2>1 DEF Comes, Carried
<1>11. CASE ~(d = c /\ CarriesData(m) /\ u \in m.body) /\ ~(w = c /\ m = Step1({}))
  <2>1. Carried(out[d], u) => Carried(out'[d], u)
    BY <1>6, <1>11 DEF Carried
  <2>2. Step1({}) \in Items(out[w]) => Step1({}) \in Items(out'[w])
    BY <1>6, <1>11
  <2>3. Carried(up[w], u) => Carried(up'[w], u)
    BY <1>6 DEF Carried
  <2>4. Asking(d) => Asking(d)'
    BY <1>6 DEF Asking
  <2>5. u \in has[d] => u \in has'[d]
    BY <1>6
  <2> QED BY <1>0, <1>8, <2>1, <2>2, <2>3, <2>4, <2>5 DEF Comes
<1> QED BY <1>9, <1>10, <1>11

(* What is relayed reaches who is in the room, and who is not there yet    *)
(* still has to ask.                                                       *)
LEMMA RelayComes ==
    ASSUME TypeOK, AuthorsHave, Calm, NEW c \in Clients, Relay(c), ~dropped'
    PROVE  EditsCome'
<1> DEFINE m == Head(up[c])
<1>0. /\ up \in [Clients -> Seq(Message)] /\ up[c] # <<>> /\ up' = [up EXCEPT ![c] = Tail(@)]
      /\ pc' = pc /\ open' = open /\ has' = has /\ pc[c] = "live"
  BY DEF Relay, TypeOK
<1>1. m \in Message /\ Items(up[c]) \subseteq Items(Tail(up[c])) \cup {m}
  BY <1>0, ReadQueue, QueueKeeps
<1>2. \A d \in Clients : Items(out[d]) \subseteq Items(out'[d])
  BY Reaches DEF Relay
<1>3. ~Refused(c, m) => \A d \in members[room[c]] \cap Clients : d # c => m \in Items(out'[d])
  BY Reaches
<1> HIDE DEF m
<1>4. \A d \in Clients : /\ d # c => up'[d] = up[d]
                         /\ Items(up[d]) \subseteq Items(up'[d]) \cup {m}
  BY <1>0, <1>1
<1> SUFFICES ASSUME NEW w \in Clients, NEW d \in Clients, w \in Writers, open'[w], open'[d],
                    NEW u \in has'[w], u.by = w
             PROVE  Comes(u, w, d)'
  BY DEF EditsCome
<1>5. Comes(u, w, d) /\ open[d] /\ open[w] /\ u \in has[w]
  BY <1>0 DEF Calm, EditsCome
<1>6. CASE d = w
  BY <1>0, <1>5, <1>6 DEF Comes
<1>7. room[c] = hubRoom /\ \A x \in Clients : pc[x] \in {"joined", "live"} => x \in members[hubRoom]
  BY <1>0 DEF Calm, OneRoom
<1>8. CASE d # w /\ w = c /\ CarriesData(m) /\ u \in m.body
  <2>1. ~Refused(c, m)
    BY <1>8 DEF Refused
  <2>2. CASE pc[d] \in {"joined", "live"}
    <3>1. m \in Items(out'[d])
      BY <1>3, <1>7, <1>8, <2>1, <2>2
    <3> QED BY <1>8, <3>1 DEF Comes, Carried
  <2>3. CASE pc[d] = "found"
    <3>1. Asking(d) /\ up'[d] = up[d]
      BY <1>4, <1>8, <2>3 DEF Calm, NewcomersAsk, Entering
    <3> QED BY <1>0, <1>8, <3>1 DEF Comes, Asking
  <2> QED BY <1>5, <2>2, <2>3 DEF Calm, OneRoom, Entering
<1>9. CASE d # w /\ d = c /\ m = Step1({}) /\ pc[w] = "live"
  <2>1. ~Refused(c, m)
    BY <1>9 DEF Refused, CarriesData, Step1
  <2>2. m \in Items(out'[w])
    BY <1>3, <1>7, <1>9, <2>1
  <2> QED BY <1>9, <2>2 DEF Comes
<1>10. CASE /\ ~(w = c /\ CarriesData(m) /\ u \in m.body)
            /\ ~(d = c /\ m = Step1({}) /\ pc[w] = "live")
  <2>1. Carried(out[d], u) => Carried(out'[d], u)
    BY <1>2 DEF Carried
  <2>2. Step1({}) \in Items(out[w]) => Step1({}) \in Items(out'[w])
    BY <1>2
  <2>3. Carried(up[w], u) => Carried(up'[w], u)
    BY <1>4, <1>10 DEF Carried
  <2>4. Asking(d) /\ pc[w] = "live" => Asking(d)'
    BY <1>4, <1>10 DEF Asking
  <2> QED BY <1>0, <1>5, <2>1, <2>2, <2>3, <2>4 DEF Comes
<1> QED BY <1>6, <1>8, <1>9, <1>10

(* The others take nothing from any queue.                                 *)
LEMMA OthersCome ==
    ASSUME TypeOK, AuthorsHave, Calm, NEW c \in Clients, AddPeer(c) \/ Replay(c) \/ Persist(c)
    PROVE  EditsCome'
<1>0. /\ up' = up /\ out' = out /\ open' = open
      /\ \A d \in Clients : pc[d] = "live" => pc'[d] = "live"
  BY DEF AddPeer, Replay, Persist, Goto, client, TypeOK
<1>1. Step(c) /\ ~Edit(c)
  BY DEF Step, Edit, AddPeer, Replay, Persist, counts, TypeOK
<1> SUFFICES ASSUME NEW w \in Clients, NEW d \in Clients, w \in Writers, open'[w], open'[d],
                    NEW u \in has'[w], u.by = w
             PROVE  Comes(u, w, d)'
  BY DEF EditsCome
<1>2. u \in has[w] /\ has[d] \subseteq has'[d]
  BY <1>1, OwnBefore, DocumentsGrow
<1>3. Comes(u, w, d)
  BY <1>0, <1>2 DEF Calm, EditsCome
<1> QED BY <1>0, <1>2, <1>3, ComesStill

-----------------------------------------------------------------------------
(* Every step keeps the invariant of convergence.                          *)
LEMMA ConvergingStep ==
    ASSUME IInv, CInv, NEW c \in Clients, Step(c)
    PROVE  CInv'
<1>0. TypeOK /\ AuthorsHave /\ OpensCounted
  BY DEF IInv, CInv
<1>1. AuthorsHave' /\ OpensCounted'
  BY <1>0, AuthorsStep, OpensStep
<1>2. ASSUME ~OfflineEdits, Undisturbed'  PROVE Calm'
  <2>1. Undisturbed /\ ~Close(c) /\ ~ReplayFails(c) /\ ~PersistFails(c)
    BY <1>0, <1>2, OpensStep
  <2>2. Calm
    BY <1>2, <2>1 DEF CInv, Converging
  <2>3. \/ Open(c) \/ Edit(c) \/ Receive(c)
        \/ AddPeer(c) \/ Replay(c) \/ Relay(c) \/ Persist(c)
    BY <2>1, <2>2, NobodyLeaves DEF Step, Calm
  <2>4. OneRoom' /\ NewcomersAsk' /\ FirstEdits'
    BY <1>0, <1>2, <2>2, <2>3, OneRoomStep, NewcomerStep DEF Calm
  <2>5. ~dropped'
    BY <1>2 DEF Undisturbed
  <2>6. EditsCome'
    BY <1>0, <1>2, <2>2, <2>3, <2>5, OpenComes, EditComes, ReceiveComes, RelayComes, OthersCome
  <2> QED BY <2>4, <2>6 DEF Calm
<1> QED BY <1>1, <1>2 DEF CInv, Converging

(* What every opened document needs is on its way, until somebody leaves.  *)
THEOREM EditsAreUnderWay == Spec => []CInv
<1>1. Init => CInv
  <2> SUFFICES ASSUME Init  PROVE CInv
    OBVIOUS
  <2>1. Opened = {}
    BY DEF Init, Opened
  <2>2. OpensCounted
    BY <2>1, FS_EmptySet DEF Init, OpensCounted
  <2>3. AuthorsHave
    BY EmptyQueue DEF Init, AuthorsHave, Around
  <2>4. Calm
    BY DEF Init, Calm, OneRoom, NewcomersAsk, FirstEdits, EditsCome, Entering
  <2> QED BY <2>2, <2>3, <2>4 DEF CInv, Converging
<1>2. IInv /\ CInv /\ [Next]_vars => CInv'
  <2> SUFFICES ASSUME IInv, CInv, [Next]_vars  PROVE CInv'
    OBVIOUS
  <2>1. CASE Next
    BY <2>1, ConvergingStep DEF Next, Step
  <2>2. CASE UNCHANGED vars
    <3> USE <2>2 DEF vars, conn, client, counts
    <3>1. AuthorsHave'
      BY DEF CInv, AuthorsHave, Around
    <3>2. Opened' = Opened
      BY DEF Opened
    <3>3. OpensCounted' /\ (Undisturbed' => Undisturbed)
      BY <3>2 DEF CInv, OpensCounted, Undisturbed
    <3>4. Calm => Calm'
      BY DEF Calm, OneRoom, NewcomersAsk, FirstEdits, EditsCome, Comes, Carried, Asking
    <3> QED BY <3>1, <3>3, <3>4 DEF CInv, Converging
  <2> QED BY <2>1, <2>2
<1> QED BY <1>1, <1>2, DocsInvariance, PTL DEF Spec

(* However clients join, edit and answer each other, even between an       *)
(* edit's relay and its persistence, all who have the document open agree  *)
(* on what writers typed once nothing is under way: until somebody leaves, *)
(* fails, overflows a queue or types offline.                              *)
THEOREM JoinersAgree == Spec => []JoinersConverge
<1>1. IInv /\ CInv => JoinersConverge
  <2> SUFFICES ASSUME IInv, CInv, AtRest, ~OfflineEdits, failures = 0, ~dropped,
                      opens = Cardinality(Live),
                      NEW c \in Live, NEW d \in Live, NEW u \in has[c], u.by \in Writers
               PROVE  u \in has[d]
    BY DEF JoinersConverge
  <2>1. Live = Opened
    BY DEF AtRest, Live, Opened
  <2>2. Calm
    BY <2>1 DEF CInv, Converging, Undisturbed
  <2>3. c \in Clients /\ d \in Clients /\ open[d]
    BY DEF Live
  <2>4. u \in Update /\ u.by \in Clients
    BY <2>3, DocsAssumption DEF IInv, TypeOK
  <2>5. u \in has[u.by]
    BY <2>3, <2>4 DEF CInv, AuthorsHave, Around
  <2>6. open[u.by]
    BY <2>2, <2>4, <2>5 DEF Calm, OneRoom
  <2>7. Comes(u, u.by, d)
    BY <2>2, <2>3, <2>4, <2>5, <2>6 DEF Calm, EditsCome
  <2>8. out[d] = <<>> /\ out[u.by] = <<>> /\ up[d] = <<>> /\ up[u.by] = <<>>
    BY <2>3, <2>4, <2>6 DEF AtRest
  <2> QED BY <2>7, <2>8, EmptyQueue DEF Comes, Carried, Asking
<1> QED BY <1>1, EditsAreUnderWay, DocsInvariance, PTL
=============================================================================
