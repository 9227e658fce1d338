--------------------------- MODULE MeetCall_proofs ---------------------------
(***************************************************************************)
(* Proofs about MeetCall, for every set of tabs, every assignment of tabs  *)
(* to users, every queue capacity and every number of events.              *)
(***************************************************************************)
EXTENDS MeetPaths, TLAPS, SequenceTheorems

-----------------------------------------------------------------------------
(* What the operations on queues do to them.                               *)

LEMMA ReadQueue ==
    ASSUME NEW S, NEW s \in Seq(S), s # <<>>
    PROVE  /\ Head(s) \in S /\ Head(s) = s[1] /\ 1 \in DOMAIN s
           /\ Tail(s) \in Seq(S)
           /\ \A i \in DOMAIN Tail(s) : i + 1 \in DOMAIN s /\ Tail(s)[i] = s[i + 1]
           /\ \A i \in DOMAIN s : i = 1 \/ (i - 1 \in DOMAIN Tail(s) /\ Tail(s)[i - 1] = s[i])
  OBVIOUS

LEMMA AppendQueue ==
    ASSUME NEW S, NEW s \in Seq(S), NEW m \in S
    PROVE  /\ Append(s, m) \in Seq(S)
           /\ DOMAIN Append(s, m) = DOMAIN s \cup {Len(s) + 1}
           /\ \A i \in DOMAIN s : i < Len(s) + 1 /\ Append(s, m)[i] = s[i]
           /\ Append(s, m)[Len(s) + 1] = m
  OBVIOUS

(* What is left of a queue whose first n messages are written.             *)
LEMMA CutQueue ==
    ASSUME NEW S, NEW s \in Seq(S), NEW n \in 0..Len(s)
    PROVE  LET cut == SubSeq(s, n + 1, Len(s)) IN
           /\ cut \in Seq(S)
           /\ \A i \in DOMAIN cut : i + n \in DOMAIN s /\ cut[i] = s[i + n]
           /\ \A i \in DOMAIN s : i > n => i - n \in DOMAIN cut
  OBVIOUS

-----------------------------------------------------------------------------
(* Type correctness.                                                       *)

LEMMA TabsAndUsers ==
    /\ Owner \in [Tabs -> Users] /\ None \notin Tabs
    /\ \A t \in Tabs : Owner[t] \in Users
  BY MeetAssumption

LEMMA ListingType ==
    ASSUME NEW type \in {"presence", "roster_state"}, NEW tabs \in SUBSET Tabs
    PROVE  Listing(type, tabs) \in Lists
  BY TabsAndUsers DEF Listing, Lists, OwnersOf

LEMMA NoticeType ==
    ASSUME NEW type \in {"media_state", "join", "leave", "offer", "answer"},
           NEW u \in Users, NEW off \in BOOLEAN
    PROVE  Notice(type, u, off) \in News
  BY DEF Notice, News

LEMMA OthersAreTabs ==
    ASSUME TypeOK, NEW t \in Tabs, room[t] # None
    PROVE  Others(t) \subseteq Tabs
  BY DEF TypeOK, Others

LEMMA ConnTypes ==
    ASSUME TypeOK, NEW t \in Tabs, NEW polite \in BOOLEAN
    PROVE  Conn(t, polite) \in Conns /\ NoConn \in Conns
  BY DEF Conn, Conns, NoConn, TypeOK

LEMMA ConnChanges ==
    ASSUME NEW c \in Conns, c.on
    PROVE  /\ \A g \in {"new", "offered", "answered", "agreed"} : [c EXCEPT !.sig = g] \in Conns
           /\ \A u, off : [c EXCEPT !.muted = u \in off] \in Conns
<1>1. c \in [on : {TRUE}, polite : BOOLEAN, tracks : BOOLEAN,
              sig : {"new", "offered", "answered", "agreed"}, muted : BOOLEAN]
  <2>1. c # NoConn
    <3>1. NoConn.on = FALSE
      BY DEF NoConn
    <3> QED BY <3>1
  <2> QED BY <2>1 DEF Conns
<1>2. ASSUME NEW u, NEW off PROVE [c EXCEPT !.muted = u \in off] \in Conns
  <2>1. CASE u \in off
    <3>0. (u \in off) = TRUE
      BY <2>1
    <3>1. [c EXCEPT !.muted = u \in off] = [c EXCEPT !.muted = TRUE]
      BY <3>0
    <3>2. [c EXCEPT !.muted = TRUE] \in Conns
      BY <1>1 DEF Conns
    <3> QED BY <3>1, <3>2
  <2>2. CASE u \notin off
    <3>0. (u \in off) = FALSE
      BY <2>2
    <3>1. [c EXCEPT !.muted = u \in off] = [c EXCEPT !.muted = FALSE]
      BY <3>0
    <3>2. [c EXCEPT !.muted = FALSE] \in Conns
      BY <1>1 DEF Conns
    <3> QED BY <3>1, <3>2
  <2> QED BY <2>1, <2>2
<1>3. \A g \in {"new", "offered", "answered", "agreed"} : [c EXCEPT !.sig = g] \in Conns
  BY <1>1 DEF Conns
<1> QED BY <1>2, <1>3

LEMMA ConnUpdate ==
    ASSUME TypeOK, NEW t \in Tabs, NEW u \in Users, NEW c \in Conns
    PROVE  [pc EXCEPT ![t][u] = c] \in [Tabs -> [Users -> Conns]]
  <1>1. pc \in [Tabs -> [Users -> Conns]]
    BY DEF TypeOK
  <1>2. [pc[t] EXCEPT ![u] = c] \in [Users -> Conns]
    BY <1>1
  <1> QED BY <1>1, <1>2

LEMMA SendType ==
    ASSUME TypeOK, NEW t \in Tabs, NEW m \in Messages, NEW to \in SUBSET Tabs, Send(t, m, to)
    PROVE  outbox' \in [Tabs -> SUBSET (Tabs \X Messages)]
  <1>1. {<<p, m>> : p \in to} \in SUBSET (Tabs \X Messages)
    OBVIOUS
  <1> QED BY <1>1 DEF Send, TypeOK

LEMMA SendSignalType ==
    ASSUME TypeOK, NEW t \in Tabs, NEW m \in Signals, SendSignal(t, m)
    PROVE  up' \in [Tabs -> Seq(Signals)]
  <1>1. up[t] \in Seq(Signals)
    BY DEF TypeOK
  <1>2. Append(up[t], m) \in Seq(Signals)
    BY <1>1, AppendQueue
  <1> QED BY <1>2 DEF SendSignal, TypeOK

LEMMA InitType == Init => TypeOK
<1>1. ASSUME Init PROVE \A t \in Tabs : stage[t] = "none" <=> room[t] = None
  BY <1>1 DEF Init
<1> QED BY <1>1, MeetAssumption DEF Init, TypeOK, Stages, Conns

(* The steps of a handler keep the types.                                  *)
LEMMA HandlerType ==
    ASSUME TypeOK, NEW t \in Tabs, Handler(t)
    PROVE  TypeOK'
<1> USE TabsAndUsers
<1>1. CASE Enter(t)
  BY <1>1 DEF Enter, TypeOK, Stages, net, view, button
<1>2. CASE AddPeer(t)
  <2>1. room[t] \in Tabs
    BY <1>2 DEF AddPeer, TypeOK
  <2>2. peers' \in [Tabs -> [Users -> Tabs \cup {None}]]
    BY <1>2, <2>1 DEF AddPeer, TypeOK
  <2>3. elders' \in [Tabs -> SUBSET Tabs]
    BY <1>2 DEF AddPeer, TypeOK
  <2> QED BY <1>2, <2>2, <2>3 DEF AddPeer, TypeOK, Stages, net, view, button
<1>3. CASE SendPresence(t) \/ SendRosterState(t) \/ AnnounceJoin(t) \/ AnnounceLeave(t)
  <2>1. room[t] # None
    BY <1>3 DEF SendPresence, SendRosterState, AnnounceJoin, AnnounceLeave, TypeOK
  <2>2. Others(t) \in SUBSET Tabs
    BY <2>1, OthersAreTabs
  <2>3. /\ Listing("presence", Others(t)) \in Messages
        /\ Listing("roster_state", Others(t)) \in Messages
        /\ Notice("join", Owner[t], FALSE) \in Messages
        /\ Notice("leave", Owner[t], FALSE) \in Messages
    BY <2>2, ListingType, NoticeType DEF Messages
  <2>4. PICK m \in Messages, to \in SUBSET Tabs, g \in Stages \ {"none"} :
           /\ Send(t, m, to) /\ stage' = [stage EXCEPT ![t] = g]
           /\ UNCHANGED <<rooms, peers, room, muted, queue, lost, up, ws, view, button, elders, events>>
    <3>0. {t} \in SUBSET Tabs
      OBVIOUS
    <3>1. CASE SendPresence(t)
      <4>1. "greeted" \in Stages \ {"none"}
        BY DEF Stages
      <4> QED BY <3>0, <3>1, <4>1, <2>3 DEF SendPresence
    <3>2. CASE SendRosterState(t)
      <4>1. "listed" \in Stages \ {"none"}
        BY DEF Stages
      <4> QED BY <3>0, <3>2, <4>1, <2>3 DEF SendRosterState
    <3>3. CASE AnnounceJoin(t)
      <4>1. "serving" \in Stages \ {"none"}
        BY DEF Stages
      <4> QED BY <3>3, <4>1, <2>2, <2>3 DEF AnnounceJoin
    <3>4. CASE AnnounceLeave(t)
      <4>1. "ended" \in Stages \ {"none"}
        BY DEF Stages
      <4> QED BY <3>4, <4>1, <2>2, <2>3 DEF AnnounceLeave
    <3> QED BY <1>3, <3>1, <3>2, <3>3, <3>4
  <2>5. outbox' \in [Tabs -> SUBSET (Tabs \X Messages)]
    BY <2>4, SendType
  <2>6. /\ stage' \in [Tabs -> Stages]
        /\ \A s \in Tabs : stage'[s] = "none" <=> stage[s] = "none"
    <3>1. stage[t] # "none"
      BY <1>3 DEF SendPresence, SendRosterState, AnnounceJoin, AnnounceLeave
    <3>2. stage \in [Tabs -> Stages]
      BY DEF TypeOK
    <3> QED BY <2>4, <3>1, <3>2
  <2> QED BY <2>4, <2>5, <2>6 DEF TypeOK, view, button
<1>4. CASE Deliver(t)
  <2>1. PICK send \in outbox[t] :
           /\ outbox' = [outbox EXCEPT ![t] = @ \ {send}]
           /\ \/ /\ queue' = [queue EXCEPT ![send[1]] = Append(@, send[2])]
                 /\ UNCHANGED lost
              \/ /\ lost' = lost \cup {send[1]}
                 /\ UNCHANGED queue
    BY <1>4 DEF Deliver
  <2>2. send[1] \in Tabs /\ send[2] \in Messages
    BY DEF TypeOK
  <2>3. queue[send[1]] \in Seq(Messages)
    BY <2>2 DEF TypeOK
  <2>4. Append(queue[send[1]], send[2]) \in Seq(Messages)
    BY <2>2, <2>3, AppendQueue
  <2>5. outbox \in [Tabs -> SUBSET (Tabs \X Messages)] /\ queue \in [Tabs -> Seq(Messages)]
    BY DEF TypeOK
  <2>6. outbox' \in [Tabs -> SUBSET (Tabs \X Messages)]
    BY <2>1, <2>5
  <2>7. queue' \in [Tabs -> Seq(Messages)]
    BY <2>1, <2>4, <2>5
  <2>8. lost' \subseteq Tabs
    BY <2>1, <2>2 DEF TypeOK
  <2>9. UNCHANGED <<hub, up, ws, view, button, elders, events>>
    BY <1>4 DEF Deliver
  <2> QED BY <2>6, <2>7, <2>8, <2>9 DEF TypeOK, hub, view, button
<1>5. CASE Route(t)
  <2> DEFINE m == Head(up[t])
  <2>1. up[t] \in Seq(Signals) /\ up[t] # <<>> /\ room[t] \in Tabs
    BY <1>5 DEF Route, TypeOK
  <2>2. m \in Signals /\ Tail(up[t]) \in Seq(Signals)
    BY <2>1, ReadQueue
  <2>3. up' \in [Tabs -> Seq(Signals)]
    BY <1>5, <2>2 DEF Route, TypeOK
  <2>4. CASE m.type = "media_state"
    <3>1. m.off \in BOOLEAN
      BY <2>2 DEF Signals
    <3>2. Others(t) \in SUBSET Tabs
      BY <2>1, OthersAreTabs
    <3>3. Notice(m.type, Owner[t], m.off) \in Messages
      BY <2>4, <3>1, NoticeType DEF Messages
    <3>4. Send(t, Notice(m.type, Owner[t], m.off), Others(t)) /\ muted' = [muted EXCEPT ![t] = m.off]
      BY <1>5, <2>4 DEF Route
    <3>5. outbox' \in [Tabs -> SUBSET (Tabs \X Messages)]
      BY <3>2, <3>3, <3>4, SendType
    <3> QED BY <1>5, <2>3, <3>1, <3>4, <3>5 DEF Route, TypeOK, view, button
  <2>5. CASE m.type # "media_state"
    <3>1. m.type \in {"offer", "answer"} /\ m.to \in Users
      BY <2>2, <2>5 DEF Signals
    <3>2. {peers[room[t]][m.to]} \ {None} \in SUBSET Tabs
      BY <2>1, <3>1 DEF TypeOK
    <3>3. Notice(m.type, Owner[t], FALSE) \in Messages
      BY <3>1, NoticeType DEF Messages
    <3>4. Send(t, Notice(m.type, Owner[t], FALSE), {peers[room[t]][m.to]} \ {None}) /\ UNCHANGED muted
      BY <1>5, <2>5 DEF Route
    <3>5. outbox' \in [Tabs -> SUBSET (Tabs \X Messages)]
      BY <3>2, <3>3, <3>4, SendType
    <3> QED BY <1>5, <2>3, <3>4, <3>5 DEF Route, TypeOK, view, button
  <2> QED BY <2>4, <2>5
<1>6. CASE EndServe(t)
  BY <1>6 DEF EndServe, TypeOK, Stages, net, view, button
<1>7. CASE RemovePeer(t)
  <2>1. room[t] \in Tabs
    BY <1>7 DEF RemovePeer, TypeOK
  <2>2. peers' \in [Tabs -> [Users -> Tabs \cup {None}]]
    BY <1>7, <2>1 DEF RemovePeer, TypeOK
  <2> QED BY <1>7, <2>2 DEF RemovePeer, TypeOK, Stages, net, view, button
<1>8. CASE CheckEmpty(t)
  <2>1. /\ stage' \in [Tabs -> Stages]
        /\ \A s \in Tabs : stage'[s] = "none" <=> stage[s] = "none"
    BY <1>8 DEF CheckEmpty, TypeOK, Stages
  <2> QED BY <1>8, <2>1 DEF CheckEmpty, TypeOK, net, view, button
<1>9. CASE DeleteRoom(t)
  BY <1>9 DEF DeleteRoom, TypeOK, Stages, net, view, button
<1> QED BY <1>1, <1>2, <1>3, <1>4, <1>5, <1>6, <1>7, <1>8, <1>9 DEF Handler

(* So do the steps of a browser.                                           *)
LEMMA ReceiveType ==
    ASSUME TypeOK, NEW t \in Tabs, Receive(t)
    PROVE  TypeOK'
<1> DEFINE m == Head(queue[t])
<1>1. queue[t] \in Seq(Messages) /\ queue[t] # <<>>
  BY DEF Receive, TypeOK
<1>2. m \in Messages /\ queue' \in [Tabs -> Seq(Messages)]
  BY <1>1, ReadQueue DEF Receive, TypeOK
<1>3. m.type \notin {"presence", "roster_state"} => m.from \in Users
  BY <1>2 DEF Messages, Lists, News
<1>4. /\ Conn(t, TRUE) \in Conns /\ Conn(t, FALSE) \in Conns /\ NoConn \in Conns
      /\ \A u \in Users : pc[t][u] \in Conns
  BY ConnTypes DEF TypeOK
<1>5. \A c \in Conns : c.on =>
         /\ \A g \in {"new", "offered", "answered", "agreed"} : [c EXCEPT !.sig = g] \in Conns
         /\ \A u, off : [c EXCEPT !.muted = u \in off] \in Conns
  BY ConnChanges
<1>6. Conn(t, TRUE).on
  BY DEF Conn
<1> HIDE DEF m
<1>7. /\ pc \in [Tabs -> [Users -> Conns]] /\ pending \in [Tabs -> SUBSET Users]
      /\ up \in [Tabs -> Seq(Signals)]
  BY DEF TypeOK
<1>8. /\ pc' \in [Tabs -> [Users -> Conns]]
      /\ up' \in [Tabs -> Seq(Signals)]
      /\ pending' \in [Tabs -> SUBSET Users]
  <2>1. CASE TakePresence(t, m)
    <3>1. PICK c \in [Users -> Conns] : pc' = [pc EXCEPT ![t] = c]
      <4> DEFINE c == [u \in Users |->
                          IF u \in m.users /\ ~pc[t][u].on THEN Conn(t, FALSE) ELSE pc[t][u]]
      <4>1. pc' = [pc EXCEPT ![t] = c]
        BY <2>1 DEF TakePresence
      <4>2. c \in [Users -> Conns]
        BY <1>4
      <4> QED BY <4>1, <4>2
    <3>2. pc' \in [Tabs -> [Users -> Conns]]
      BY <3>1, <1>7
    <3> QED BY <2>1, <3>2, <1>7 DEF TakePresence
  <2>2. CASE TakeRosterState(t, m)
    <3>1. PICK c \in [Users -> Conns] : pc' = [pc EXCEPT ![t] = c]
      <4> DEFINE c == [u \in Users |->
                          IF u \in m.users /\ pc[t][u].on
                            THEN [pc[t][u] EXCEPT !.muted = u \in m.muted] ELSE pc[t][u]]
      <4>1. pc' = [pc EXCEPT ![t] = c]
        BY <2>2 DEF TakeRosterState
      <4>2. ASSUME NEW u \in Users, pc[t][u].on
            PROVE  [pc[t][u] EXCEPT !.muted = u \in m.muted] \in Conns
        BY <4>2, <1>4, <1>5
      <4>3. c \in [Users -> Conns]
        BY <1>4, <4>2
      <4> QED BY <4>1, <4>3
    <3>2. pc' \in [Tabs -> [Users -> Conns]]
      BY <3>1, <1>7
    <3> QED BY <2>2, <3>2, <1>7 DEF TakeRosterState
  <2>3. CASE TakeMediaState(t, m)
    <3>1. m.from \in Users
      BY <2>3, <1>3 DEF TakeMediaState
    <3>2. pc[t][m.from].on => [pc[t][m.from] EXCEPT !.muted = m.from \in m.muted] \in Conns
      BY <3>1, <1>4, <1>5
    <3>3. pc' \in [Tabs -> [Users -> Conns]]
      BY <2>3, <3>1, <3>2, <1>7, ConnUpdate DEF TakeMediaState
    <3> QED BY <2>3, <3>3, <1>7 DEF TakeMediaState
  <2>4. CASE TakeJoin(t, m)
    <3>1. m.from \in Users
      BY <2>4, <1>3 DEF TakeJoin
    <3>2. pc' \in [Tabs -> [Users -> Conns]]
      BY <2>4, <3>1, <1>4, <1>7, ConnUpdate DEF TakeJoin
    <3> QED BY <2>4, <3>2, <1>7 DEF TakeJoin
  <2>5. CASE TakeLeave(t, m)
    <3>1. m.from \in Users
      BY <2>5, <1>3 DEF TakeLeave
    <3>2. pc' \in [Tabs -> [Users -> Conns]]
      BY <2>5, <3>1, <1>4, <1>7, ConnUpdate DEF TakeLeave
    <3> QED BY <2>5, <3>2, <1>7 DEF TakeLeave
  <2>6. CASE TakeOffer(t, m)
    <3> DEFINE known == IF pc[t][m.from].on THEN pc[t][m.from] ELSE Conn(t, TRUE)
    <3>1. m.from \in Users
      BY <2>6, <1>3 DEF TakeOffer
    <3>2. known \in Conns /\ known.on
      BY <3>1, <1>4, <1>6
    <3>3. [known EXCEPT !.sig = "answered"] \in Conns
      BY <3>2, <1>5
    <3>4. [type |-> "answer", to |-> m.from, off |-> FALSE] \in Signals
      BY <3>1 DEF Signals
    <3>5. up' \in [Tabs -> Seq(Signals)]
      BY <2>6, <3>4, SendSignalType DEF TakeOffer
    <3>6. pc' \in [Tabs -> [Users -> Conns]]
      BY <2>6, <3>1, <3>3, ConnUpdate DEF TakeOffer
    <3> QED BY <2>6, <3>5, <3>6, <1>7 DEF TakeOffer
  <2>7. CASE TakeAnswer(t, m)
    <3>1. m.from \in Users
      BY <2>7, <1>3 DEF TakeAnswer
    <3>2. pc[t][m.from].on => [pc[t][m.from] EXCEPT !.sig = "agreed"] \in Conns
      BY <3>1, <1>4, <1>5
    <3>3. CASE pc[t][m.from].on /\ pc[t][m.from].sig = "offered"
      <4>1. pc' = [pc EXCEPT ![t][m.from] = [pc[t][m.from] EXCEPT !.sig = "agreed"]]
        BY <2>7, <3>3 DEF TakeAnswer
      <4>2. pc' \in [Tabs -> [Users -> Conns]]
        BY <4>1, <3>1, <3>2, <3>3, ConnUpdate
      <4> QED BY <2>7, <3>3, <4>2, <1>7 DEF TakeAnswer
    <3>4. CASE ~(pc[t][m.from].on /\ pc[t][m.from].sig = "offered")
      BY <2>7, <3>4, <1>7 DEF TakeAnswer
    <3> QED BY <3>3, <3>4
  <2> QED BY <2>1, <2>2, <2>3, <2>4, <2>5, <2>6, <2>7 DEF Receive, m
<1> QED BY <1>2, <1>8 DEF Receive, TypeOK, hub, button

LEMMA BrowserType ==
    ASSUME TypeOK, NEW t \in Tabs, Browser(t)
    PROVE  TypeOK'
<1>1. CASE Mount(t) \/ Opened(t) \/ AcquireMedia(t)
  <2>1. CASE Mount(t)
    BY <2>1 DEF Mount, TypeOK, hub, net, view
  <2>2. CASE Opened(t)
    BY <2>2 DEF Opened, TypeOK, hub, net, view, button
  <2>3. CASE AcquireMedia(t)
    BY <2>3 DEF AcquireMedia, TypeOK, hub, net, view
  <2> QED BY <1>1, <2>1, <2>2, <2>3
<1>2. CASE ToggleMic(t)
  <2>1. micOn[t] \in BOOLEAN /\ [type |-> "media_state", to |-> None, off |-> micOn[t]] \in Signals
    BY DEF TypeOK, Signals
  <2>2. up' \in [Tabs -> Seq(Signals)]
    BY <1>2, <2>1, SendSignalType DEF ToggleMic
  <2>3. /\ events' \in 0..MaxEvents /\ unsent' \subseteq Tabs
        /\ micOn' \in [Tabs -> BOOLEAN]
    BY <1>2, <2>1, MeetAssumption DEF ToggleMic, TypeOK
  <2> QED BY <1>2, <2>2, <2>3 DEF ToggleMic, TypeOK, hub, net, view
<1>3. CASE Receive(t)
  BY <1>3, ReceiveType
<1>4. CASE Leave(t)
  <2>1. queue[t] \in Seq(Messages)
    BY DEF TypeOK
  <2>2. queue' \in [Tabs -> Seq(Messages)]
    BY <1>4, <2>1, CutQueue DEF Leave, TypeOK
  <2>3. events' \in 0..MaxEvents
    BY <1>4, MeetAssumption DEF Leave, TypeOK
  <2>4. pc' \in [Tabs -> [Users -> Conns]]
    BY <1>4 DEF Leave, TypeOK, Conns
  <2> QED BY <1>4, <2>2, <2>3, <2>4 DEF Leave, TypeOK, hub, button
<1>5. ASSUME NEW u \in Users, Negotiate(t, u) PROVE TypeOK'
  <2>1. [type |-> "offer", to |-> u, off |-> FALSE] \in Signals
    BY DEF Signals
  <2>2. up' \in [Tabs -> Seq(Signals)]
    BY <1>5, <2>1, SendSignalType DEF Negotiate
  <2>3. [pc[t][u] EXCEPT !.sig = "offered"] \in Conns
    <3>1. pc[t][u] \in Conns
      BY DEF TypeOK
    <3>2. pc[t][u].on
      BY <1>5 DEF Negotiate
    <3> QED BY <3>1, <3>2, ConnChanges
  <2>4. pc' = [pc EXCEPT ![t][u] = [pc[t][u] EXCEPT !.sig = "offered"]]
    BY <1>5 DEF Negotiate
  <2>5. pc' \in [Tabs -> [Users -> Conns]]
    BY <2>3, <2>4, ConnUpdate
  <2> QED BY <1>5, <2>2, <2>5 DEF Negotiate, TypeOK, hub, net, button
<1>6. ASSUME NEW u \in Users, ConnectionFails(t, u) PROVE TypeOK'
  <2>1. pc' \in [Tabs -> [Users -> Conns]]
    BY <1>6, ConnUpdate DEF ConnectionFails, Conns
  <2>2. events' \in 0..MaxEvents
    BY <1>6, MeetAssumption DEF ConnectionFails, TypeOK
  <2> QED BY <1>6, <2>1, <2>2 DEF ConnectionFails, TypeOK, hub, net, button
<1> QED BY <1>1, <1>2, <1>3, <1>4, <1>5, <1>6 DEF Browser

(* Every variable has its type in every reachable state.                   *)
THEOREM TypeCorrect == Spec => []TypeOK
<1>1. ASSUME TypeOK, UNCHANGED vars PROVE TypeOK'
  BY <1>1 DEF TypeOK, vars, hub, net, view, button
<1>2. ASSUME TypeOK, Next PROVE TypeOK'
  BY <1>2, HandlerType, BrowserType DEF Next
<1> QED BY <1>1, <1>2, InitType, PTL DEF Spec

-----------------------------------------------------------------------------
(* The call keeps what Attendance promises.  What the hub and the messages *)
(* say is true: they name users who came, and a leave names one who went.  *)

TrueFor(m, came, went) ==
    /\ m.users \subseteq OwnersOf(came)
    /\ m.type \notin {"presence", "roster_state"} => m.from \in OwnersOf(came)
    /\ m.type = "leave" => m.from \in OwnersOf(went)

Credible ==
    /\ \A r \in Tabs, u \in Users : peers[r][u] \in Came \cup {None}
    /\ \A t \in Tabs : \A send \in outbox[t] : TrueFor(send[2], Came, Went)
    /\ \A t \in Tabs : \A i \in DOMAIN queue[t] : TrueFor(queue[t][i], Came, Went)

LEMMA StaysTrue ==
    ASSUME NEW c1, NEW c2, NEW w1, NEW w2, c1 \subseteq c2, w1 \subseteq w2,
           NEW m, TrueFor(m, c1, w1)
    PROVE  TrueFor(m, c2, w2)
  BY DEF TrueFor, OwnersOf

(* Who came has come, and who went is gone, for good.                      *)
LEMMA StagesGoOn ==
    ASSUME TypeOK, NEW t \in Tabs, Handler(t)
    PROVE  /\ Came \subseteq Came' /\ Went \subseteq Went'
           /\ \A s \in Tabs \ {t} : stage'[s] = stage[s]
<1>0. /\ stage \in [Tabs -> Stages]
      /\ Deliver(t) \/ Route(t) => stage' = stage
  BY DEF TypeOK, Deliver, Route, hub
<1>1. CASE Deliver(t) \/ Route(t)
  BY <1>0, <1>1 DEF Came, Went
<1>2. CASE Enter(t) \/ AddPeer(t)
  BY <1>0, <1>2 DEF Came, Went, Enter, AddPeer
<1>3. CASE SendPresence(t) \/ SendRosterState(t) \/ AnnounceJoin(t) \/ EndServe(t)
  BY <1>0, <1>3 DEF Came, Went, SendPresence, SendRosterState, AnnounceJoin, EndServe
<1>4. CASE RemovePeer(t) \/ CheckEmpty(t) \/ DeleteRoom(t) \/ AnnounceLeave(t)
  BY <1>0, <1>4 DEF Came, Went, RemovePeer, CheckEmpty, DeleteRoom, AnnounceLeave
<1> QED BY <1>1, <1>2, <1>3, <1>4 DEF Handler

LEMMA OthersCame ==
    ASSUME TypeOK, Credible, NEW t \in Tabs, room[t] # None
    PROVE  Others(t) \subseteq Came
  BY DEF TypeOK, Credible, Others

LEMMA ListingTrue ==
    ASSUME NEW type, type # "leave", NEW tabs, tabs \subseteq Came,
           type \in {"presence", "roster_state"}
    PROVE  TrueFor(Listing(type, tabs), Came, Went)
  BY DEF TrueFor, Listing, OwnersOf

LEMMA NoticeTrue ==
    ASSUME NEW type, NEW t \in Came, NEW off, type = "leave" => t \in Went
    PROVE  TrueFor(Notice(type, Owner[t], off), Came, Went)
  BY DEF TrueFor, Notice, OwnersOf

LEMMA CredibleInit == Init => Credible
  BY DEF Init, Credible

LEMMA SendCredible ==
    ASSUME TypeOK, Credible, NEW t \in Tabs, NEW m, NEW to, Send(t, m, to),
           Came \subseteq Came', Went \subseteq Went', TrueFor(m, Came', Went'),
           UNCHANGED <<peers, queue>>
    PROVE  Credible'
<1>1. \A s \in Tabs : \A send \in outbox'[s] : TrueFor(send[2], Came', Went')
  <2> TAKE s \in Tabs
  <2> TAKE send \in outbox'[s]
  <2>1. CASE s = t
    <3>1. send \in {<<p, m>> : p \in to}
      BY <2>1 DEF Send, TypeOK
    <3> QED BY <3>1
  <2>2. CASE s # t
    <3>1. send \in outbox[s]
      BY <2>2 DEF Send, TypeOK
    <3>2. TrueFor(send[2], Came, Went)
      BY <3>1 DEF Credible
    <3> QED BY <3>2, StaysTrue
  <2> QED BY <2>1, <2>2
<1>2. \A s \in Tabs : \A i \in DOMAIN queue[s] : TrueFor(queue[s][i], Came', Went')
  BY StaysTrue DEF Credible
<1>3. \A r \in Tabs, u \in Users : peers[r][u] \in Came' \cup {None}
  BY DEF Credible
<1> QED BY <1>1, <1>2, <1>3 DEF Credible

LEMMA HandlerCredible ==
    ASSUME TypeOK, Credible, NEW t \in Tabs, Handler(t)
    PROVE  Credible'
<1>0. Came \subseteq Came' /\ Went \subseteq Went'
  BY StagesGoOn
<1>1. ASSUME UNCHANGED <<peers, outbox, queue>> PROVE Credible'
  <2>1. \A m : TrueFor(m, Came, Went) => TrueFor(m, Came', Went')
    BY <1>0, StaysTrue
  <2> QED BY <1>0, <1>1, <2>1 DEF Credible
<1>2. CASE Enter(t) \/ EndServe(t) \/ CheckEmpty(t) \/ DeleteRoom(t)
  BY <1>1, <1>2 DEF Enter, EndServe, CheckEmpty, DeleteRoom, net
<1>3. CASE AddPeer(t)
  <2>1. room[t] \in Tabs /\ t \in Came'
    BY <1>3 DEF AddPeer, TypeOK, Came
  <2>2. \A r \in Tabs, u \in Users : peers'[r][u] = peers[r][u] \/ peers'[r][u] = t
    BY <1>3 DEF AddPeer, TypeOK
  <2>3. \A r \in Tabs, u \in Users : peers'[r][u] \in Came' \cup {None}
    BY <1>0, <2>1, <2>2 DEF Credible
  <2>4. UNCHANGED <<outbox, queue>>
    BY <1>3 DEF AddPeer, net
  <2>5. \A m : TrueFor(m, Came, Went) => TrueFor(m, Came', Went')
    BY <1>0, StaysTrue
  <2> QED BY <2>3, <2>4, <2>5 DEF Credible
<1>4. CASE RemovePeer(t)
  <2>1. \A r \in Tabs, u \in Users : peers'[r][u] = peers[r][u] \/ peers'[r][u] = None
    BY <1>4 DEF RemovePeer, TypeOK
  <2>2. \A r \in Tabs, u \in Users : peers'[r][u] \in Came' \cup {None}
    BY <1>0, <2>1 DEF Credible
  <2>3. UNCHANGED <<outbox, queue>>
    BY <1>4 DEF RemovePeer, net
  <2>4. \A m : TrueFor(m, Came, Went) => TrueFor(m, Came', Went')
    BY <1>0, StaysTrue
  <2> QED BY <2>2, <2>3, <2>4 DEF Credible
<1>5. CASE SendPresence(t) \/ SendRosterState(t)
  <2>1. room[t] # None
    BY <1>5 DEF SendPresence, SendRosterState, TypeOK
  <2>2. Others(t) \subseteq Came
    BY <2>1, OthersCame
  <2>3. /\ TrueFor(Listing("presence", Others(t)), Came', Went')
        /\ TrueFor(Listing("roster_state", Others(t)), Came', Went')
    BY <1>0, <2>2, ListingTrue, StaysTrue
  <2>4. CASE SendPresence(t)
    BY <1>0, <2>3, <2>4, SendCredible DEF SendPresence
  <2>5. CASE SendRosterState(t)
    BY <1>0, <2>3, <2>5, SendCredible DEF SendRosterState
  <2> QED BY <1>5, <2>4, <2>5
<1>6. CASE AnnounceJoin(t)
  <2>1. t \in Came
    BY <1>6 DEF AnnounceJoin, Came
  <2>2. TrueFor(Notice("join", Owner[t], FALSE), Came, Went)
    BY <2>1 DEF TrueFor, Notice, OwnersOf
  <2>3. ASSUME NEW m, TrueFor(m, Came, Went) PROVE TrueFor(m, Came', Went')
    BY <1>0, <2>3, StaysTrue
  <2>4. TrueFor(Notice("join", Owner[t], FALSE), Came', Went')
    BY <2>2, <2>3
  <2> QED BY <1>0, <1>6, <2>4, SendCredible DEF AnnounceJoin
<1>7. CASE AnnounceLeave(t)
  <2>1. t \in Came /\ t \in Went
    BY <1>7 DEF AnnounceLeave, Came, Went
  <2>2. TrueFor(Notice("leave", Owner[t], FALSE), Came, Went)
    BY <2>1 DEF TrueFor, Notice, OwnersOf
  <2>3. ASSUME NEW m, TrueFor(m, Came, Went) PROVE TrueFor(m, Came', Went')
    BY <1>0, <2>3, StaysTrue
  <2>4. TrueFor(Notice("leave", Owner[t], FALSE), Came', Went')
    BY <2>2, <2>3
  <2> QED BY <1>0, <1>7, <2>4, SendCredible DEF AnnounceLeave
<1>8. CASE Route(t)
  <2> DEFINE m == Head(up[t])
  <2>1. t \in Came /\ UNCHANGED <<peers, queue>>
    BY <1>8 DEF Route, Came
  <2>2. m \in Signals
    BY <1>8, ReadQueue DEF Route, TypeOK
  <2>3. m.type \in {"media_state", "offer", "answer"}
    BY <2>2 DEF Signals
  <2>4. PICK off, to : Send(t, Notice(m.type, Owner[t], off), to)
    BY <1>8 DEF Route
  <2>5. TrueFor(Notice(m.type, Owner[t], off), Came, Went)
    <3> HIDE DEF m
    <3> QED BY <2>1, <2>3, NoticeTrue
  <2>6. TrueFor(Notice(m.type, Owner[t], off), Came', Went')
    <3> HIDE DEF m
    <3> QED BY <1>0, <2>5, StaysTrue
  <2> HIDE DEF m
  <2> QED BY <1>0, <2>1, <2>4, <2>6, SendCredible
<1>9. CASE Deliver(t)
  <2>1. PICK send \in outbox[t] :
           /\ outbox' = [outbox EXCEPT ![t] = @ \ {send}]
           /\ \/ queue' = [queue EXCEPT ![send[1]] = Append(@, send[2])]
              \/ UNCHANGED queue
    BY <1>9 DEF Deliver
  <2>2. /\ send[1] \in Tabs /\ send[2] \in Messages
        /\ outbox \in [Tabs -> SUBSET (Tabs \X Messages)] /\ queue \in [Tabs -> Seq(Messages)]
    BY DEF TypeOK
  <2>3. UNCHANGED <<peers, stage>>
    BY <1>9 DEF Deliver, hub
  <2>4. Came' = Came /\ Went' = Went
    BY <2>3 DEF Came, Went
  <2>5. \A s \in Tabs : \A x \in outbox'[s] : TrueFor(x[2], Came, Went)
    <3>1. \A s \in Tabs : outbox'[s] \subseteq outbox[s]
      BY <2>1, <2>2
    <3> QED BY <3>1 DEF Credible
  <2>6. TrueFor(send[2], Came, Went)
    BY DEF Credible
  <2>7. \A s \in Tabs : \A i \in DOMAIN queue'[s] : TrueFor(queue'[s][i], Came, Went)
    <3>1. CASE UNCHANGED queue
      BY <3>1 DEF Credible
    <3>2. CASE queue' = [queue EXCEPT ![send[1]] = Append(@, send[2])]
      <4> TAKE s \in Tabs
      <4> TAKE i \in DOMAIN queue'[s]
      <4>1. CASE s = send[1]
        <5>1. queue'[s] = Append(queue[s], send[2]) /\ queue[s] \in Seq(Messages)
          BY <2>2, <3>2, <4>1
        <5>2. \/ i \in DOMAIN queue[s] /\ queue'[s][i] = queue[s][i]
              \/ queue'[s][i] = send[2]
          BY <2>2, <5>1, AppendQueue
        <5> QED BY <2>6, <5>2 DEF Credible
      <4>2. CASE s # send[1]
        BY <2>2, <3>2, <4>2 DEF Credible
      <4> QED BY <4>1, <4>2
    <3> QED BY <2>1, <3>1, <3>2
  <2> QED BY <2>3, <2>4, <2>5, <2>7 DEF Credible
<1> QED BY <1>2, <1>3, <1>4, <1>5, <1>6, <1>7, <1>8, <1>9 DEF Handler

LEMMA BrowserCredible ==
    ASSUME TypeOK, Credible, NEW t \in Tabs, Browser(t)
    PROVE  Credible'
<1>1. UNCHANGED hub /\ UNCHANGED outbox
  BY DEF Browser, Mount, Opened, AcquireMedia, ToggleMic, Receive, Leave, Negotiate,
         ConnectionFails, hub, net
<1>2. Came' = Came /\ Went' = Went /\ peers' = peers
  BY <1>1 DEF hub, Came, Went
<1>3. queue[t] \in Seq(Messages) /\ queue \in [Tabs -> Seq(Messages)]
  BY DEF TypeOK
<1>4. \/ UNCHANGED queue
      \/ queue' = [queue EXCEPT ![t] = Tail(@)] /\ queue[t] # <<>>
      \/ \E n \in 0..Len(queue[t]) : queue' = [queue EXCEPT ![t] = SubSeq(@, n + 1, Len(@))]
  BY DEF Browser, Mount, Opened, AcquireMedia, ToggleMic, Receive, Leave, Negotiate,
         ConnectionFails, net
<1>5. \A s \in Tabs : \A i \in DOMAIN queue'[s] :
         \E j \in DOMAIN queue[s] : queue'[s][i] = queue[s][j]
  <2>1. CASE UNCHANGED queue
    BY <2>1
  <2>2. CASE queue' = [queue EXCEPT ![t] = Tail(@)] /\ queue[t] # <<>>
    BY <1>3, <2>2, ReadQueue
  <2>3. CASE \E n \in 0..Len(queue[t]) : queue' = [queue EXCEPT ![t] = SubSeq(@, n + 1, Len(@))]
    <3>1. PICK n \in 0..Len(queue[t]) : queue' = [queue EXCEPT ![t] = SubSeq(@, n + 1, Len(@))]
      BY <2>3
    <3>2. \A i \in DOMAIN queue'[t] : i + n \in DOMAIN queue[t] /\ queue'[t][i] = queue[t][i + n]
      BY <1>3, <3>1, CutQueue
    <3>3. \A s \in Tabs \ {t} : queue'[s] = queue[s]
      BY <1>3, <3>1
    <3> QED BY <3>2, <3>3
  <2> QED BY <1>4, <2>1, <2>2, <2>3
<1> QED BY <1>1, <1>2, <1>5 DEF Credible

(* Whatever a message says is true when it is said and stays true: whoever *)
(* it names has come to the call, and a leave is about one who went.       *)
THEOREM CredibleHolds == Spec => []Credible
<1>1. ASSUME Credible, UNCHANGED vars PROVE Credible'
  BY <1>1 DEF Credible, vars, hub, net, Came, Went
<1>2. ASSUME TypeOK, Credible, Next PROVE Credible'
  BY <1>2, HandlerCredible, BrowserCredible DEF Next
<1> QED BY <1>1, <1>2, CredibleInit, TypeCorrect, PTL DEF Spec

(* Every step of the call is a step of Attendance, or changes nothing that *)
(* Attendance speaks of.                                                   *)

LEMMA HandlerAttends ==
    ASSUME TypeOK, NEW t \in Tabs, Handler(t)
    PROVE  Roll!Next \/ UNCHANGED Roll!avars
<1>0. /\ UNCHANGED <<ws, pc, broken>>
      /\ stage \in [Tabs -> Stages]
  BY DEF Handler, Enter, AddPeer, SendPresence, SendRosterState, AnnounceJoin, Deliver, Route,
         EndServe, RemovePeer, CheckEmpty, DeleteRoom, AnnounceLeave, view, TypeOK
<1>1. UNCHANGED <<{s \in Tabs : ws[s] = "closed"}, [s \in Tabs |-> Shown(s)], broken>>
  BY <1>0 DEF Shown
<1>2. CASE AddPeer(t)
  <2>1. Came' = Came \cup {t} /\ Went' = Went
    BY <1>0, <1>2 DEF AddPeer, Came, Went
  <2>2. Roll!Come(t)
    BY <1>1, <2>1 DEF Roll!Come
  <2> QED BY <2>2 DEF Roll!Next
<1>3. CASE EndServe(t)
  <2>1. Came' = Came /\ Went' = Went \cup {t} /\ t \in Came /\ ws[t] = "closed"
    BY <1>0, <1>3 DEF EndServe, Came, Went
  <2>2. Roll!Go(t)
    BY <1>1, <2>1 DEF Roll!Go
  <2> QED BY <2>2 DEF Roll!Next
<1>4. CASE ~AddPeer(t) /\ ~EndServe(t)
  <2>1. Came' = Came /\ Went' = Went
    <3>1. CASE Enter(t) \/ SendPresence(t) \/ SendRosterState(t) \/ AnnounceJoin(t)
      BY <1>0, <3>1 DEF Enter, SendPresence, SendRosterState, AnnounceJoin, Came, Went
    <3>2. CASE Deliver(t) \/ Route(t)
      BY <3>2 DEF Deliver, Route, hub, Came, Went
    <3>3. CASE RemovePeer(t) \/ CheckEmpty(t) \/ DeleteRoom(t) \/ AnnounceLeave(t)
      BY <1>0, <3>3 DEF RemovePeer, CheckEmpty, DeleteRoom, AnnounceLeave, Came, Went
    <3> QED BY <1>4, <3>1, <3>2, <3>3 DEF Handler
  <2> QED BY <1>1, <2>1 DEF Roll!avars
<1> QED BY <1>2, <1>3, <1>4

LEMMA ReceiveAttends ==
    ASSUME TypeOK, Credible, NEW t \in Tabs, Receive(t)
    PROVE  Roll!Next \/ UNCHANGED Roll!avars
<1> DEFINE m == Head(queue[t])
           seen == [s \in Tabs |-> Shown(s)]
<1>0. UNCHANGED <<stage, ws, broken>> /\ ws[t] = "open"
  BY DEF Receive, hub
<1>1. UNCHANGED <<Came, Went, {s \in Tabs : ws[s] = "closed"}, broken>>
  BY <1>0 DEF Came, Went
<1>2. m \in Messages /\ TrueFor(m, Came, Went)
  <2>1. queue[t] \in Seq(Messages) /\ queue[t] # <<>>
    BY DEF Receive, TypeOK
  <2> QED BY <2>1, ReadQueue DEF Credible
<1>3. m.type \notin {"presence", "roster_state"} => m.from \in Users
  BY <1>2 DEF Messages, Lists, News
<1>4. pc \in [Tabs -> [Users -> Conns]]
  BY DEF TypeOK
<1>5. \A s \in Tabs \ {t} : pc'[s] = pc[s]
  BY <1>3, <1>4 DEF Receive, TakePresence, TakeRosterState, TakeMediaState, TakeJoin, TakeLeave,
         TakeOffer, TakeAnswer
<1>6. Conn(t, TRUE).on /\ Conn(t, FALSE).on /\ ~NoConn.on
  BY DEF Conn, NoConn
<1> HIDE DEF m
<1>7. ASSUME NEW new \in SUBSET Users, new \subseteq OwnersOf(Came),
             Shown(t)' = Shown(t) \cup new
      PROVE  Roll!Next
  <2>1. seen' = [seen EXCEPT ![t] = @ \cup new]
    BY <1>5, <1>7 DEF Shown
  <2>2. t \notin {s \in Tabs : ws[s] = "closed"}
    BY <1>0
  <2>3. Roll!See(t, new)
    BY <1>1, <1>7, <2>1, <2>2 DEF Roll!See, OwnersOf
  <2> QED BY <2>3 DEF Roll!Next
<1>8. ASSUME Shown(t)' = Shown(t) PROVE UNCHANGED Roll!avars
  <2>1. \A s \in Tabs : Shown(s)' = Shown(s)
    BY <1>5, <1>8 DEF Shown
  <2> QED BY <1>1, <2>1 DEF Roll!avars
<1>9. CASE TakePresence(t, m)
  <2> DEFINE new == {u \in m.users : u \in Users /\ ~pc[t][u].on}
  <2>1. \A u \in Users : pc'[t][u].on <=> pc[t][u].on \/ u \in m.users
    BY <1>4, <1>6, <1>9 DEF TakePresence
  <2>2. Shown(t)' = Shown(t) \cup new
    BY <2>1 DEF Shown
  <2>3. new \in SUBSET Users /\ new \subseteq OwnersOf(Came)
    BY <1>2 DEF TrueFor
  <2> QED BY <1>7, <2>2, <2>3
<1>10. CASE TakeRosterState(t, m) \/ TakeMediaState(t, m) \/ TakeAnswer(t, m)
  <2>1. \A u \in Users : pc'[t][u].on <=> pc[t][u].on
    <3>1. CASE TakeRosterState(t, m)
      <4>1. \A u \in Users : pc'[t][u] = IF u \in m.users /\ pc[t][u].on
                                          THEN [pc[t][u] EXCEPT !.muted = u \in m.muted]
                                          ELSE pc[t][u]
        BY <1>4, <3>1 DEF TakeRosterState
      <4>2. \A c \in Conns : \A v : c.on => [c EXCEPT !.muted = v].on
        BY DEF Conns
      <4> QED BY <1>4, <4>1, <4>2
    <3>2. CASE TakeMediaState(t, m)
      BY <1>3, <1>4, <3>2 DEF TakeMediaState, Conns
    <3>3. CASE TakeAnswer(t, m)
      <4>1. m.from \in Users
        BY <1>3, <3>3 DEF TakeAnswer
      <4>2. CASE pc[t][m.from].on /\ pc[t][m.from].sig = "offered"
        <5>1. pc' = [pc EXCEPT ![t][m.from] = [pc[t][m.from] EXCEPT !.sig = "agreed"]]
          BY <3>3, <4>2 DEF TakeAnswer
        <5>2. [pc[t][m.from] EXCEPT !.sig = "agreed"].on
          BY <1>4, <4>1, <4>2 DEF Conns
        <5> QED BY <1>4, <4>1, <4>2, <5>1, <5>2
      <4>3. CASE ~(pc[t][m.from].on /\ pc[t][m.from].sig = "offered")
        BY <3>3, <4>3 DEF TakeAnswer
      <4> QED BY <4>2, <4>3
    <3> QED BY <1>10, <3>1, <3>2, <3>3
  <2>2. Shown(t)' = Shown(t)
    BY <2>1 DEF Shown
  <2> QED BY <1>8, <2>2
<1>11. CASE TakeJoin(t, m) \/ TakeOffer(t, m)
  <2>1. m.type \in {"join", "offer"}
    BY <1>11 DEF TakeJoin, TakeOffer
  <2>2. m.from \in Users /\ {m.from} \subseteq OwnersOf(Came)
    BY <1>2, <1>3, <2>1 DEF TrueFor
  <2>3. \A u \in Users : pc'[t][u].on <=> pc[t][u].on \/ u = m.from
    <3>1. CASE TakeJoin(t, m)
      BY <1>4, <1>6, <2>2, <3>1 DEF TakeJoin
    <3>2. CASE TakeOffer(t, m)
      <4> DEFINE known == IF pc[t][m.from].on THEN pc[t][m.from] ELSE Conn(t, TRUE)
      <4>1. known \in Conns /\ known.on
        BY <1>4, <1>6, <2>2, ConnTypes
      <4>2. [known EXCEPT !.sig = "answered"].on
        <5> HIDE DEF known
        <5> QED BY <4>1 DEF Conns
      <4>3. pc' = [pc EXCEPT ![t][m.from] = [known EXCEPT !.sig = "answered"]]
        BY <3>2 DEF TakeOffer
      <4> HIDE DEF known
      <4> QED BY <1>4, <2>2, <4>2, <4>3
    <3> QED BY <1>11, <3>1, <3>2
  <2>4. Shown(t)' = Shown(t) \cup {m.from}
    BY <2>2, <2>3 DEF Shown
  <2>5. {m.from} \in SUBSET Users
    BY <2>2
  <2> QED BY <1>7, <2>2, <2>4, <2>5
<1>12. CASE TakeLeave(t, m)
  <2>1. m.from \in Users /\ m.from \in OwnersOf(Went)
    BY <1>2, <1>3, <1>12 DEF TakeLeave, TrueFor
  <2>2. \A u \in Users : pc'[t][u].on <=> pc[t][u].on /\ u # m.from
    BY <1>4, <1>6, <1>12, <2>1 DEF TakeLeave
  <2>3. Shown(t)' = Shown(t) \ {m.from}
    BY <2>2 DEF Shown
  <2>4. seen' = [seen EXCEPT ![t] = @ \ {m.from}]
    BY <1>5, <2>3 DEF Shown
  <2>5. Roll!Forget(t, m.from)
    BY <1>1, <2>1, <2>4 DEF Roll!Forget, OwnersOf
  <2> QED BY <2>1, <2>5 DEF Roll!Next
<1> QED BY <1>9, <1>10, <1>11, <1>12 DEF Receive, m

LEMMA BrowserAttends ==
    ASSUME TypeOK, Credible, NEW t \in Tabs, Browser(t)
    PROVE  Roll!Next \/ UNCHANGED Roll!avars
<1> DEFINE seen == [s \in Tabs |-> Shown(s)]
           closed == {s \in Tabs : ws[s] = "closed"}
<1>0. /\ pc \in [Tabs -> [Users -> Conns]] /\ broken \in [Tabs -> SUBSET Users]
      /\ ws \in [Tabs -> {"none", "connecting", "open", "closed"}]
  BY DEF TypeOK
<1>1. UNCHANGED stage
  BY DEF Browser, Mount, Opened, AcquireMedia, ToggleMic, Receive, Leave, Negotiate,
         ConnectionFails, hub
<1>2. UNCHANGED <<Came, Went>>
  BY <1>1 DEF Came, Went
<1>3. CASE Mount(t) \/ Opened(t)
  <2>1. UNCHANGED <<pc, broken>> /\ closed' = closed
    BY <1>0, <1>3 DEF Mount, Opened, view
  <2>2. seen' = seen
    BY <2>1 DEF Shown
  <2> QED BY <1>2, <2>1, <2>2 DEF Roll!avars
<1>4. CASE AcquireMedia(t) \/ ToggleMic(t)
  <2>1. UNCHANGED <<pc, broken, ws>>
    BY <1>4 DEF AcquireMedia, ToggleMic, view
  <2>2. seen' = seen
    BY <2>1 DEF Shown
  <2> QED BY <1>2, <2>1, <2>2 DEF Roll!avars
<1>5. CASE Receive(t)
  BY <1>5, ReceiveAttends
<1>6. CASE Leave(t)
  <2>1. closed' = closed \cup {t} /\ UNCHANGED broken
    BY <1>0, <1>6 DEF Leave
  <2>2. Shown(t)' = {} /\ \A s \in Tabs \ {t} : Shown(s)' = Shown(s)
    BY <1>0, <1>6 DEF Leave, Shown, NoConn
  <2>3. seen' = [seen EXCEPT ![t] = {}]
    BY <2>2
  <2>4. Roll!Close(t)
    BY <1>2, <2>1, <2>3 DEF Roll!Close
  <2> QED BY <2>4 DEF Roll!Next
<1>7. ASSUME NEW u \in Users, Negotiate(t, u) PROVE UNCHANGED Roll!avars
  <2>1. UNCHANGED <<ws, broken>>
    BY <1>7 DEF Negotiate
  <2>2. \A s \in Tabs, v \in Users : pc'[s][v].on <=> pc[s][v].on
    <3>1. pc' = [pc EXCEPT ![t][u] = [pc[t][u] EXCEPT !.sig = "offered"]]
      BY <1>7 DEF Negotiate
    <3>2. [pc[t][u] EXCEPT !.sig = "offered"].on = pc[t][u].on
      BY <1>0 DEF Conns, NoConn
    <3> QED BY <1>0, <3>1, <3>2
  <2>3. \A s \in Tabs : Shown(s)' = Shown(s)
    BY <2>2 DEF Shown
  <2> QED BY <1>2, <2>1, <2>3 DEF Roll!avars
<1>8. ASSUME NEW u \in Users, ConnectionFails(t, u) PROVE Roll!Next
  <2>1. UNCHANGED ws /\ broken' = [broken EXCEPT ![t] = @ \cup {u}]
    BY <1>8 DEF ConnectionFails
  <2>2. Shown(t)' = Shown(t) \ {u} /\ \A s \in Tabs \ {t} : Shown(s)' = Shown(s)
    BY <1>0, <1>8 DEF ConnectionFails, Shown, NoConn
  <2>3. seen' = [seen EXCEPT ![t] = @ \ {u}]
    BY <2>2
  <2>4. Roll!Break(t, u)
    BY <1>2, <2>1, <2>3 DEF Roll!Break
  <2> QED BY <2>4 DEF Roll!Next
<1> QED BY <1>3, <1>4, <1>5, <1>6, <1>7, <1>8 DEF Browser

(* Whoever a tab shows has come to the call, whoever goes from view has    *)
(* gone or lost the link, and only those whose tab was closed go: the call *)
(* implements Attendance.                                                  *)
THEOREM Refinement == Spec => Attends
<1>1. Init => Roll!Init
  BY DEF Init, Roll!Init, Came, Went, Shown, NoConn
<1>2. ASSUME UNCHANGED vars PROVE UNCHANGED Roll!avars
  BY <1>2 DEF vars, hub, view, Roll!avars, Came, Went, Shown
<1>3. ASSUME TypeOK, Credible, [Next]_vars PROVE [Roll!Next]_(Roll!avars)
  BY <1>2, <1>3, HandlerAttends, BrowserAttends DEF Next
<1> QED BY <1>1, <1>3, TypeCorrect, CredibleHolds, PTL DEF Spec, Attends, Roll!Spec


-----------------------------------------------------------------------------
(* What a step of a handler leaves alone, and of a browser.                *)

LEMMA HandlerFrame ==
    ASSUME TypeOK, NEW t \in Tabs, Handler(t)
    PROVE  /\ UNCHANGED <<ws, pc, pending, broken, media, micOn, unsent>>
           /\ \A s \in Tabs \ {t} :
                 /\ stage'[s] = stage[s] /\ room'[s] = room[s] /\ outbox'[s] = outbox[s]
                 /\ up'[s] = up[s] /\ muted'[s] = muted[s] /\ elders'[s] = elders[s]
<1>1. CASE Enter(t)
  BY <1>1 DEF Enter, TypeOK, net, view, button
<1>2. CASE AddPeer(t)
  BY <1>2 DEF AddPeer, TypeOK, net, view, button
<1>3. CASE SendPresence(t)
  BY <1>3 DEF SendPresence, Send, TypeOK, view, button
<1>4. CASE SendRosterState(t)
  BY <1>4 DEF SendRosterState, Send, TypeOK, view, button
<1>5. CASE AnnounceJoin(t)
  BY <1>5 DEF AnnounceJoin, Send, TypeOK, view, button
<1>6. CASE Deliver(t)
  BY <1>6 DEF Deliver, TypeOK, hub, view, button
<1>7. CASE Route(t)
  BY <1>7 DEF Route, Send, TypeOK, view, button
<1>8. CASE EndServe(t) \/ RemovePeer(t) \/ CheckEmpty(t) \/ DeleteRoom(t)
  BY <1>8 DEF EndServe, RemovePeer, CheckEmpty, DeleteRoom, TypeOK, net, view, button
<1>9. CASE AnnounceLeave(t)
  BY <1>9 DEF AnnounceLeave, Send, TypeOK, view, button
<1> QED BY <1>1, <1>2, <1>3, <1>4, <1>5, <1>6, <1>7, <1>8, <1>9 DEF Handler

LEMMA BrowserFrame ==
    ASSUME TypeOK, NEW t \in Tabs, Browser(t)
    PROVE  /\ UNCHANGED <<rooms, peers, room, stage, muted, outbox, lost, elders>>
           /\ \A s \in Tabs \ {t} :
                 /\ queue'[s] = queue[s] /\ up'[s] = up[s] /\ ws'[s] = ws[s] /\ pc'[s] = pc[s]
                 /\ broken'[s] = broken[s] /\ micOn'[s] = micOn[s] /\ (s \in unsent' <=> s \in unsent)
<1>1. UNCHANGED hub /\ UNCHANGED <<outbox, lost, elders>>
  BY DEF Browser, Mount, Opened, AcquireMedia, ToggleMic, Receive, Leave, Negotiate,
         ConnectionFails, net, hub
<1>2. CASE Mount(t) \/ Opened(t) \/ AcquireMedia(t)
  BY <1>1, <1>2 DEF Mount, Opened, AcquireMedia, TypeOK, hub, net, view, button
<1>3. CASE ToggleMic(t)
  BY <1>1, <1>3 DEF ToggleMic, SendSignal, TypeOK, hub, net, view
<1>4. CASE Receive(t)
  <2> DEFINE m == Head(queue[t])
  <2>1. m \in Messages
    BY <1>4, ReadQueue DEF Receive, TypeOK
  <2>2. m.type \notin {"presence", "roster_state"} => m.from \in Users
    BY <2>1 DEF Messages, Lists, News
  <2>3. TakePresence(t, m) \/ TakeRosterState(t, m) \/ TakeMediaState(t, m)
          \/ TakeJoin(t, m) \/ TakeLeave(t, m) \/ TakeOffer(t, m) \/ TakeAnswer(t, m)
    BY <1>4 DEF Receive
  <2> HIDE DEF m
  <2>4. \A s \in Tabs \ {t} : pc'[s] = pc[s] /\ up'[s] = up[s]
    BY <2>2, <2>3 DEF TakePresence, TakeRosterState, TakeMediaState, TakeJoin, TakeLeave,
       TakeOffer, TakeAnswer, SendSignal, TypeOK
  <2> QED BY <1>1, <1>4, <2>4 DEF Receive, TypeOK, hub, button
<1>5. CASE Leave(t)
  BY <1>1, <1>5 DEF Leave, TypeOK, hub, button
<1>6. CASE \E u \in Users : Negotiate(t, u)
  BY <1>1, <1>6 DEF Negotiate, SendSignal, TypeOK, hub, net, button
<1>7. CASE \E u \in Users : ConnectionFails(t, u)
  BY <1>1, <1>7 DEF ConnectionFails, TypeOK, hub, net, button
<1> QED BY <1>2, <1>3, <1>4, <1>5, <1>6, <1>7 DEF Browser, hub

(* A handler goes on, and does not come back.                              *)
LEMMA HandlerGoesOn ==
    ASSUME TypeOK, NEW t \in Tabs, Handler(t), NEW s \in Tabs
    PROVE  /\ s \in Came => s \in Came'
           /\ stage[s] \in Served => stage'[s] \in Served
           /\ stage[s] = "ended" => stage'[s] = "ended"
           /\ stage'[s] = "none" => stage[s] = "none"
<1>0. stage \in [Tabs -> Stages]
  BY DEF TypeOK
<1>1. CASE Deliver(t) \/ Route(t)
  BY <1>1 DEF Deliver, Route, hub, Came
<1>2. CASE Enter(t) \/ AddPeer(t)
  BY <1>0, <1>2 DEF Enter, AddPeer, Came, Served
<1>3. CASE SendPresence(t) \/ SendRosterState(t) \/ AnnounceJoin(t)
  BY <1>0, <1>3 DEF SendPresence, SendRosterState, AnnounceJoin, Came, Served
<1>4. CASE EndServe(t) \/ RemovePeer(t) \/ CheckEmpty(t) \/ DeleteRoom(t) \/ AnnounceLeave(t)
  BY <1>0, <1>4 DEF EndServe, RemovePeer, CheckEmpty, DeleteRoom, AnnounceLeave, Came, Served
<1> QED BY <1>1, <1>2, <1>3, <1>4 DEF Handler

(* One message reaches its queue, or finds it full.                        *)
LEMMA Delivery ==
    ASSUME TypeOK, NEW t \in Tabs, Deliver(t)
    PROVE  \E p \in Tabs, m \in Messages :
             /\ <<p, m>> \in outbox[t]
             /\ outbox'[t] = outbox[t] \ {<<p, m>>}
             /\ \A s \in Tabs \ {p} : queue'[s] = queue[s]
             /\ \/ queue'[p] = Append(queue[p], m) /\ lost' = lost
                \/ queue'[p] = queue[p] /\ lost' = lost \cup {p}
             /\ UNCHANGED <<rooms, peers, room, stage, muted, up, ws, elders>>
<1>1. PICK send \in outbox[t] :
           /\ outbox' = [outbox EXCEPT ![t] = @ \ {send}]
           /\ \/ /\ queue' = [queue EXCEPT ![send[1]] = Append(@, send[2])]
                 /\ UNCHANGED lost
              \/ /\ lost' = lost \cup {send[1]}
                 /\ UNCHANGED queue
  BY DEF Deliver
<1>2. /\ outbox \in [Tabs -> SUBSET (Tabs \X Messages)] /\ queue \in [Tabs -> Seq(Messages)]
  BY DEF TypeOK
<1>3. PICK p \in Tabs, m \in Messages : send = <<p, m>>
  BY <1>2
<1>4. UNCHANGED <<rooms, peers, room, stage, muted, up, ws, elders>>
  BY DEF Deliver, hub
<1> QED BY <1>1, <1>2, <1>3, <1>4

(* A handler has something to send, to each of "to".                       *)
LEMMA Sends ==
    ASSUME TypeOK, NEW t \in Tabs, NEW m, NEW to, Send(t, m, to)
    PROVE  /\ outbox'[t] = {<<p, m>> : p \in to}
           /\ \A s \in Tabs \ {t} : outbox'[s] = outbox[s]
  BY DEF Send, TypeOK

-----------------------------------------------------------------------------
(* Wired is an invariant.                                                  *)

(* What a message is, by its type: only news has a sender.                 *)
LEMMA MessageTypes ==
    ASSUME NEW m \in Messages
    PROVE  /\ m.type \in {"presence", "roster_state", "media_state", "join", "leave", "offer", "answer"}
           /\ m.type \in {"presence", "roster_state"} => m.from = None
           /\ m.type \notin {"presence", "roster_state"} => m.from \in Users
  BY DEF Messages, Lists, News

(* What is sent to the others goes to those who are peers of one callRoom. *)
LEMMA OthersPresent ==
    ASSUME TypeOK, PeersWired, NEW t \in Tabs, room[t] # None
    PROVE  /\ \A s \in Others(t) : /\ s \in Tabs \ {t} /\ room[s] = room[t] /\ s \in Came
                                   /\ peers[room[t]][Owner[s]] = s
           /\ \A s \in Tabs \ {t} : Present(s) /\ room[s] = room[t] => s \in Others(t)
<1>1. room[t] \in Tabs /\ \A u \in Users : peers[room[t]][u] \in Tabs \cup {None}
  BY DEF TypeOK
<1>2. ASSUME NEW s \in Others(t)
      PROVE  /\ s \in Tabs \ {t} /\ room[s] = room[t] /\ s \in Came
             /\ peers[room[t]][Owner[s]] = s
  <2>1. PICK u \in Users : peers[room[t]][u] = s /\ s # None /\ s # t
    BY DEF Others
  <2>2. /\ Owner[s] = u /\ room[s] = room[t] /\ stage[s] \in InCall \cup {"leaving"}
    BY <1>1, <2>1 DEF PeersWired
  <2> QED BY <1>1, <2>1, <2>2 DEF InCall, Came
<1>3. ASSUME NEW s \in Tabs \ {t}, Present(s), room[s] = room[t] PROVE s \in Others(t)
  BY <1>3, TabsAndUsers DEF Present, Others
<1> QED BY <1>2, <1>3

(* At the other stages a handler has nothing left to send.                 *)
LEMMA IdleStages ==
    ASSUME TypeOK, OutboxesWired, NEW t \in Tabs,
           stage[t] \notin {"greeted", "listed", "serving", "ended"}
    PROVE  outbox[t] = {}
<1> SUFFICES ASSUME NEW send \in outbox[t] PROVE FALSE
  OBVIOUS
<1>1. Posted(t, send[1], send[2]) /\ send[2] \in Messages
  BY DEF OutboxesWired, TypeOK
<1> QED BY <1>1, MessageTypes DEF Posted

(* A step of one handler leaves what the others are sending.               *)
LEMMA PostedStays ==
    ASSUME TypeOK, NEW t \in Tabs, Handler(t), OutboxesWired, NEW s \in Tabs \ {t}
    PROVE  /\ \A send \in outbox'[s] : Posted(s, send[1], send[2])'
           /\ \A x, y \in outbox'[s] : x[2] = y[2]
<1>1. outbox'[s] = outbox[s] /\ stage'[s] = stage[s]
  BY HandlerFrame
<1>2. Came \subseteq Came'
  BY StagesGoOn
<1> QED BY <1>1, <1>2 DEF OutboxesWired, Posted

(* A handler sends what belongs to the stage it has reached.               *)
LEMMA HandlerOutboxes ==
    ASSUME TypeOK, Wired, NEW t \in Tabs, Handler(t)
    PROVE  OutboxesWired'
<1>0. OutboxesWired /\ PeersWired /\ outbox \in [Tabs -> SUBSET (Tabs \X Messages)]
  BY DEF Wired, TypeOK
<1> DEFINE Fine(s) == /\ \A send \in outbox'[s] : Posted(s, send[1], send[2])'
                      /\ \A x, y \in outbox'[s] : x[2] = y[2]
<1>1. SUFFICES Fine(t)
  BY <1>0, PostedStays DEF OutboxesWired
<1>2. ASSUME outbox'[t] = {} PROVE Fine(t)
  BY <1>2
<1>3. ASSUME NEW m, NEW to, Send(t, m, to), \A p \in to : Posted(t, p, m)' PROVE Fine(t)
  <2>1. outbox'[t] = {<<p, m>> : p \in to}
    BY <1>3, Sends
  <2> QED BY <1>3, <2>1
<1>4. Came \subseteq Came' /\ stage \in [Tabs -> Stages]
  BY StagesGoOn DEF TypeOK
<1> HIDE DEF Fine
<1>5. CASE Enter(t) \/ AddPeer(t) \/ EndServe(t) \/ RemovePeer(t) \/ CheckEmpty(t) \/ DeleteRoom(t)
  <2>1. outbox[t] = {}
    BY <1>0, <1>5, IdleStages DEF Enter, AddPeer, EndServe, RemovePeer, CheckEmpty, DeleteRoom, Idle
  <2>2. outbox' = outbox
    BY <1>5 DEF Enter, AddPeer, EndServe, RemovePeer, CheckEmpty, DeleteRoom, net
  <2> QED BY <1>2, <2>1, <2>2
<1>6. CASE SendPresence(t)
  <2>1. PICK m, to : Send(t, m, to) /\ to = {t} /\ m.type = "presence"
    BY <1>6 DEF SendPresence, Listing
  <2>2. stage'[t] = "greeted" /\ t \in Came'
    BY <1>4, <1>6 DEF SendPresence, Came
  <2>3. \A p \in to : Posted(t, p, m)'
    BY <2>1, <2>2 DEF Posted
  <2> QED BY <1>3, <2>1, <2>3
<1>7. CASE SendRosterState(t)
  <2>1. PICK m, to : Send(t, m, to) /\ to = {t} /\ m.type = "roster_state"
    BY <1>7 DEF SendRosterState, Listing
  <2>2. stage'[t] = "listed" /\ t \in Came'
    BY <1>4, <1>7 DEF SendRosterState, Came
  <2>3. \A p \in to : Posted(t, p, m)'
    BY <2>1, <2>2 DEF Posted
  <2> QED BY <1>3, <2>1, <2>3
<1>8. CASE AnnounceJoin(t) \/ AnnounceLeave(t)
  <2>1. room[t] # None
    BY <1>8 DEF AnnounceJoin, AnnounceLeave, TypeOK
  <2>2. \A p \in Others(t) : p \in Came'
    BY <1>0, <1>4, <2>1, OthersPresent
  <2>3. CASE AnnounceJoin(t)
    <3>1. PICK m, to : Send(t, m, to) /\ to = Others(t) /\ Says(m, "join", Owner[t])
      BY <2>3 DEF AnnounceJoin, Notice, Says
    <3>2. stage'[t] = "serving"
      BY <1>4, <2>3 DEF AnnounceJoin
    <3>3. \A p \in to : Posted(t, p, m)'
      BY <2>2, <3>1, <3>2 DEF Posted, Says
    <3> QED BY <1>3, <3>1, <3>3
  <2>4. CASE AnnounceLeave(t)
    <3>1. PICK m, to : Send(t, m, to) /\ to = Others(t) /\ Says(m, "leave", Owner[t])
      BY <2>4 DEF AnnounceLeave, Notice, Says
    <3>2. stage'[t] = "ended"
      BY <1>4, <2>4 DEF AnnounceLeave
    <3>3. \A p \in to : Posted(t, p, m)'
      BY <2>2, <3>1, <3>2 DEF Posted, Says
    <3> QED BY <1>3, <3>1, <3>3
  <2> QED BY <1>8, <2>3, <2>4
<1>9. CASE Deliver(t)
  <2>1. outbox'[t] \subseteq outbox[t] /\ stage' = stage
    BY <1>9, Delivery
  <2>2. \A send \in outbox'[t] : Posted(t, send[1], send[2])'
    BY <1>0, <1>4, <2>1 DEF OutboxesWired, Posted
  <2>3. \A x, y \in outbox'[t] : x[2] = y[2]
    BY <1>0, <2>1 DEF OutboxesWired
  <2> QED BY <2>2, <2>3 DEF Fine
<1>10. CASE Route(t)
  <2> DEFINE m == Head(up[t])
  <2>0. stage[t] = "serving" /\ stage' = stage /\ room[t] \in Tabs
    BY <1>10 DEF Route, TypeOK
  <2>1. m \in Signals
    BY <1>10, ReadQueue DEF Route, TypeOK
  <2>2. PICK n, to :
           /\ Send(t, n, to) /\ Says(n, m.type, Owner[t])
           /\ \/ to = Others(t)
              \/ m.type # "media_state" /\ to = {peers[room[t]][m.to]} \ {None}
    BY <1>10 DEF Route, Notice, Says
  <2>3. m.type \in {"media_state", "offer", "answer"} /\ (m.type # "media_state" => m.to \in Users)
    BY <2>1 DEF Signals
  <2> HIDE DEF m
  <2>4. \A p \in to : p \in Came
    <3>1. CASE to = Others(t)
      BY <1>0, <2>0, <3>1, OthersPresent, MeetAssumption
    <3>2. CASE m.type # "media_state" /\ to = {peers[room[t]][m.to]} \ {None}
      <4>1. ASSUME NEW p \in to PROVE p \in Came
        <5>1. p = peers[room[t]][m.to] /\ p # None
          BY <3>2
        <5>2. stage[p] \in InCall \cup {"leaving"} /\ p \in Tabs
          BY <1>0, <2>0, <2>3, <3>2, <5>1 DEF PeersWired, TypeOK
        <5> QED BY <5>2 DEF Came, InCall
      <4> QED BY <4>1
    <3> QED BY <2>2, <3>1, <3>2
  <2>5. \A p \in to : Posted(t, p, n)'
    BY <1>4, <2>0, <2>2, <2>3, <2>4 DEF Posted, Says
  <2> QED BY <1>3, <2>2, <2>5
<1> QED BY <1>5, <1>6, <1>7, <1>8, <1>9, <1>10 DEF Handler

(* A peer is a tab of that user, in that callRoom and still in the call.   *)
LEMMA HandlerPeers ==
    ASSUME TypeOK, Wired, NEW t \in Tabs, Handler(t)
    PROVE  PeersWired'
<1>0. /\ PeersWired /\ stage \in [Tabs -> Stages] /\ peers \in [Tabs -> [Users -> Tabs \cup {None}]]
      /\ room \in [Tabs -> Tabs \cup {None}] /\ Owner[t] \in Users
  BY TabsAndUsers DEF Wired, TypeOK
<1>1. \A s \in Tabs \ {t} : stage'[s] = stage[s] /\ room'[s] = room[s]
  BY HandlerFrame
<1>2. ASSUME UNCHANGED <<peers, room>>,
             stage[t] \in InCall \cup {"leaving"} => stage'[t] \in InCall \cup {"leaving"}
      PROVE  PeersWired'
  BY <1>0, <1>1, <1>2 DEF PeersWired
<1>3. CASE Enter(t)
  <2>1. peers' = peers /\ stage[t] = "none"
    BY <1>3 DEF Enter
  <2>2. \A r \in Tabs, u \in Users : peers[r][u] # t
    BY <1>0, <2>1, MeetAssumption DEF PeersWired, InCall
  <2> QED BY <1>0, <1>1, <2>1, <2>2 DEF PeersWired
<1>4. CASE AddPeer(t)
  <2>1. room' = room /\ stage'[t] = "added" /\ room[t] \in Tabs
    BY <1>0, <1>4 DEF AddPeer, TypeOK
  <2>2. \A r \in Tabs, u \in Users : peers'[r][u] = IF r = room[t] /\ u = Owner[t] THEN t ELSE peers[r][u]
    BY <1>0, <1>4, <2>1 DEF AddPeer
  <2> QED BY <1>0, <1>1, <2>1, <2>2 DEF PeersWired, InCall
<1>5. CASE RemovePeer(t)
  <2>1. room' = room /\ room[t] \in Tabs
    BY <1>0, <1>5 DEF RemovePeer, TypeOK
  <2>2. \A r \in Tabs, u \in Users : peers'[r][u] = IF r = room[t] /\ u = Owner[t] THEN None ELSE peers[r][u]
    BY <1>0, <1>5, <2>1 DEF RemovePeer
  <2>3. \A r \in Tabs, u \in Users : peers[r][u] = t => r = room[t] /\ u = Owner[t]
    BY <1>0, MeetAssumption DEF PeersWired
  <2> QED BY <1>0, <1>1, <2>1, <2>2, <2>3 DEF PeersWired
<1>6. CASE SendPresence(t) \/ SendRosterState(t) \/ AnnounceJoin(t) \/ EndServe(t)
  BY <1>0, <1>2, <1>6 DEF SendPresence, SendRosterState, AnnounceJoin, EndServe, InCall
<1>7. CASE CheckEmpty(t) \/ DeleteRoom(t) \/ AnnounceLeave(t)
  BY <1>0, <1>2, <1>7 DEF CheckEmpty, DeleteRoom, AnnounceLeave, InCall
<1>8. CASE Deliver(t) \/ Route(t)
  BY <1>0, <1>2, <1>8 DEF Deliver, Route, hub
<1> QED BY <1>3, <1>4, <1>5, <1>6, <1>7, <1>8 DEF Handler

(* Only a delivery changes a queue.                                        *)
LEMMA QueuesKept ==
    ASSUME NEW t \in Tabs, Handler(t), ~Deliver(t)
    PROVE  UNCHANGED <<queue, lost>>
  BY DEF Handler, Enter, AddPeer, SendPresence, SendRosterState, AnnounceJoin, Route, EndServe,
     RemovePeer, CheckEmpty, DeleteRoom, AnnounceLeave, net

(* Who has spoken has still been served after a step.                      *)
LEMMA SpokenStays ==
    ASSUME TypeOK, NEW t \in Tabs, Handler(t), NEW m, Spoken(m)
    PROVE  Spoken(m)'
<1>1. \A s \in Tabs : /\ stage[s] \in Served => stage'[s] \in Served
                      /\ stage[s] = "ended" => stage'[s] = "ended"
  BY HandlerGoesOn
<1> QED BY <1>1 DEF Spoken

(* What a handler puts in a queue comes from a tab that was served.        *)
LEMMA HandlerQueues ==
    ASSUME TypeOK, Wired, NEW t \in Tabs, Handler(t)
    PROVE  QueuesWired'
<1>0. QueuesWired /\ OutboxesWired /\ queue \in [Tabs -> Seq(Messages)] /\ Came \subseteq Came'
  BY StagesGoOn DEF Wired, TypeOK
<1>1. CASE Deliver(t)
  <2>1. PICK p \in Tabs, m \in Messages :
             /\ <<p, m>> \in outbox[t]
             /\ \A s \in Tabs \ {p} : queue'[s] = queue[s]
             /\ queue'[p] = Append(queue[p], m) \/ queue'[p] = queue[p]
    BY <1>1, Delivery
  <2>2. Posted(t, p, m)
    BY <1>0, <2>1 DEF OutboxesWired
  <2>3. p \in Came /\ Spoken(m)
    BY <2>2, MessageTypes DEF Posted, Spoken, Served
  <2>4. ASSUME NEW s \in Tabs, NEW i \in DOMAIN queue'[s] PROVE Spoken(queue'[s][i])
    <3>0. queue[p] \in Seq(Messages)
      BY <1>0
    <3>1. CASE queue'[s] = queue[s]
      BY <1>0, <2>4, <3>1 DEF QueuesWired
    <3>2. CASE s = p /\ queue'[p] = Append(queue[p], m)
      <4>1. \/ queue'[s][i] = m
            \/ i \in DOMAIN queue[p] /\ queue'[s][i] = queue[p][i]
        BY <2>4, <3>0, <3>2, AppendQueue
      <4> QED BY <1>0, <2>3, <4>1 DEF QueuesWired
    <3> QED BY <2>1, <3>1, <3>2
  <2>5. \A s \in Tabs : queue'[s] # <<>> => s \in Came
    BY <1>0, <2>1, <2>3 DEF QueuesWired
  <2> QED BY <1>0, <2>4, <2>5, SpokenStays DEF QueuesWired
<1>2. CASE ~Deliver(t)
  <2>1. queue' = queue
    BY <1>2, QueuesKept
  <2> QED BY <1>0, <2>1, SpokenStays DEF QueuesWired
<1> QED BY <1>1, <1>2

(* Only Route reads a socket and records a microphone.                     *)
LEMMA HandlerTabs ==
    ASSUME TypeOK, Wired, NEW t \in Tabs, Handler(t)
    PROVE  TabsWired'
<1>0. /\ TabsWired /\ Came \subseteq Came' /\ UNCHANGED <<ws, pc>>
      /\ \A s \in Tabs \ {t} : stage'[s] = stage[s] /\ up'[s] = up[s] /\ muted'[s] = muted[s]
      /\ \A s \in Tabs : stage[s] \in Served => stage'[s] \in Served
  BY StagesGoOn, HandlerFrame, HandlerGoesOn DEF Wired
<1>1. /\ stage \in [Tabs -> Stages] /\ up \in [Tabs -> Seq(Signals)] /\ muted \in [Tabs -> BOOLEAN]
  BY DEF TypeOK
<1>2. stage[t] = "serving" => stage'[t] = "serving" \/ ws[t] = "closed"
  BY <1>1 DEF Handler, Enter, AddPeer, SendPresence, SendRosterState, AnnounceJoin, Deliver, Route,
     EndServe, RemovePeer, CheckEmpty, DeleteRoom, AnnounceLeave, hub
<1>3. ASSUME NEW s \in Tabs, NEW u \in Users, pc'[s][u].on
      PROVE  stage'[s] = "serving" /\ ws'[s] # "closed" /\ u \in OwnersOf(Came')
  <2>1. stage[s] = "serving" /\ ws[s] # "closed" /\ u \in OwnersOf(Came)
    BY <1>0, <1>3 DEF TabsWired
  <2> QED BY <1>0, <1>2, <2>1 DEF OwnersOf
<1>4. \A i \in DOMAIN up'[t] : \E j \in DOMAIN up[t] : up'[t][i] = up[t][j]
  <2>1. CASE Route(t)
    <3>1. up'[t] = Tail(up[t]) /\ up[t] # <<>> /\ up[t] \in Seq(Signals)
      BY <1>1, <2>1 DEF Route
    <3> QED BY <3>1, ReadQueue
  <2>2. CASE ~Route(t)
    <3>1. up' = up
      BY <2>2 DEF Handler, Enter, AddPeer, SendPresence, SendRosterState, AnnounceJoin, Deliver,
         EndServe, RemovePeer, CheckEmpty, DeleteRoom, AnnounceLeave
    <3> QED BY <3>1
  <2> QED BY <2>1, <2>2
<1>5. stage'[t] \notin Served => ~muted'[t]
  <2>1. CASE Route(t)
    BY <1>0, <1>1, <2>1 DEF Route, Served
  <2>2. CASE ~Route(t)
    <3>1. muted' = muted
      BY <2>2 DEF Handler, Enter, AddPeer, SendPresence, SendRosterState, AnnounceJoin, Deliver,
         EndServe, RemovePeer, CheckEmpty, DeleteRoom, AnnounceLeave, hub
    <3> QED BY <1>0, <3>1 DEF TabsWired
  <2> QED BY <2>1, <2>2
<1>6. ASSUME NEW s \in Tabs, NEW i \in DOMAIN up'[s], up'[s][i].type # "media_state"
      PROVE  up'[s][i].to \in OwnersOf(Came')
  <2>1. PICK j \in DOMAIN up[s] : up'[s][i] = up[s][j]
    BY <1>0, <1>4, <1>6
  <2> QED BY <1>0, <1>6, <2>1 DEF TabsWired, OwnersOf
<1>7. \A s \in Tabs : stage'[s] \notin Served => ~muted'[s]
  BY <1>0, <1>5 DEF TabsWired
<1>8. OwnersOf(Came)' = OwnersOf(Came')
  BY DEF OwnersOf
<1> QED BY <1>3, <1>6, <1>7, <1>8 DEF TabsWired

(* Those who were in the call before a tab came are other tabs, and served.*)
LEMMA HandlerElders ==
    ASSUME TypeOK, Wired, NEW t \in Tabs, Handler(t)
    PROVE  EldersWired'
<1>0. /\ EldersWired /\ Came \subseteq Came' /\ elders \in [Tabs -> SUBSET Tabs]
      /\ \A s \in Tabs \ {t} : elders'[s] = elders[s]
      /\ \A s \in Tabs : stage[s] \in Served => stage'[s] \in Served
  BY StagesGoOn, HandlerFrame, HandlerGoesOn DEF Wired, TypeOK
<1>1. CASE AddPeer(t)
  <2>1. elders'[t] = {s \in Tabs : stage[s] = "serving" /\ Present(s)} /\ stage[t] = "entered"
        /\ stage'[t] = "added"
    BY <1>1 DEF AddPeer, TypeOK
  <2>2. \A p \in elders'[t] : stage'[p] \in Served /\ t \in Came' /\ p # t
    BY <1>0, <2>1 DEF Served, Came
  <2> QED BY <1>0, <2>2 DEF EldersWired
<1>2. CASE ~AddPeer(t)
  <2>1. elders' = elders
    BY <1>2 DEF Handler, Enter, SendPresence, SendRosterState, AnnounceJoin, Deliver, Route,
       EndServe, RemovePeer, CheckEmpty, DeleteRoom, AnnounceLeave
  <2> QED BY <1>0, <2>1 DEF EldersWired
<1> QED BY <1>1, <1>2

(* A browser takes what is first in its queue; closing it may take more.   *)
LEMMA BrowserTakes ==
    ASSUME TypeOK, NEW t \in Tabs, Browser(t), NEW s \in Tabs
    PROVE  \E n \in Nat :
             /\ \A i \in DOMAIN queue'[s] : i + n \in DOMAIN queue[s] /\ queue'[s][i] = queue[s][i + n]
             /\ \A i \in DOMAIN queue[s] : i > n => i - n \in DOMAIN queue'[s]
             /\ n > 0 => \/ s = t /\ n = 1 /\ Receive(t)
                         \/ s = t /\ Leave(t)
<1>0. queue \in [Tabs -> Seq(Messages)] /\ queue[s] \in Seq(Messages)
  BY DEF TypeOK
<1>1. CASE queue'[s] = queue[s]
  <2>1. \A i \in DOMAIN queue[s] : i + 0 = i /\ i - 0 = i
    BY <1>0
  <2> QED BY <1>1, <2>1
<1>2. CASE s = t /\ Receive(t)
  <2>1. queue'[t] = Tail(queue[t]) /\ queue[t] # <<>>
    BY <1>0, <1>2 DEF Receive
  <2>2. /\ \A i \in DOMAIN queue'[s] : i + 1 \in DOMAIN queue[s] /\ queue'[s][i] = queue[s][i + 1]
        /\ \A i \in DOMAIN queue[s] : i > 1 => i - 1 \in DOMAIN queue'[s]
    BY <1>0, <1>2, <2>1, ReadQueue
  <2> QED BY <1>2, <2>2
<1>3. CASE s = t /\ Leave(t)
  <2>1. PICK n \in 0..Len(queue[t]) : queue'[t] = SubSeq(queue[t], n + 1, Len(queue[t]))
    BY <1>0, <1>3 DEF Leave
  <2>2. n \in Nat
    BY <1>0, <1>3
  <2>3. /\ \A i \in DOMAIN queue'[s] : i + n \in DOMAIN queue[s] /\ queue'[s][i] = queue[s][i + n]
        /\ \A i \in DOMAIN queue[s] : i > n => i - n \in DOMAIN queue'[s]
    BY <1>0, <1>3, <2>1, CutQueue
  <2> QED BY <1>3, <2>2, <2>3
<1>4. s # t => queue'[s] = queue[s]
  BY BrowserFrame
<1>5. ~Receive(t) /\ ~Leave(t) => queue' = queue
  BY DEF Browser, Mount, Opened, AcquireMedia, ToggleMic, Negotiate, ConnectionFails, net
<1> QED BY <1>1, <1>2, <1>3, <1>4, <1>5

(* A connection and what changes of it.                                    *)
LEMMA ConnFields ==
    /\ ~NoConn.on
    /\ \A t \in Tabs : \A polite \in BOOLEAN :
          LET c == Conn(t, polite) IN
            /\ c.on /\ (c.polite <=> polite) /\ c.sig = "new" /\ ~c.muted
            /\ LET d == [c EXCEPT !.sig = "answered"] IN
                 d.on /\ (d.polite <=> polite) /\ d.sig = "answered" /\ ~d.muted
    /\ \A c \in Conns : c.on =>
         \A g : LET d == [c EXCEPT !.sig = g] IN
              d.on /\ (d.polite <=> c.polite) /\ d.sig = g /\ (d.muted <=> c.muted)
<1>1. ~NoConn.on
  BY DEF NoConn
<1>2. ASSUME NEW t \in Tabs, NEW polite \in BOOLEAN
      PROVE  LET c == Conn(t, polite) IN
            /\ c.on /\ (c.polite <=> polite) /\ c.sig = "new" /\ ~c.muted
            /\ LET d == [c EXCEPT !.sig = "answered"] IN
                 d.on /\ (d.polite <=> polite) /\ d.sig = "answered" /\ ~d.muted
  BY <1>2 DEF Conn
<1>3. ASSUME NEW c \in Conns, c.on
      PROVE  c \in [on : {TRUE}, polite : BOOLEAN, tracks : BOOLEAN,
                    sig : {"new", "offered", "answered", "agreed"}, muted : BOOLEAN]
  BY <1>1, <1>3 DEF Conns
<1>4. ASSUME NEW c \in Conns, c.on
      PROVE  \A g : LET d == [c EXCEPT !.sig = g] IN
                  d.on /\ (d.polite <=> c.polite) /\ d.sig = g /\ (d.muted <=> c.muted)
  BY <1>3, <1>4
<1> QED BY <1>1, <1>2, <1>4

(* A new flag on a connection changes nothing else of it.                  *)
LEMMA ConnFlag ==
    ASSUME NEW c \in Conns, c.on, NEW u, NEW off
    PROVE  LET d == [c EXCEPT !.muted = u \in off] IN
             d.on /\ (d.polite <=> c.polite) /\ d.sig = c.sig /\ (d.muted <=> u \in off)
<1>1. c \in [on : {TRUE}, polite : BOOLEAN, tracks : BOOLEAN,
             sig : {"new", "offered", "answered", "agreed"}, muted : BOOLEAN]
  BY ConnFields DEF Conns
<1>2. CASE u \in off
  <2>1. (u \in off) = TRUE
    BY <1>2
  <2>2. [c EXCEPT !.muted = u \in off] = [c EXCEPT !.muted = TRUE]
    BY <2>1
  <2> QED BY <1>1, <1>2, <2>2
<1>3. CASE u \notin off
  <2>1. (u \in off) = FALSE
    BY <1>3
  <2>2. [c EXCEPT !.muted = u \in off] = [c EXCEPT !.muted = FALSE]
    BY <2>1
  <2> QED BY <1>1, <1>3, <2>2
<1> QED BY <1>2, <1>3

(* What becomes of a tab's connection with u when the tab takes m.         *)
Becomes(t, u, m, old, new) ==
    /\ m.type = "presence" => new = IF u \in m.users /\ ~old.on THEN Conn(t, FALSE) ELSE old
    /\ m.type = "roster_state" =>
         new = IF u \in m.users /\ old.on THEN [old EXCEPT !.muted = u \in m.muted] ELSE old
    /\ m.type \notin {"presence", "roster_state"} /\ m.from # u => new = old
    /\ Says(m, "media_state", u) =>
         new = IF old.on THEN [old EXCEPT !.muted = u \in m.muted] ELSE old
    /\ Says(m, "join", u) => new = IF old.on THEN old ELSE Conn(t, TRUE)
    /\ Says(m, "leave", u) => new = NoConn
    /\ Says(m, "offer", u) =>
         new = [IF old.on THEN old ELSE Conn(t, TRUE) EXCEPT !.sig = "answered"]
    /\ Says(m, "answer", u) =>
         new = IF old.on /\ old.sig = "offered" THEN [old EXCEPT !.sig = "agreed"] ELSE old

(* The same, field by field.                                               *)
Flags(u, m) == (m.type = "roster_state" /\ u \in m.users) \/ Says(m, "media_state", u)

Turns(u, m, old, new) ==
    /\ new.on <=> ~Says(m, "leave", u) /\ (old.on \/ Shows(m, u) \/ Says(m, "offer", u))
    /\ old.on /\ new.on =>
         /\ new.polite <=> old.polite
         /\ Says(m, "offer", u) => new.sig = "answered"
         /\ Says(m, "answer", u) /\ old.sig = "offered" => new.sig = "agreed"
         /\ ~Says(m, "offer", u) /\ (Says(m, "answer", u) => old.sig # "offered") => new.sig = old.sig
         /\ Flags(u, m) => (new.muted <=> u \in m.muted)
         /\ ~Flags(u, m) => (new.muted <=> old.muted)
    /\ ~old.on /\ new.on =>
         /\ new.polite <=> m.type # "presence"
         /\ new.sig = IF Says(m, "offer", u) THEN "answered" ELSE "new"
         /\ ~new.muted

(* What a message does to each connection of the one who takes it.         *)
LEMMA ReceiveBecomes ==
    ASSUME TypeOK, NEW t \in Tabs, Receive(t), NEW u \in Users
    PROVE  Becomes(t, u, queue[t][1], pc[t][u], pc'[t][u])
<1> DEFINE m == queue[t][1]
<1>0. SUFFICES Becomes(t, u, m, pc[t][u], pc'[t][u])
  OBVIOUS
<1>1. m \in Messages /\ m = Head(queue[t])
  BY ReadQueue DEF Receive, TypeOK
<1>2. /\ m.type \in {"presence", "roster_state", "media_state", "join", "leave", "offer", "answer"}
      /\ m.type \notin {"presence", "roster_state"} => m.from \in Users
  BY <1>1, MessageTypes
<1>3. TakePresence(t, m) \/ TakeRosterState(t, m) \/ TakeMediaState(t, m)
        \/ TakeJoin(t, m) \/ TakeLeave(t, m) \/ TakeOffer(t, m) \/ TakeAnswer(t, m)
  BY <1>1 DEF Receive
<1>4. pc \in [Tabs -> [Users -> Conns]] /\ pc[t] \in [Users -> Conns]
  BY DEF TypeOK
<1> HIDE DEF m
<1>5. CASE TakePresence(t, m)
  <2>1. pc'[t][u] = IF u \in m.users /\ ~pc[t][u].on THEN Conn(t, FALSE) ELSE pc[t][u]
    BY <1>4, <1>5 DEF TakePresence
  <2> QED BY <1>5, <2>1 DEF TakePresence, Says, Becomes
<1>6. CASE TakeRosterState(t, m)
  <2>1. pc'[t][u] = IF u \in m.users /\ pc[t][u].on THEN [pc[t][u] EXCEPT !.muted = u \in m.muted] ELSE pc[t][u]
    BY <1>4, <1>6 DEF TakeRosterState
  <2> QED BY <1>6, <2>1 DEF TakeRosterState, Says, Becomes
<1>7. CASE TakeMediaState(t, m)
  <2>1. pc'[t][u] = IF m.from = u /\ pc[t][u].on THEN [pc[t][u] EXCEPT !.muted = u \in m.muted] ELSE pc[t][u]
    BY <1>2, <1>4, <1>7 DEF TakeMediaState
  <2> QED BY <1>7, <2>1 DEF TakeMediaState, Says, Becomes
<1>8. CASE TakeJoin(t, m)
  <2>1. pc'[t][u] = IF m.from = u /\ ~pc[t][u].on THEN Conn(t, TRUE) ELSE pc[t][u]
    BY <1>2, <1>4, <1>8 DEF TakeJoin
  <2> QED BY <1>8, <2>1 DEF TakeJoin, Says, Becomes
<1>9. CASE TakeLeave(t, m)
  <2>1. pc'[t][u] = IF m.from = u THEN NoConn ELSE pc[t][u]
    BY <1>2, <1>4, <1>9 DEF TakeLeave
  <2> QED BY <1>9, <2>1 DEF TakeLeave, Says, Becomes
<1>10. CASE TakeOffer(t, m)
  <2>1. pc'[t][u] = IF m.from = u THEN [IF pc[t][u].on THEN pc[t][u] ELSE Conn(t, TRUE) EXCEPT !.sig = "answered"] ELSE pc[t][u]
    BY <1>2, <1>4, <1>10 DEF TakeOffer
  <2> QED BY <1>10, <2>1 DEF TakeOffer, Says, Becomes
<1>11. CASE TakeAnswer(t, m)
  <2>1. pc'[t][u] = IF m.from = u /\ pc[t][u].on /\ pc[t][u].sig = "offered" THEN [pc[t][u] EXCEPT !.sig = "agreed"] ELSE pc[t][u]
    BY <1>2, <1>4, <1>11 DEF TakeAnswer
  <2> QED BY <1>11, <2>1 DEF TakeAnswer, Says, Becomes
<1> QED BY <1>3, <1>5, <1>6, <1>7, <1>8, <1>9, <1>10, <1>11 DEF m

(* The same, field by field.                                               *)
LEMMA BecomesTurns ==
    ASSUME NEW t \in Tabs, NEW u, NEW m \in Messages, NEW old \in Conns, NEW new,
           Becomes(t, u, m, old, new)
    PROVE  Turns(u, m, old, new)
<1>1. m.type \in {"presence", "roster_state", "media_state", "join", "leave", "offer", "answer"}
  BY MessageTypes
<1>2. CASE m.type = "presence"
  <2>1. CASE u \in m.users /\ ~old.on
    <3>1. new = Conn(t, FALSE)
      BY <1>2, <2>1 DEF Becomes
    <3>2. new.on /\ ~new.polite /\ new.sig = "new" /\ ~new.muted
      BY <3>1, ConnFields
    <3> QED BY <1>2, <2>1, <3>2 DEF Turns, Flags, Says, Shows
  <2>2. CASE ~(u \in m.users /\ ~old.on)
    BY <1>2, <2>2, ConnFields DEF Becomes, Turns, Flags, Says, Shows
  <2> QED BY <2>1, <2>2
<1>3. CASE m.type = "roster_state"
  <2>1. CASE u \in m.users /\ old.on
    <3>1. new = [old EXCEPT !.muted = u \in m.muted]
      BY <1>3, <2>1 DEF Becomes
    <3>2. new.on /\ (new.polite <=> old.polite) /\ new.sig = old.sig /\ (new.muted <=> u \in m.muted)
      BY <2>1, <3>1, ConnFlag
    <3> QED BY <1>3, <2>1, <3>2 DEF Turns, Flags, Says, Shows
  <2>2. CASE ~(u \in m.users /\ old.on)
    BY <1>3, <2>2, ConnFields DEF Becomes, Turns, Flags, Says, Shows
  <2> QED BY <2>1, <2>2
<1>4. CASE m.type \notin {"presence", "roster_state"} /\ m.from # u
  BY <1>4 DEF Becomes, Turns, Flags, Says, Shows
<1>5. CASE Says(m, "media_state", u)
  <2>1. CASE old.on
    <3>1. new = [old EXCEPT !.muted = u \in m.muted]
      BY <1>5, <2>1 DEF Becomes
    <3>2. new.on /\ (new.polite <=> old.polite) /\ new.sig = old.sig /\ (new.muted <=> u \in m.muted)
      BY <2>1, <3>1, ConnFlag
    <3> QED BY <1>5, <2>1, <3>2 DEF Turns, Flags, Says, Shows
  <2>2. CASE ~old.on
    BY <1>5, <2>2, ConnFields DEF Becomes, Turns, Flags, Says, Shows
  <2> QED BY <2>1, <2>2
<1>6. CASE Says(m, "join", u)
  <2>1. CASE old.on
    BY <1>6, <2>1, ConnFields DEF Becomes, Turns, Flags, Says, Shows
  <2>2. CASE ~old.on
    <3>1. new = Conn(t, TRUE)
      BY <1>6, <2>2 DEF Becomes
    <3>2. new.on /\ new.polite /\ new.sig = "new" /\ ~new.muted
      BY <3>1, ConnFields
    <3> QED BY <1>6, <2>2, <3>2 DEF Turns, Flags, Says, Shows
  <2> QED BY <2>1, <2>2
<1>7. CASE Says(m, "leave", u)
  BY <1>7, ConnFields DEF Becomes, Turns, Flags, Says, Shows
<1>8. CASE Says(m, "offer", u)
  <2>1. CASE old.on
    <3>1. new = [old EXCEPT !.sig = "answered"]
      BY <1>8, <2>1 DEF Becomes
    <3>2. new.on /\ (new.polite <=> old.polite) /\ new.sig = "answered" /\ (new.muted <=> old.muted)
      BY <2>1, <3>1, ConnFields
    <3> QED BY <1>8, <2>1, <3>2 DEF Turns, Flags, Says, Shows
  <2>2. CASE ~old.on
    <3>1. new = [Conn(t, TRUE) EXCEPT !.sig = "answered"]
      BY <1>8, <2>2 DEF Becomes
    <3>2. new.on /\ new.polite /\ new.sig = "answered" /\ ~new.muted
      BY <3>1, ConnFields
    <3> QED BY <1>8, <2>2, <3>2 DEF Turns, Flags, Says, Shows
  <2> QED BY <2>1, <2>2
<1>9. CASE Says(m, "answer", u)
  <2>1. CASE old.on /\ old.sig = "offered"
    <3>1. new = [old EXCEPT !.sig = "agreed"]
      BY <1>9, <2>1 DEF Becomes
    <3>2. new.on /\ (new.polite <=> old.polite) /\ new.sig = "agreed" /\ (new.muted <=> old.muted)
      BY <2>1, <3>1, ConnFields
    <3> QED BY <1>9, <2>1, <3>2 DEF Turns, Flags, Says, Shows
  <2>2. CASE ~(old.on /\ old.sig = "offered")
    BY <1>9, <2>2 DEF Becomes, Turns, Flags, Says, Shows
  <2> QED BY <2>1, <2>2
<1>10. \/ m.type \in {"presence", "roster_state"} \/ m.from # u
       \/ Says(m, "media_state", u) \/ Says(m, "join", u) \/ Says(m, "leave", u)
       \/ Says(m, "offer", u) \/ Says(m, "answer", u)
  BY <1>1 DEF Says
<1> QED BY <1>2, <1>3, <1>4, <1>5, <1>6, <1>7, <1>8, <1>9, <1>10

(* And so for a browser that takes the first in its queue.                 *)
LEMMA ReceiveTurns ==
    ASSUME TypeOK, NEW t \in Tabs, Receive(t), NEW u \in Users
    PROVE  /\ queue[t][1] \in Messages
           /\ Turns(u, queue[t][1], pc[t][u], pc'[t][u])
<1>1. queue[t] \in Seq(Messages) /\ queue[t] # <<>> /\ pc[t][u] \in Conns
  BY DEF Receive, TypeOK
<1>2. queue[t][1] \in Messages
  BY <1>1
<1>3. Becomes(t, u, queue[t][1], pc[t][u], pc'[t][u])
  BY ReceiveBecomes
<1> QED BY <1>1, <1>2, <1>3, BecomesTurns

(* What a browser shows anew it was told of, by a message or a list.       *)
LEMMA BrowserTabs ==
    ASSUME TypeOK, Wired, Credible, NEW t \in Tabs, Browser(t)
    PROVE  TabsWired'
<1>0. /\ TabsWired /\ UNCHANGED <<stage, muted>> /\ Came' = Came
      /\ \A s \in Tabs \ {t} : ws'[s] = ws[s] /\ up'[s] = up[s] /\ pc'[s] = pc[s]
  BY BrowserFrame DEF Wired, Came
<1>1. /\ pc \in [Tabs -> [Users -> Conns]] /\ up \in [Tabs -> Seq(Signals)]
      /\ ws \in [Tabs -> {"none", "connecting", "open", "closed"}]
  BY DEF TypeOK
<1> DEFINE u0 == OwnersOf(Came)
           Seen == \A u \in Users : pc'[t][u].on =>
                      pc[t][u].on \/ (stage[t] = "serving" /\ ws[t] = "open" /\ u \in u0)
           Told == \A i \in DOMAIN up'[t] :
                      up'[t][i].type # "media_state" =>
                         (\E j \in DOMAIN up[t] : up'[t][i] = up[t][j]) \/ up'[t][i].to \in u0
           Kept == ws'[t] # "closed" \/ \A u \in Users : ~pc'[t][u].on
<1>2. ASSUME Seen, Told, Kept PROVE TabsWired'
  <2>1. \A u \in Users : pc'[t][u].on => stage'[t] = "serving" /\ ws'[t] # "closed" /\ u \in u0
    BY <1>0, <1>2 DEF TabsWired
  <2>2. \A i \in DOMAIN up'[t] : up'[t][i].type # "media_state" => up'[t][i].to \in u0
    BY <1>0, <1>2 DEF TabsWired
  <2>3. OwnersOf(Came)' = u0
    BY <1>0 DEF OwnersOf
  <2> HIDE DEF u0
  <2> QED BY <1>0, <2>1, <2>2, <2>3 DEF TabsWired
<1>3. ASSUME NEW k, SendSignal(t, k), k \in Signals, k.type # "media_state" => k.to \in u0 PROVE Told
  <2>1. CASE up'[t] = up[t]
    BY <2>1
  <2>2. CASE up'[t] = Append(up[t], k)
    BY <1>1, <1>3, <2>2, AppendQueue
  <2> QED BY <1>1, <1>3, <2>1, <2>2 DEF SendSignal
<1>4. CASE Mount(t) \/ Opened(t) \/ AcquireMedia(t)
  <2>1. Seen /\ Told /\ Kept
    BY <1>0, <1>1, <1>4 DEF Mount, Opened, AcquireMedia, view, TabsWired
  <2> QED BY <1>2, <2>1
<1>5. CASE ToggleMic(t)
  <2>1. Seen /\ Kept
    BY <1>0, <1>5 DEF ToggleMic, view, TabsWired
  <2>2. PICK k : SendSignal(t, k) /\ k = [type |-> "media_state", to |-> None, off |-> micOn[t]]
    BY <1>5 DEF ToggleMic
  <2>3. k \in Signals /\ k.type = "media_state"
    BY <2>2 DEF Signals, TypeOK
  <2> QED BY <1>2, <1>3, <2>1, <2>2, <2>3
<1>6. CASE Leave(t)
  <2>1. \A u \in Users : ~pc'[t][u].on
    BY <1>1, <1>6 DEF Leave, NoConn
  <2>2. up' = up
    BY <1>6 DEF Leave
  <2> QED BY <1>2, <2>1, <2>2
<1>7. CASE \E u \in Users : ConnectionFails(t, u)
  <2>1. PICK u \in Users : ConnectionFails(t, u)
    BY <1>7
  <2>2. Seen /\ up' = up /\ ws' = ws
    BY <1>1, <2>1 DEF ConnectionFails, NoConn
  <2>3. Kept
    BY <1>0, <2>2 DEF TabsWired
  <2> QED BY <1>2, <2>2, <2>3
<1>8. CASE \E u \in Users : Negotiate(t, u)
  <2>1. PICK u \in Users : Negotiate(t, u)
    BY <1>8
  <2>2. Seen /\ ws' = ws /\ u \in u0
    BY <1>0, <1>1, <2>1 DEF Negotiate, TabsWired
  <2>3. PICK k : SendSignal(t, k) /\ k = [type |-> "offer", to |-> u, off |-> FALSE]
    BY <2>1 DEF Negotiate
  <2>4. k \in Signals /\ k.to \in u0
    BY <2>2, <2>3 DEF Signals
  <2>5. Kept
    BY <1>0, <2>2 DEF TabsWired
  <2> QED BY <1>2, <1>3, <2>2, <2>3, <2>4, <2>5
<1>9. CASE Receive(t)
  <2> DEFINE m == Head(queue[t])
  <2>1. m \in Messages /\ TrueFor(m, Came, Went)
    BY <1>9, ReadQueue DEF Receive, TypeOK, Credible
  <2>2. /\ stage[t] = "serving" /\ ws[t] = "open" /\ ws' = ws
        /\ TakePresence(t, m) \/ TakeRosterState(t, m) \/ TakeMediaState(t, m)
             \/ TakeJoin(t, m) \/ TakeLeave(t, m) \/ TakeOffer(t, m) \/ TakeAnswer(t, m)
    BY <1>9 DEF Receive
  <2>3. /\ m.users \subseteq u0
        /\ m.type \notin {"presence", "roster_state"} => m.from \in u0 /\ m.from \in Users
    BY <2>1, MessageTypes DEF TrueFor
  <2> HIDE DEF m, u0
  <2>4. Seen
    <3>1. m = queue[t][1]
      BY <1>9, ReadQueue DEF Receive, TypeOK, m
    <3> QED BY <1>9, <2>2, <2>3, <3>1, ReceiveTurns DEF Turns, Shows, Says
  <2>5. Told
    <3>1. CASE TakeOffer(t, m)
      <4>1. PICK k : SendSignal(t, k) /\ k = [type |-> "answer", to |-> m.from, off |-> FALSE]
        BY <3>1 DEF TakeOffer
      <4>2. k \in Signals /\ k.to \in u0
        BY <2>3, <3>1, <4>1 DEF Signals, TakeOffer
      <4> QED BY <1>3, <4>1, <4>2
    <3>2. CASE up' = up
      BY <3>2
    <3> QED BY <2>2, <3>1, <3>2 DEF TakePresence, TakeRosterState, TakeMediaState, TakeJoin,
       TakeLeave, TakeAnswer
  <2> QED BY <1>2, <2>2, <2>4, <2>5
<1> QED BY <1>4, <1>5, <1>6, <1>7, <1>8, <1>9 DEF Browser

(* A browser keeps it all.                                                 *)
LEMMA BrowserWired ==
    ASSUME TypeOK, Wired, Credible, NEW t \in Tabs, Browser(t)
    PROVE  Wired'
<1>0. /\ UNCHANGED <<rooms, peers, room, stage, muted, outbox, lost, elders>> /\ Came' = Came
  BY BrowserFrame DEF Came
<1>1. OutboxesWired' /\ PeersWired' /\ EldersWired'
  BY <1>0 DEF Wired, OutboxesWired, PeersWired, EldersWired, Posted
<1>2. ASSUME NEW s \in Tabs
      PROVE  /\ queue'[s] # <<>> => s \in Came
             /\ \A i \in DOMAIN queue'[s] : Spoken(queue'[s][i])
  <2>1. PICK n \in Nat :
          \A i \in DOMAIN queue'[s] : i + n \in DOMAIN queue[s] /\ queue'[s][i] = queue[s][i + n]
    BY BrowserTakes
  <2>2. queue'[s] \in Seq(Messages)
    BY BrowserType DEF TypeOK
  <2>3. queue'[s] # <<>> => 1 \in DOMAIN queue'[s]
    BY <2>2
  <2>4. queue[s] = <<>> => DOMAIN queue[s] = {}
    OBVIOUS
  <2> QED BY <2>1, <2>3, <2>4 DEF Wired, QueuesWired
<1>3. \A m : Spoken(m) => Spoken(m)'
  BY <1>0 DEF Spoken
<1>4. QueuesWired'
  BY <1>0, <1>2, <1>3 DEF QueuesWired
<1> QED BY <1>1, <1>4, BrowserTabs DEF Wired

(* Outboxes, rooms, queues, tabs and elders fit together.                  *)
THEOREM WiredHolds == Spec => []Wired
<1>1. ASSUME Init PROVE Wired
  BY <1>1, MeetAssumption DEF Init, Wired, OutboxesWired, PeersWired, QueuesWired, TabsWired, EldersWired, NoConn
<1>2. ASSUME Wired, UNCHANGED vars PROVE Wired'
  BY <1>2 DEF vars, hub, net, view, Wired, OutboxesWired, PeersWired, QueuesWired, TabsWired,
     EldersWired, Came, OwnersOf, Posted, Spoken
<1>3. ASSUME TypeOK, Credible, Wired, Next PROVE Wired'
  <2>1. ASSUME NEW t \in Tabs, Handler(t) PROVE Wired'
    BY <1>3, <2>1, HandlerOutboxes, HandlerPeers, HandlerQueues, HandlerTabs, HandlerElders DEF Wired
  <2> QED BY <1>3, <2>1, BrowserWired DEF Next
<1> QED BY <1>1, <1>2, <1>3, TypeCorrect, CredibleHolds, PTL DEF Spec

-----------------------------------------------------------------------------
(* What a step does between two tabs.                                      *)

(* The places of a queue are numbers from 1 on.                            *)
LEMMA QueuePlaces ==
    ASSUME TypeOK, NEW t \in Tabs, Handler(t) \/ Browser(t), NEW p \in Tabs
    PROVE  DOMAIN queue[p] \subseteq Nat \ {0} /\ DOMAIN queue'[p] \subseteq Nat \ {0}
<1>1. \A s \in Seq(Messages) : DOMAIN s \subseteq Nat \ {0}
  OBVIOUS
<1>2. queue[p] \in Seq(Messages) /\ queue'[p] \in Seq(Messages)
  BY HandlerType, BrowserType DEF TypeOK
<1> QED BY <1>1, <1>2

(* The only tab of its user to have come was so before the step.           *)
LEMMA SoleBefore ==
    ASSUME TypeOK, NEW t \in Tabs, Handler(t) \/ Browser(t), NEW q \in Tabs, Sole(q)'
    PROVE  Sole(q)
<1>1. \A s \in Tabs : stage'[s] = "none" => stage[s] = "none"
  BY HandlerGoesOn, BrowserFrame
<1> QED BY <1>1 DEF Sole

(* What is said in the name of a sole tab's user comes from that tab.      *)
LEMMA SoleSpeaks ==
    ASSUME TypeOK, Wired, NEW q \in Tabs, Sole(q)
    PROVE  /\ \A p \in Tabs : \A i \in DOMAIN queue[p] :
                From(queue[p][i], Owner[q]) =>
                   /\ stage[q] \in Served
                   /\ queue[p][i].type = "leave" => stage[q] = "ended"
           /\ \A s \in Tabs : \A send \in outbox[s] : From(send[2], Owner[q]) => s = q
<1>1. ASSUME NEW p \in Tabs, NEW i \in DOMAIN queue[p], From(queue[p][i], Owner[q])
      PROVE  /\ stage[q] \in Served
             /\ queue[p][i].type = "leave" => stage[q] = "ended"
  <2>1. PICK s \in Tabs : /\ Owner[s] = Owner[q] /\ stage[s] \in Served
                          /\ queue[p][i].type = "leave" => stage[s] = "ended"
    BY <1>1 DEF Wired, QueuesWired, Spoken, From
  <2> QED BY <2>1 DEF Sole, Served
<1>2. ASSUME NEW s \in Tabs, NEW send \in outbox[s], From(send[2], Owner[q]) PROVE s = q
  <2>1. Owner[s] = Owner[q]
    BY <1>2 DEF Wired, OutboxesWired, Posted, From
  <2>2. stage[s] # "none"
    BY <1>2, IdleStages DEF Wired
  <2> QED BY <2>1, <2>2 DEF Sole
<1> QED BY <1>1, <1>2

(* A tab that came stays in its callRoom, and does not come back to it.    *)
LEMMA StaysPut ==
    ASSUME TypeOK, NEW t \in Tabs, Handler(t), NEW s \in Came
    PROVE  room'[s] = room[s] /\ (Present(s)' => Present(s))
<1>0. /\ s \in Tabs /\ stage[s] \notin {"none", "entered"} /\ room[s] \in Tabs /\ room[s] # None
      /\ peers \in [Tabs -> [Users -> Tabs \cup {None}]] /\ room \in [Tabs -> Tabs \cup {None}]
  BY TabsAndUsers DEF Came, TypeOK
<1>1. CASE Enter(t)
  <2>1. t # s /\ peers' = peers
    BY <1>0, <1>1 DEF Enter
  <2>2. room'[s] = room[s]
    BY <1>0, <2>1, HandlerFrame
  <2> QED BY <2>1, <2>2 DEF Present
<1>2. CASE AddPeer(t)
  <2>1. t # s /\ room' = room /\ room[t] \in Tabs
    BY <1>0, <1>2 DEF AddPeer, TypeOK
  <2>2. \A r \in Tabs, u \in Users : peers'[r][u] = IF r = room[t] /\ u = Owner[t] THEN t ELSE peers[r][u]
    BY <1>0, <1>2, <2>1 DEF AddPeer
  <2> QED BY <1>0, <2>1, <2>2, TabsAndUsers DEF Present
<1>3. CASE RemovePeer(t)
  <2>1. room' = room /\ room[t] \in Tabs
    BY <1>0, <1>3 DEF RemovePeer, TypeOK
  <2>2. \A r \in Tabs, u \in Users : peers'[r][u] = IF r = room[t] /\ u = Owner[t] THEN None ELSE peers[r][u]
    BY <1>0, <1>3, <2>1 DEF RemovePeer
  <2> QED BY <1>0, <2>1, <2>2, TabsAndUsers DEF Present
<1>4. CASE UNCHANGED <<room, peers>>
  BY <1>4 DEF Present
<1>5. Enter(t) \/ AddPeer(t) \/ RemovePeer(t) \/ UNCHANGED <<room, peers>>
  BY DEF Handler, SendPresence, SendRosterState, AnnounceJoin, Deliver, Route, EndServe,
     CheckEmpty, DeleteRoom, AnnounceLeave, hub
<1> QED BY <1>1, <1>2, <1>3, <1>4, <1>5

(* A handler that still has something to send does nothing else.           *)
LEMMA BusyDelivers ==
    ASSUME TypeOK, Wired, NEW t \in Tabs, Handler(t), outbox[t] # {}
    PROVE  Deliver(t)
<1>1. stage[t] \in {"greeted", "listed", "serving", "ended"} /\ ~Idle(t)
  BY IdleStages DEF Wired, Idle
<1> QED BY <1>1 DEF Handler, Enter, AddPeer, SendPresence, SendRosterState, AnnounceJoin, Route,
           EndServe, RemovePeer, CheckEmpty, DeleteRoom, AnnounceLeave

(* A queue keeps what it has; what comes is last, and out of the outbox.   *)
LEMMA Arrives ==
    ASSUME TypeOK, NEW t \in Tabs, Handler(t), NEW p \in Tabs
    PROVE  /\ lost \subseteq lost'
           /\ \A i \in DOMAIN queue[p] : i \in DOMAIN queue'[p] /\ queue'[p][i] = queue[p][i]
           /\ \A i \in DOMAIN queue'[p] \ DOMAIN queue[p] :
                /\ Deliver(t) /\ <<p, queue'[p][i]>> \in outbox[t]
                /\ outbox'[t] = outbox[t] \ {<<p, queue'[p][i]>>}
                /\ \A j \in DOMAIN queue'[p] : j = i \/ (j \in DOMAIN queue[p] /\ j < i)
           /\ Deliver(t) =>
                /\ outbox'[t] \subseteq outbox[t]
                /\ \A send \in outbox[t] \ outbox'[t] :
                     send[1] = p =>
                       \/ p \in lost'
                       \/ \E i \in DOMAIN queue'[p] \ DOMAIN queue[p] : queue'[p][i] = send[2]
<1>1. CASE Deliver(t)
  <2>1. PICK r \in Tabs, m \in Messages :
             /\ <<r, m>> \in outbox[t]
             /\ outbox'[t] = outbox[t] \ {<<r, m>>}
             /\ \A s \in Tabs \ {r} : queue'[s] = queue[s]
             /\ \/ queue'[r] = Append(queue[r], m) /\ lost' = lost
                \/ queue'[r] = queue[r] /\ lost' = lost \cup {r}
    BY <1>1, Delivery
  <2>2. CASE queue'[p] = queue[p] /\ (r # p \/ p \in lost')
    BY <1>1, <2>1, <2>2
  <2>3. CASE r = p /\ queue'[p] = Append(queue[p], m)
    <3>1. queue[p] \in Seq(Messages) /\ Len(queue[p]) \in Nat /\ DOMAIN queue[p] = 1..Len(queue[p])
      BY DEF TypeOK
    <3>2. /\ DOMAIN queue'[p] = DOMAIN queue[p] \cup {Len(queue[p]) + 1}
          /\ \A i \in DOMAIN queue[p] : i < Len(queue[p]) + 1 /\ queue'[p][i] = queue[p][i]
          /\ queue'[p][Len(queue[p]) + 1] = m
      BY <2>3, <3>1, AppendQueue
    <3>3. Len(queue[p]) + 1 \notin DOMAIN queue[p]
      BY <3>1
    <3> QED BY <1>1, <2>1, <2>3, <3>2, <3>3
  <2> QED BY <2>1, <2>2, <2>3
<1>2. CASE ~Deliver(t)
  BY <1>2, QueuesKept
<1> QED BY <1>1, <1>2

(* What a browser does to its own connections, but for taking a message.   *)
LEMMA BrowserConns ==
    ASSUME TypeOK, NEW t \in Tabs, Browser(t), ~Receive(t), NEW u \in Users
    PROVE  /\ pc[t][u].on /\ ~pc'[t][u].on => u \in broken'[t] \/ ws'[t] = "closed"
           /\ Leave(t) => ws'[t] = "closed" /\ ~pc'[t][u].on
           /\ pc'[t][u].on =>
                /\ pc[t][u].on
                /\ pc'[t][u].polite <=> pc[t][u].polite
                /\ pc'[t][u].muted <=> pc[t][u].muted
                /\ \/ pc'[t][u].sig = pc[t][u].sig
                   \/ ~pc[t][u].polite /\ pc[t][u].sig = "new" /\ pc'[t][u].sig = "offered"
<1>0. /\ pc \in [Tabs -> [Users -> Conns]] /\ broken \in [Tabs -> SUBSET Users] /\ pc[t][u] \in Conns
      /\ ws \in [Tabs -> {"none", "connecting", "open", "closed"}]
  BY DEF TypeOK
<1>1. CASE Leave(t)
  BY <1>0, <1>1, ConnFields DEF Leave
<1>2. CASE \E w \in Users : ConnectionFails(t, w)
  <2>1. PICK w \in Users : ConnectionFails(t, w)
    BY <1>2
  <2>2. /\ pc'[t][u] = IF u = w THEN NoConn ELSE pc[t][u]
        /\ w \in broken'[t] /\ ~Leave(t)
    BY <1>0, <2>1 DEF ConnectionFails, Leave
  <2> QED BY <2>2, ConnFields
<1>3. CASE \E w \in Users : Negotiate(t, w)
  <2>1. PICK w \in Users : Negotiate(t, w)
    BY <1>3
  <2>2. /\ pc'[t][u] = IF u = w THEN [pc[t][u] EXCEPT !.sig = "offered"] ELSE pc[t][u]
        /\ pc[t][w].on /\ ~pc[t][w].polite /\ pc[t][w].sig = "new" /\ ~Leave(t)
    BY <1>0, <2>1 DEF Negotiate, Leave
  <2> QED BY <1>0, <2>2, ConnFields
<1>4. CASE pc' = pc /\ ~Leave(t)
  BY <1>4
<1>5. CASE Mount(t) \/ Opened(t) \/ AcquireMedia(t) \/ ToggleMic(t)
  <2>1. pc' = pc
    BY <1>5 DEF Mount, Opened, AcquireMedia, ToggleMic, view
  <2>2. Leave(t) => ws'[t] = "closed"
    BY <1>0 DEF Leave
  <2>3. Leave(t) => ~pc'[t][u].on
    BY <1>0, ConnFields DEF Leave
  <2> QED BY <2>1, <2>2, <2>3
<1> QED BY <1>1, <1>2, <1>3, <1>5 DEF Browser

(* A socket that is closed stays so, and a connection that has failed has. *)
LEMMA BrowserGoesOn ==
    ASSUME TypeOK, NEW t \in Tabs, Browser(t), NEW s \in Tabs
    PROVE  /\ ws[s] = "closed" => ws'[s] = "closed"
           /\ broken[s] \subseteq broken'[s]
<1>1. CASE s # t
  BY <1>1, BrowserFrame
<1>2. CASE s = t
  <2>1. ws[t] = "closed" => ws'[t] = "closed"
    BY DEF Browser, Mount, Opened, AcquireMedia, ToggleMic, Receive, Leave, Negotiate,
       ConnectionFails, TypeOK
  <2>2. CASE \E u \in Users : ConnectionFails(t, u)
    BY <1>2, <2>1, <2>2 DEF ConnectionFails, TypeOK
  <2>3. CASE ~\E u \in Users : ConnectionFails(t, u)
    <3>1. broken' = broken
      BY <2>3 DEF Browser, Mount, Opened, AcquireMedia, ToggleMic, Receive, Leave, Negotiate, view
    <3> QED BY <1>2, <2>1, <3>1
  <2> QED BY <2>2, <2>3
<1> QED BY <1>1, <1>2

(* Whoever was there before q was so a step ago, unless q comes now.       *)
LEMMA EldersBefore ==
    ASSUME TypeOK, Wired, NEW t \in Tabs, Handler(t) \/ Browser(t), NEW q \in Tabs, NEW p \in elders'[q],
           ~(t = q /\ AddPeer(q))
    PROVE  p \in elders[q] /\ p \in Tabs /\ p # q /\ stage[p] \in Served /\ p \in Came /\ q \in Came
<1>1. elders'[q] = elders[q]
  <2>1. CASE Handler(t) /\ t = q
    BY <2>1 DEF Handler, Enter, SendPresence, SendRosterState, AnnounceJoin, Deliver, Route,
       EndServe, RemovePeer, CheckEmpty, DeleteRoom, AnnounceLeave
  <2>2. CASE Handler(t) /\ t # q
    BY <2>2, HandlerFrame
  <2>3. CASE Browser(t)
    BY <2>3, BrowserFrame
  <2> QED BY <2>1, <2>2, <2>3
<1>2. elders[q] \subseteq Tabs
  BY DEF TypeOK
<1> QED BY <1>1, <1>2 DEF Wired, EldersWired, Served, Came

(* Nobody has anything of a user who comes for the first time.             *)
LEMMA Newcomer ==
    ASSUME TypeOK, Wired, Credible, NEW q \in Tabs, AddPeer(q), Sole(q)
    PROVE  /\ UNCHANGED <<queue, pc, outbox, up>>
           /\ \A p \in Tabs :
                /\ ~pc[p][Owner[q]].on
                /\ \A i \in DOMAIN queue[p] : /\ Owner[q] \notin queue[p][i].users
                                              /\ ~From(queue[p][i], Owner[q])
                /\ \A i \in DOMAIN up[p] : up[p][i].type # "media_state" => up[p][i].to # Owner[q]
                /\ \A send \in outbox[p] : send[1] # q
           /\ queue[q] = <<>> /\ \A u \in Users : ~pc[q][u].on
           /\ \A p \in elders'[q] : p \in Tabs /\ p # q /\ stage[p] = "serving" /\ Owner[p] # Owner[q]
<1>0. stage[q] = "entered" /\ UNCHANGED <<queue, pc, outbox, up>>
  BY DEF AddPeer, net, view
<1>1. Owner[q] \notin OwnersOf(Came)
  BY <1>0 DEF OwnersOf, Came, Sole
<1>2. ASSUME NEW p \in Tabs
      PROVE  /\ ~pc[p][Owner[q]].on
             /\ \A i \in DOMAIN queue[p] : /\ Owner[q] \notin queue[p][i].users
                                           /\ ~From(queue[p][i], Owner[q])
             /\ \A i \in DOMAIN up[p] : up[p][i].type # "media_state" => up[p][i].to # Owner[q]
             /\ \A send \in outbox[p] : send[1] # q
  <2>1. ~pc[p][Owner[q]].on
    BY <1>1, TabsAndUsers DEF Wired, TabsWired
  <2>2. \A i \in DOMAIN queue[p] : /\ Owner[q] \notin queue[p][i].users
                                   /\ ~From(queue[p][i], Owner[q])
    BY <1>1 DEF Credible, TrueFor, From
  <2>3. \A i \in DOMAIN up[p] : up[p][i].type # "media_state" => up[p][i].to # Owner[q]
    BY <1>1 DEF Wired, TabsWired
  <2>4. \A send \in outbox[p] : send[1] # q
    BY <1>0 DEF Wired, OutboxesWired, Posted, Came
  <2> QED BY <2>1, <2>2, <2>3, <2>4
<1>3. queue[q] = <<>> /\ \A u \in Users : ~pc[q][u].on
  BY <1>0 DEF Wired, QueuesWired, TabsWired, Came
<1>4. \A p \in elders'[q] : p \in Tabs /\ p # q /\ stage[p] = "serving" /\ Owner[p] # Owner[q]
  <2>1. elders'[q] = {s \in Tabs : stage[s] = "serving" /\ Present(s)}
    BY DEF AddPeer, TypeOK
  <2> QED BY <1>0, <2>1 DEF Sole
<1> QED BY <1>0, <1>2, <1>3, <1>4

-----------------------------------------------------------------------------
(* Known is an invariant.                                                  *)

(* No list a handler sends an elder of a newcomer names that newcomer.     *)
LEMMA HandlerKnown ==
    ASSUME TypeOK, Wired, Credible, Known, NEW t \in Tabs, Handler(t)
    PROVE  Known'
<1> SUFFICES ASSUME NEW p \in Tabs, NEW q \in Tabs, Sole(q)', p \in elders'[q]
             PROVE  Elder(p, q)'
  BY DEF Known
<1> DEFINE u == Owner[q]
<1>0. Sole(q) /\ pc' = pc
  BY SoleBefore, HandlerFrame
<1>1. CASE t = q /\ AddPeer(q)
  <2>1. queue' = queue /\ ~pc[p][u].on /\ \A i \in DOMAIN queue[p] : u \notin queue[p][i].users
    BY <1>0, <1>1, Newcomer
  <2> QED BY <1>0, <2>1 DEF Elder, Unlisted
<1>2. CASE ~(t = q /\ AddPeer(q))
  <2>1. p \in elders[q] /\ stage[p] \in Served
    BY <1>2, EldersBefore
  <2>2. Elder(p, q)
    BY <1>0, <2>1 DEF Known
  <2>3. stage[q] \in Served => stage'[q] \in Served
    BY HandlerGoesOn
  <2>4. ASSUME NEW i \in DOMAIN queue'[p], queue'[p][i].type \in {"presence", "roster_state"}
        PROVE  u \notin queue'[p][i].users
    <3>1. CASE i \in DOMAIN queue[p]
      <4>1. queue'[p][i] = queue[p][i]
        BY <3>1, Arrives
      <4> QED BY <2>2, <2>4, <3>1, <4>1 DEF Elder, Unlisted
    <3>2. CASE i \notin DOMAIN queue[p]
      <4>1. <<p, queue'[p][i]>> \in outbox[t]
        BY <3>2, Arrives
      <4>2. Posted(t, p, queue'[p][i])
        BY <4>1 DEF Wired, OutboxesWired
      <4> QED BY <2>1, <2>4, <4>2 DEF Posted, Served
    <3> QED BY <3>1, <3>2
  <2> QED BY <1>0, <2>2, <2>3, <2>4 DEF Elder, Unlisted
<1> QED BY <1>1, <1>2

(* The browser of one that knows a newcomer does not call it.              *)
LEMMA BrowserKnown ==
    ASSUME TypeOK, Wired, Credible, Known, NEW t \in Tabs, Browser(t)
    PROVE  Known'
<1> SUFFICES ASSUME NEW p \in Tabs, NEW q \in Tabs, Sole(q)', p \in elders'[q]
             PROVE  Elder(p, q)'
  BY DEF Known
<1> DEFINE u == Owner[q]
<1>0. Sole(q) /\ stage' = stage /\ u \in Users
  BY SoleBefore, BrowserFrame, TabsAndUsers
<1>1. p \in elders[q]
  BY BrowserFrame
<1>2. Elder(p, q)
  BY <1>0, <1>1 DEF Known
<1>3. Unlisted(p, u)'
  <2>1. PICK n \in Nat : \A i \in DOMAIN queue'[p] : i + n \in DOMAIN queue[p] /\ queue'[p][i] = queue[p][i + n]
    BY BrowserTakes
  <2> QED BY <1>2, <2>1 DEF Elder, Unlisted
<1>4. ASSUME pc'[p][u].on PROVE pc'[p][u].polite /\ stage[q] \in Served
  <2>1. CASE t # p
    BY <1>2, <1>4, <2>1, BrowserFrame DEF Elder
  <2>2. CASE t = p /\ ~Receive(p)
    BY <1>0, <1>2, <1>4, <2>2, BrowserConns DEF Elder
  <2>3. CASE t = p /\ Receive(p)
    <3>1. Turns(u, queue[p][1], pc[p][u], pc'[p][u]) /\ 1 \in DOMAIN queue[p]
      BY <1>0, <2>3, ReceiveTurns, ReadQueue DEF Receive, TypeOK
    <3>2. queue[p][1].type = "presence" => u \notin queue[p][1].users
      BY <1>2, <3>1 DEF Elder, Unlisted
    <3>3. CASE pc[p][u].on
      BY <1>2, <1>4, <3>1, <3>3 DEF Elder, Turns
    <3>4. CASE ~pc[p][u].on
      <4>1. Says(queue[p][1], "join", u) \/ Says(queue[p][1], "offer", u)
        BY <1>4, <3>1, <3>2, <3>4 DEF Turns, Shows
      <4>2. From(queue[p][1], u)
        BY <4>1 DEF Says, From
      <4> QED BY <1>0, <1>4, <3>1, <3>4, <4>1, <4>2, SoleSpeaks DEF Turns, Says
    <3> QED BY <3>3, <3>4
  <2> QED BY <2>1, <2>2, <2>3
<1> QED BY <1>0, <1>3, <1>4 DEF Elder

(* To a tab that was there before, a sole newcomer is one it does not call.*)
THEOREM KnownHolds == Spec => []Known
<1>1. Init => Known
  BY DEF Init, Known
<1>2. ASSUME Known, UNCHANGED vars PROVE Known'
  BY <1>2 DEF vars, hub, net, view, Known, Elder, Unlisted, Sole
<1>3. ASSUME TypeOK, Credible, Wired, Known, Next PROVE Known'
  BY <1>3, HandlerKnown, BrowserKnown DEF Next
<1> QED BY <1>1, <1>2, <1>3, TypeCorrect, CredibleHolds, WiredHolds, PTL DEF Spec

-----------------------------------------------------------------------------
(* Joined is an invariant.                                                 *)

(* A meeting starts when one of the two goes on, and is told of the other. *)
LEMMA MeetingStarts ==
    ASSUME TypeOK, Wired, NEW t \in Tabs, Handler(t), NEW p \in Tabs, NEW q \in Tabs,
           Sole(q), Meeting(p, q)', ~Meeting(p, q)
    PROVE  \/ /\ t = p /\ stage[p] = "added" /\ stage'[p] = "greeted"
              /\ \E send \in outbox'[p] : send[1] = p /\ Shows(send[2], Owner[q])
           \/ /\ t = q /\ stage[q] = "listed" /\ stage'[q] = "serving"
              /\ \A send \in outbox'[q] : send[2].type = "join"
              /\ \E send \in outbox'[q] : send[1] = p /\ Shows(send[2], Owner[q])
<1>0. /\ stage \in [Tabs -> Stages] /\ room \in [Tabs -> Tabs \cup {None}]
      /\ UNCHANGED <<ws, broken>> /\ PeersWired /\ p # q
      /\ lost \subseteq lost'
      /\ \A s \in Tabs \ {t} : stage'[s] = stage[s]
  BY HandlerFrame, Arrives DEF Wired, TypeOK, Meeting
<1>1. ASSUME NEW s \in Tabs, stage'[s] \in {"greeted", "listed", "serving"}
      PROVE  /\ s \in Came
             /\ stage[s] # stage'[s] =>
                  /\ t = s
                  /\ \/ SendPresence(s) /\ stage[s] = "added" /\ stage'[s] = "greeted"
                     \/ SendRosterState(s) /\ stage[s] = "greeted" /\ stage'[s] = "listed"
                     \/ AnnounceJoin(s) /\ stage[s] = "listed" /\ stage'[s] = "serving"
  <2>1. CASE stage'[s] = stage[s]
    BY <1>1, <2>1 DEF Came
  <2>2. CASE stage'[s] # stage[s]
    <3>1. t = s
      BY <1>0, <2>2
    <3>2. SendPresence(s) \/ SendRosterState(s) \/ AnnounceJoin(s)
      BY <1>0, <1>1, <2>2, <3>1 DEF Handler, Enter, AddPeer, Deliver, Route, EndServe, RemovePeer,
         CheckEmpty, DeleteRoom, AnnounceLeave, hub
    <3>3. \/ SendPresence(s) /\ stage[s] = "added" /\ stage'[s] = "greeted"
          \/ SendRosterState(s) /\ stage[s] = "greeted" /\ stage'[s] = "listed"
          \/ AnnounceJoin(s) /\ stage[s] = "listed" /\ stage'[s] = "serving"
      BY <1>0, <3>2 DEF SendPresence, SendRosterState, AnnounceJoin
    <3> QED BY <3>1, <3>3 DEF Came
  <2> QED BY <2>1, <2>2
<1>2. /\ stage'[p] \in {"greeted", "listed", "serving"} /\ stage'[q] = "serving"
      /\ Owner[p] # Owner[q] /\ Present(p)' /\ Present(q)' /\ room'[p] = room'[q]
      /\ p \notin lost' /\ Owner[q] \notin broken'[p] /\ ws'[p] # "closed"
  BY DEF Meeting
<1>3. p \in Came /\ q \in Came
  BY <1>1, <1>2
<1>4. /\ room'[p] = room[p] /\ room'[q] = room[q] /\ room[p] # None /\ room[q] # None
      /\ Present(p) /\ Present(q)
  BY <1>2, <1>3, StaysPut DEF Present
<1>5. ~(stage[p] \in {"greeted", "listed", "serving"} /\ stage[q] = "serving")
  BY <1>0, <1>2, <1>4 DEF Meeting
<1>6. CASE SendPresence(p) /\ stage[p] = "added" /\ stage'[p] = "greeted" /\ t = p
  <2>1. q \in Others(p)
    BY <1>0, <1>2, <1>4, OthersPresent
  <2>2. PICK m, to : Send(p, m, to) /\ to = {p} /\ m.type = "presence" /\ Owner[q] \in m.users
    BY <1>6, <2>1 DEF SendPresence, Listing, OwnersOf
  <2>3. <<p, m>> \in outbox'[p] /\ Shows(m, Owner[q])
    BY <2>2, Sends DEF Shows
  <2> QED BY <1>6, <2>3
<1>7. CASE AnnounceJoin(q) /\ stage[q] = "listed" /\ stage'[q] = "serving" /\ t = q
  <2>1. p \in Others(q)
    BY <1>0, <1>2, <1>4, OthersPresent
  <2>2. PICK m, to : Send(q, m, to) /\ to = Others(q) /\ Says(m, "join", Owner[q])
    BY <1>7 DEF AnnounceJoin, Notice, Says
  <2>3. <<p, m>> \in outbox'[q] /\ Shows(m, Owner[q]) /\ \A send \in outbox'[q] : send[2] = m
    BY <2>1, <2>2, Sends DEF Shows
  <2> QED BY <1>7, <2>2, <2>3 DEF Says
<1> QED BY <1>0, <1>1, <1>2, <1>5, <1>6, <1>7

(* A handler passes the news of a meeting on.                              *)
LEMMA HandlerJoined ==
    ASSUME TypeOK, Wired, Joined, NEW t \in Tabs, Handler(t)
    PROVE  Joined'
<1> SUFFICES ASSUME NEW p \in Tabs, NEW q \in Tabs, Sole(q)', Meeting(p, q)'
             PROVE  Meets(p, q)'
  BY DEF Joined
<1> DEFINE u == Owner[q]
<1>0. Sole(q) /\ pc' = pc /\ p \notin lost' /\ \A s \in Tabs \ {t} : outbox'[s] = outbox[s]
  BY SoleBefore, HandlerFrame DEF Meeting
<1>1. CASE ~Meeting(p, q)
  BY <1>0, <1>1, MeetingStarts DEF Meets
<1>2. CASE Meeting(p, q)
  <2>1. CASE pc[p][u].on
    BY <1>0, <2>1 DEF Meets
  <2>2. CASE \E i \in DOMAIN queue[p] : Shows(queue[p][i], u)
    BY <2>2, Arrives DEF Meets
  <2>3. CASE \E send \in outbox[p] \cup outbox[q] : send[1] = p /\ Shows(send[2], u)
    <3>1. PICK s \in {p, q} : \E send \in outbox[s] : send[1] = p /\ Shows(send[2], u)
      BY <2>3
    <3>4. PICK send \in outbox[s] : send[1] = p /\ Shows(send[2], u)
      BY <3>1
    <3>2. CASE send \in outbox'[s]
      BY <3>4, <3>2 DEF Meets
    <3>3. CASE send \notin outbox'[s]
      <4>1. t = s /\ Deliver(t)
        BY <1>0, <3>4, <3>3, BusyDelivers
      <4>2. \E i \in DOMAIN queue'[p] : queue'[p][i] = send[2]
        BY <1>0, <3>4, <3>3, <4>1, Arrives
      <4> QED BY <3>4, <4>2 DEF Meets
    <3> QED BY <3>2, <3>3
  <2> QED BY <1>0, <1>2, <2>1, <2>2, <2>3 DEF Joined, Meets
<1> QED BY <1>1, <1>2

(* A browser that takes the news of a meeting shows it.                    *)
LEMMA BrowserJoined ==
    ASSUME TypeOK, Wired, Joined, NEW t \in Tabs, Browser(t)
    PROVE  Joined'
<1> SUFFICES ASSUME NEW p \in Tabs, NEW q \in Tabs, Sole(q)', Meeting(p, q)'
             PROVE  Meets(p, q)'
  BY DEF Joined
<1> DEFINE u == Owner[q]
<1>0. Sole(q) /\ UNCHANGED <<stage, room, peers, outbox, lost>> /\ u \in Users
  BY SoleBefore, BrowserFrame, TabsAndUsers
<1>1. Meeting(p, q) /\ u \notin broken'[p] /\ ws'[p] # "closed" /\ stage[q] = "serving"
  BY <1>0, BrowserGoesOn DEF Meeting, Present
<1>2. Meets(p, q)
  BY <1>0, <1>1 DEF Joined
<1>3. CASE t # p
  BY <1>0, <1>2, <1>3, BrowserFrame DEF Meets
<1>4. CASE t = p /\ ~Receive(p)
  <2>1. CASE pc[p][u].on
    BY <1>0, <1>1, <1>4, <2>1, BrowserConns DEF Meets
  <2>2. CASE \E i \in DOMAIN queue[p] : Shows(queue[p][i], u)
    <3>1. ~Leave(p)
      BY <1>0, <1>1, <1>4, BrowserConns
    <3>2. PICK n \in Nat :
            /\ \A i \in DOMAIN queue'[p] : i + n \in DOMAIN queue[p] /\ queue'[p][i] = queue[p][i + n]
            /\ \A i \in DOMAIN queue[p] : i > n => i - n \in DOMAIN queue'[p]
            /\ ~(n > 0)
      BY <1>4, <3>1, BrowserTakes
    <3>3. n = 0 /\ DOMAIN queue[p] = 1..Len(queue[p]) /\ Len(queue[p]) \in Nat
      BY <3>2 DEF TypeOK
    <3>4. \A i \in DOMAIN queue[p] : i \in DOMAIN queue'[p] /\ queue'[p][i] = queue[p][i]
      BY <3>2, <3>3
    <3> QED BY <2>2, <3>4 DEF Meets
  <2>3. CASE \E send \in outbox[p] \cup outbox[q] : send[1] = p /\ Shows(send[2], u)
    BY <1>0, <2>3 DEF Meets
  <2> QED BY <1>2, <2>1, <2>2, <2>3 DEF Meets
<1>5. CASE t = p /\ Receive(p)
  <2>1. queue[p] \in Seq(Messages) /\ queue[p] # <<>> /\ queue'[p] = Tail(queue[p])
    BY <1>5 DEF Receive, TypeOK
  <2>2. /\ 1 \in DOMAIN queue[p]
        /\ \A i \in DOMAIN queue[p] : i = 1 \/ (i - 1 \in DOMAIN queue'[p] /\ queue'[p][i - 1] = queue[p][i])
    BY <2>1, ReadQueue
  <2>3. Turns(u, queue[p][1], pc[p][u], pc'[p][u])
    BY <1>0, <1>5, ReceiveTurns
  <2>4. ~Says(queue[p][1], "leave", u)
    BY <1>0, <1>1, <2>2, SoleSpeaks DEF Says, From
  <2>5. CASE pc[p][u].on \/ Shows(queue[p][1], u)
    BY <2>3, <2>4, <2>5 DEF Turns, Meets
  <2>6. CASE \E i \in DOMAIN queue[p] : i # 1 /\ Shows(queue[p][i], u)
    BY <2>2, <2>6 DEF Meets
  <2>7. CASE \E send \in outbox[p] \cup outbox[q] : send[1] = p /\ Shows(send[2], u)
    BY <1>0, <2>7 DEF Meets
  <2> QED BY <1>2, <2>5, <2>6, <2>7 DEF Meets
<1> QED BY <1>3, <1>4, <1>5

(* Whom a tab meets it shows, or the news is on its way to it.             *)
THEOREM JoinedHolds == Spec => []Joined
<1>1. Init => Joined
  BY DEF Init, Joined, Meeting
<1>2. ASSUME Joined, UNCHANGED vars PROVE Joined'
  BY <1>2 DEF vars, hub, net, view, Joined, Meeting, Meets, Present, Sole
<1>3. ASSUME TypeOK, Wired, Joined, Next PROVE Joined'
  BY <1>3, HandlerJoined, BrowserJoined DEF Next
<1> QED BY <1>1, <1>2, <1>3, TypeCorrect, WiredHolds, PTL DEF Spec

(* However joins overlap, a tab that took everything the hub had for it    *)
(* shows everyone who is in its callRoom.                                  *)
THEOREM MeshCompletes == Spec => []MeshComplete
<1>1. ASSUME TypeOK, Wired, Joined PROVE MeshComplete
  <2> SUFFICES ASSUME NEW p \in Tabs, NEW q \in Tabs, Together(p, q), UpToDate(p, q), Sole(q),
                      p \notin lost, Owner[q] \notin broken[p]
               PROVE  pc[p][Owner[q]].on
    BY DEF MeshComplete
  <2>1. Meeting(p, q) /\ stage[p] = "serving"
    BY DEF Meeting, Together, UpToDate
  <2>2. Meets(p, q)
    BY <1>1, <2>1 DEF Joined
  <2>3. DOMAIN queue[p] = {} /\ \A send \in outbox[q] : send[1] # p
    BY DEF UpToDate
  <2>4. \A send \in outbox[p] : ~Shows(send[2], Owner[q])
    BY <1>1, <2>1 DEF Wired, OutboxesWired, Posted, Shows, Says, Meeting
  <2> QED BY <2>2, <2>3, <2>4 DEF Meets
<1> QED BY <1>1, TypeCorrect, WiredHolds, JoinedHolds, PTL

-----------------------------------------------------------------------------
(* Left is an invariant.                                                   *)

(* A handler says nothing after its leave.                                 *)
LEMMA HandlerLeavesLast ==
    ASSUME TypeOK, Wired, Left, NEW t \in Tabs, Handler(t), NEW p \in Tabs, NEW q \in Tabs, Sole(q)
    PROVE  LeavesLast(p, q)'
<1> DEFINE u == Owner[q]
<1>0. LeavesLast(p, q) /\ \A s \in Tabs \ {t} : outbox'[s] = outbox[s] /\ stage'[s] = stage[s]
  BY HandlerFrame DEF Left
<1> SUFFICES ASSUME NEW i \in DOMAIN queue'[p], Says(queue'[p][i], "leave", u)
             PROVE  /\ \A send \in outbox'[q] : send[1] # p
                    /\ \A j \in DOMAIN queue'[p] : i < j => ~From(queue'[p][j], u)
  BY DEF LeavesLast
<1>1. CASE i \in DOMAIN queue[p]
  <2>1. queue'[p][i] = queue[p][i]
    BY <1>1, Arrives
  <2>2. /\ \A send \in outbox[q] : send[1] # p
        /\ \A j \in DOMAIN queue[p] : i < j => ~From(queue[p][j], u)
    BY <1>0, <1>1, <2>1 DEF LeavesLast
  <2>3. stage[q] = "ended"
    BY <1>1, <2>1, SoleSpeaks DEF Says, From
  <2>4. outbox'[q] \subseteq outbox[q]
    <3>1. CASE t = q
      <4>1. Deliver(t) \/ outbox' = outbox
        BY <2>3, <3>1 DEF Handler, Enter, AddPeer, SendPresence, SendRosterState, AnnounceJoin, Route,
           EndServe, RemovePeer, CheckEmpty, DeleteRoom, AnnounceLeave
      <4> QED BY <3>1, <4>1, Arrives
    <3>2. CASE t # q
      BY <1>0, <3>2
    <3> QED BY <3>1, <3>2
  <2>5. ASSUME NEW j \in DOMAIN queue'[p], i < j PROVE ~From(queue'[p][j], u)
    <3>1. CASE j \in DOMAIN queue[p]
      BY <2>2, <2>5, <3>1, Arrives
    <3>2. CASE j \notin DOMAIN queue[p]
      <4>1. <<p, queue'[p][j]>> \in outbox[t]
        BY <3>2, Arrives
      <4> QED BY <2>2, <4>1, SoleSpeaks
    <3> QED BY <3>1, <3>2
  <2> QED BY <2>2, <2>4, <2>5
<1>2. CASE i \notin DOMAIN queue[p]
  <2>1. /\ <<p, queue'[p][i]>> \in outbox[t] /\ outbox'[t] = outbox[t] \ {<<p, queue'[p][i]>>}
        /\ \A j \in DOMAIN queue'[p] : j = i \/ (j \in DOMAIN queue[p] /\ j < i)
    BY <1>2, Arrives
  <2>2. t = q
    BY <2>1, SoleSpeaks DEF Says, From
  <2>3. \A x, y \in outbox[q] : x[2] = y[2]
    BY DEF Wired, OutboxesWired
  <2>4. outbox[q] \subseteq Tabs \X Messages
    BY DEF TypeOK
  <2>5. ASSUME NEW send \in outbox'[q], send[1] = p PROVE FALSE
    <3>1. send \in outbox[q] /\ send # <<p, queue'[p][i]>>
      BY <2>1, <2>2, <2>5
    <3>2. send[2] = queue'[p][i]
      BY <2>1, <2>2, <2>3, <3>1
    <3> QED BY <2>4, <2>5, <3>1, <3>2
  <2>6. \A j \in DOMAIN queue'[p] : ~(i < j)
    <3>1. DOMAIN queue'[p] \subseteq Nat
      BY QueuePlaces
    <3> QED BY <2>1, <3>1
  <2> QED BY <2>5, <2>6
<1> QED BY <1>1, <1>2

(* A handler tells those it leaves, and only then is done.                 *)
LEMMA HandlerParted ==
    ASSUME TypeOK, Wired, Left, NEW t \in Tabs, Handler(t), NEW p \in Tabs, NEW q \in Tabs, Sole(q),
           p \in elders'[q]
    PROVE  Parted(p, q)'
<1> DEFINE u == Owner[q]
<1>0. /\ \A s \in Tabs \ {t} : outbox'[s] = outbox[s] /\ stage'[s] = stage[s]
      /\ pc' = pc /\ lost \subseteq lost'
  BY HandlerFrame, Arrives
<1> SUFFICES ASSUME stage'[q] = "ended", room'[p] = room'[q], Present(p)', p \notin lost'
             PROVE  \/ \E send \in outbox'[q] : send[1] = p
                    \/ \E i \in DOMAIN queue'[p] : Says(queue'[p][i], "leave", u)
                    \/ /\ ~pc'[p][u].on
                       /\ \A i \in DOMAIN queue'[p] :
                            ~Says(queue'[p][i], "join", u) /\ ~Says(queue'[p][i], "offer", u)
  BY DEF Parted, Queued
<1>1. p \in elders[q] /\ p \in Came /\ q \in Came /\ p # q
  <2>1. ~(t = q /\ AddPeer(q))
    BY DEF AddPeer, TypeOK
  <2> QED BY <2>1, EldersBefore
<1>2. room[p] = room[q] /\ Present(p) /\ p \notin lost /\ room[q] # None
  BY <1>0, <1>1, StaysPut DEF Present
<1>3. CASE stage[q] # "ended"
  <2>1. t = q /\ AnnounceLeave(q)
    <3>1. t = q
      BY <1>0, <1>3
    <3>2. stage \in [Tabs -> Stages]
      BY DEF TypeOK
    <3> QED BY <1>3, <3>1, <3>2 DEF Handler, Enter, AddPeer, SendPresence, SendRosterState, AnnounceJoin,
               Deliver, Route, EndServe, RemovePeer, CheckEmpty, DeleteRoom, hub
  <2>2. p \in Others(q)
    BY <1>1, <1>2, OthersPresent DEF Wired
  <2>3. PICK m, to : Send(q, m, to) /\ to = Others(q)
    BY <2>1 DEF AnnounceLeave
  <2>4. <<p, m>> \in outbox'[q]
    BY <2>2, <2>3, Sends
  <2> QED BY <2>4
<1>4. CASE stage[q] = "ended"
  <2>1. \/ \E send \in outbox[q] : send[1] = p
        \/ \E i \in DOMAIN queue[p] : Says(queue[p][i], "leave", u)
        \/ /\ ~pc[p][u].on
           /\ \A i \in DOMAIN queue[p] : ~Says(queue[p][i], "join", u) /\ ~Says(queue[p][i], "offer", u)
    BY <1>1, <1>2, <1>4 DEF Left, Parted, Queued
  <2>2. \A send \in outbox[q] : Says(send[2], "leave", u)
    <3>1. ASSUME NEW send \in outbox[q] PROVE Says(send[2], "leave", u)
      <4>1. Posted(q, send[1], send[2]) /\ send[2] \in Messages
        BY DEF Wired, OutboxesWired, TypeOK
      <4> QED BY <1>4, <4>1, MessageTypes DEF Posted, Says
    <3> QED BY <3>1
  <2>3. CASE \E send \in outbox[q] : send[1] = p
    <3>1. PICK send \in outbox[q] : send[1] = p
      BY <2>3
    <3>2. CASE send \notin outbox'[q]
      <4>1. t = q /\ Deliver(t)
        BY <1>0, <3>1, <3>2, BusyDelivers
      <4>2. \E i \in DOMAIN queue'[p] : queue'[p][i] = send[2]
        BY <3>1, <3>2, <4>1, Arrives
      <4> QED BY <2>2, <4>2
    <3> QED BY <3>1, <3>2
  <2>4. CASE \E i \in DOMAIN queue[p] : Says(queue[p][i], "leave", u)
    BY <2>4, Arrives
  <2>5. CASE /\ ~pc[p][u].on
             /\ \A i \in DOMAIN queue[p] : ~Says(queue[p][i], "join", u) /\ ~Says(queue[p][i], "offer", u)
    <3>1. ASSUME NEW i \in DOMAIN queue'[p]
          PROVE ~Says(queue'[p][i], "join", u) /\ ~Says(queue'[p][i], "offer", u)
      <4>1. CASE i \in DOMAIN queue[p]
        BY <2>5, <4>1, Arrives
      <4>2. CASE i \notin DOMAIN queue[p]
        <5>1. <<p, queue'[p][i]>> \in outbox[t]
          BY <4>2, Arrives
        <5> QED BY <2>2, <5>1, SoleSpeaks DEF Says, From
      <4> QED BY <4>1, <4>2
    <3> QED BY <1>0, <2>5, <3>1
  <2> QED BY <2>1, <2>3, <2>4, <2>5
<1> QED BY <1>3, <1>4

(* A browser only takes from its queue, so a leave stays last.             *)
LEMMA BrowserLeavesLast ==
    ASSUME TypeOK, Left, NEW t \in Tabs, Browser(t), NEW p \in Tabs, NEW q \in Tabs, Sole(q)
    PROVE  LeavesLast(p, q)'
<1> DEFINE u == Owner[q]
<1>0. LeavesLast(p, q) /\ outbox' = outbox
  BY BrowserFrame DEF Left
<1>1. PICK n \in Nat : \A i \in DOMAIN queue'[p] : i + n \in DOMAIN queue[p] /\ queue'[p][i] = queue[p][i + n]
  BY BrowserTakes
<1>2. DOMAIN queue'[p] \subseteq Nat
  BY QueuePlaces
<1>3. \A i, j \in DOMAIN queue'[p] : i < j => i + n < j + n
  BY <1>2
<1> QED BY <1>0, <1>1, <1>3 DEF LeavesLast

(* A browser that takes the leave drops its connection.                    *)
LEMMA BrowserParted ==
    ASSUME TypeOK, Wired, Known, Left, NEW t \in Tabs, Browser(t), NEW p \in Tabs, NEW q \in Tabs, Sole(q),
           p \in elders'[q]
    PROVE  Parted(p, q)'
<1> DEFINE u == Owner[q]
<1>0. UNCHANGED <<stage, room, peers, outbox, lost, elders>> /\ u \in Users
  BY BrowserFrame, TabsAndUsers
<1>1. Parted(p, q) /\ LeavesLast(p, q) /\ Unlisted(p, u) /\ p \in elders[q]
  BY <1>0 DEF Left, Known, Elder
<1> SUFFICES ASSUME stage[q] = "ended", room[p] = room[q], Present(p), p \notin lost,
                    \A send \in outbox[q] : send[1] # p
             PROVE  \/ \E i \in DOMAIN queue'[p] : Says(queue'[p][i], "leave", u)
                    \/ /\ ~pc'[p][u].on
                       /\ \A i \in DOMAIN queue'[p] :
                            ~Says(queue'[p][i], "join", u) /\ ~Says(queue'[p][i], "offer", u)
  BY <1>0 DEF Parted, Queued, Present
<1>2. PICK n \in Nat :
        /\ \A i \in DOMAIN queue'[p] : i + n \in DOMAIN queue[p] /\ queue'[p][i] = queue[p][i + n]
        /\ \A i \in DOMAIN queue[p] : i > n => i - n \in DOMAIN queue'[p]
        /\ n > 0 => (p = t /\ n = 1 /\ Receive(t)) \/ (p = t /\ Leave(t))
  BY BrowserTakes
<1>3. DOMAIN queue[p] \subseteq Nat \ {0} /\ DOMAIN queue'[p] \subseteq Nat \ {0}
  BY QueuePlaces
<1>4. CASE \E i \in DOMAIN queue[p] : Says(queue[p][i], "leave", u)
  <2>1. PICK i \in DOMAIN queue[p] : Says(queue[p][i], "leave", u)
    BY <1>4
  <2>2. CASE i > n
    <3>1. i - n \in DOMAIN queue'[p] /\ (i - n) + n = i
      BY <1>2, <1>3, <2>2
    <3>2. queue'[p][i - n] = queue[p][i]
      BY <1>2, <3>1
    <3> QED BY <2>1, <3>1, <3>2
  <2>3. CASE ~(i > n)
    <3>1. \A j \in DOMAIN queue'[p] : j + n > i /\ j + n \in DOMAIN queue[p] /\ queue'[p][j] = queue[p][j + n]
      BY <1>2, <1>3, <2>3
    <3>2. \A j \in DOMAIN queue'[p] : ~From(queue'[p][j], u)
      BY <1>1, <2>1, <3>1 DEF LeavesLast
    <3>3. n > 0
      BY <1>3, <2>3
    <3>4. CASE p = t /\ Leave(t)
      <4>1. ~Receive(t)
        BY <1>3, <3>4 DEF Leave, Receive, TypeOK
      <4>2. ~pc'[p][u].on
        BY <1>0, <3>4, <4>1, BrowserConns
      <4> QED BY <3>2, <4>2 DEF Says, From
    <3>5. CASE p = t /\ n = 1 /\ Receive(t)
      <4>1. i = 1
        BY <1>3, <2>3, <3>5
      <4>2. ~pc'[p][u].on
        BY <1>0, <2>1, <3>5, <4>1, ReceiveTurns DEF Turns
      <4> QED BY <3>2, <4>2 DEF Says, From
    <3> QED BY <1>2, <3>3, <3>4, <3>5
  <2> QED BY <2>2, <2>3
<1>5. CASE /\ ~pc[p][u].on
           /\ \A i \in DOMAIN queue[p] : ~Says(queue[p][i], "join", u) /\ ~Says(queue[p][i], "offer", u)
  <2>1. \A i \in DOMAIN queue'[p] : ~Says(queue'[p][i], "join", u) /\ ~Says(queue'[p][i], "offer", u)
    BY <1>2, <1>5
  <2>2. ~pc'[p][u].on
    <3>1. CASE t # p
      BY <1>5, <3>1, BrowserFrame
    <3>2. CASE t = p /\ ~Receive(p)
      BY <1>0, <1>5, <3>2, BrowserConns
    <3>3. CASE t = p /\ Receive(p)
      <4>1. 1 \in DOMAIN queue[p]
        BY <3>3, ReadQueue DEF Receive, TypeOK
      <4>2. Turns(u, queue[p][1], pc[p][u], pc'[p][u])
        BY <1>0, <3>3, ReceiveTurns
      <4>3. ~Shows(queue[p][1], u) /\ ~Says(queue[p][1], "offer", u)
        BY <1>1, <1>5, <4>1 DEF Shows, Unlisted
      <4> QED BY <1>5, <4>2, <4>3 DEF Turns
    <3> QED BY <3>1, <3>2, <3>3
  <2> QED BY <2>1, <2>2
<1> QED BY <1>1, <1>4, <1>5 DEF Parted, Queued

(* The leave of a user is the last of it, and reaches those who were there.*)
THEOREM LeftHolds == Spec => []Left
<1>1. Init => Left
  BY DEF Init, Left, LeavesLast
<1>2. ASSUME Left, UNCHANGED vars PROVE Left'
  BY <1>2 DEF vars, hub, net, view, Left, LeavesLast, Parted, Queued, Present, Sole
<1>3. ASSUME TypeOK, Wired, Known, Left, Next PROVE Left'
  <2> SUFFICES ASSUME NEW p \in Tabs, NEW q \in Tabs, Sole(q)'
               PROVE  LeavesLast(p, q)' /\ (p \in elders'[q] => Parted(p, q)')
    BY DEF Left
  <2>1. PICK t \in Tabs : Handler(t) \/ Browser(t)
    BY <1>3 DEF Next
  <2>2. Sole(q)
    BY <1>3, <2>1, SoleBefore
  <2>3. CASE Handler(t)
    BY <1>3, <2>2, <2>3, HandlerLeavesLast, HandlerParted
  <2>4. CASE Browser(t)
    BY <1>3, <2>2, <2>4, BrowserLeavesLast, BrowserParted
  <2> QED BY <2>1, <2>3, <2>4
<1> QED BY <1>1, <1>2, <1>3, TypeCorrect, WiredHolds, KnownHolds, PTL DEF Spec

(* Those who were in the call before q came lose q with q.                 *)
THEOREM NoGhostsHolds == Spec => []NoGhosts
<1>1. ASSUME Left PROVE NoGhosts
  <2> SUFFICES ASSUME NEW p \in Tabs, NEW q \in Tabs, p \in elders[q], Sole(q), room[p] = room[q],
                      Present(p), p \notin lost, pc[p][Owner[q]].on, stage[q] = "ended",
                      \A send \in outbox[q] : send[1] # p
               PROVE  \E i \in DOMAIN queue[p] :
                        queue[p][i].type = "leave" /\ queue[p][i].from = Owner[q]
    BY DEF NoGhosts
  <2>1. Parted(p, q)
    BY <1>1 DEF Left
  <2> QED BY <2>1 DEF Parted, Queued, Says
<1> QED BY <1>1, LeftHolds, PTL

-----------------------------------------------------------------------------
(* Called is an invariant.                                                 *)

(* A handler reads the socket of its tab from the front.                   *)
LEMMA UpRead ==
    ASSUME TypeOK, NEW t \in Tabs, Handler(t), NEW s \in Tabs
    PROVE  \/ up'[s] = up[s] /\ ~(s = t /\ Route(t))
           \/ /\ s = t /\ Route(t)
              /\ up[s] \in Seq(Signals) /\ up[s] # <<>> /\ up'[s] = Tail(up[s]) /\ Head(up[s]) = up[s][1]
<1>1. CASE s = t /\ Route(t)
  <2>1. up \in [Tabs -> Seq(Signals)] /\ up[t] # <<>> /\ up'[t] = Tail(up[t])
    BY <1>1 DEF Route, TypeOK
  <2>2. Head(up[t]) = up[t][1]
    BY <2>1, ReadQueue
  <2> QED BY <1>1, <2>1, <2>2
<1>2. CASE s # t
  BY <1>2, HandlerFrame
<1>3. CASE ~Route(t)
  BY <1>3 DEF Handler, Enter, AddPeer, SendPresence, SendRosterState, AnnounceJoin, Deliver,
     EndServe, RemovePeer, CheckEmpty, DeleteRoom, AnnounceLeave
<1> QED BY <1>1, <1>2, <1>3

(* A handler adds nothing to a socket that it reads.                       *)
LEMMA UpKept ==
    ASSUME TypeOK, NEW t \in Tabs, Handler(t), NEW s \in Tabs, NEW i \in DOMAIN up'[s]
    PROVE  \E j \in DOMAIN up[s] : up'[s][i] = up[s][j]
<1>1. CASE up'[s] = up[s]
  BY <1>1
<1>2. CASE up[s] \in Seq(Signals) /\ up[s] # <<>> /\ up'[s] = Tail(up[s])
  BY <1>2, ReadQueue
<1> QED BY <1>1, <1>2, UpRead

(* What a handler starts to send.                                          *)
LEMMA NewSends ==
    ASSUME TypeOK, Wired, NEW t \in Tabs, Handler(t), NEW send \in outbox'[t], send \notin outbox[t]
    PROVE  \/ SendPresence(t) /\ send[2].type = "presence"
           \/ SendRosterState(t) /\ send[2].type = "roster_state"
           \/ AnnounceJoin(t) /\ send[2].type = "join"
           \/ AnnounceLeave(t) /\ send[2].type = "leave"
           \/ /\ Route(t) /\ up[t][1] \in Signals /\ 1 \in DOMAIN up[t]
              /\ send[2].type = up[t][1].type
              /\ send[2].type # "media_state" => Owner[send[1]] = up[t][1].to
<1>1. CASE SendPresence(t)
  <2>1. PICK m, to : Send(t, m, to) /\ m.type = "presence"
    BY <1>1 DEF SendPresence, Listing
  <2> QED BY <1>1, <2>1, Sends
<1>2. CASE SendRosterState(t)
  <2>1. PICK m, to : Send(t, m, to) /\ m.type = "roster_state"
    BY <1>2 DEF SendRosterState, Listing
  <2> QED BY <1>2, <2>1, Sends
<1>3. CASE AnnounceJoin(t)
  <2>1. PICK m, to : Send(t, m, to) /\ m.type = "join"
    BY <1>3 DEF AnnounceJoin, Notice
  <2> QED BY <1>3, <2>1, Sends
<1>4. CASE AnnounceLeave(t)
  <2>1. PICK m, to : Send(t, m, to) /\ m.type = "leave"
    BY <1>4 DEF AnnounceLeave, Notice
  <2> QED BY <1>4, <2>1, Sends
<1>5. CASE Route(t)
  <2>1. /\ up[t][1] = Head(up[t]) /\ up[t][1] \in Signals /\ 1 \in DOMAIN up[t]
        /\ room[t] \in Tabs /\ peers \in [Tabs -> [Users -> Tabs \cup {None}]]
    BY <1>5, ReadQueue DEF Route, TypeOK
  <2> DEFINE k == up[t][1]
  <2>2. k.type # "media_state" => k.to \in Users
    BY <2>1 DEF Signals
  <2>3. PICK n, to :
           /\ Send(t, n, to) /\ n.type = k.type
           /\ k.type # "media_state" => to = {peers[room[t]][k.to]} \ {None}
    BY <1>5, <2>1 DEF Route, Notice
  <2>4. send[1] \in to /\ send[2] = n
    BY <2>3, Sends
  <2>5. k.type # "media_state" => Owner[send[1]] = k.to
    BY <2>1, <2>2, <2>3, <2>4 DEF Wired, PeersWired
  <2> QED BY <1>5, <2>1, <2>3, <2>4, <2>5
<1>6. CASE Deliver(t)
  BY <1>6, Delivery
<1>7. CASE outbox' = outbox
  BY <1>7
<1> QED BY <1>1, <1>2, <1>3, <1>4, <1>5, <1>6, <1>7 DEF Handler, Enter, AddPeer, EndServe,
           RemovePeer, CheckEmpty, DeleteRoom, net

(* What a browser sends its handler comes after what it has sent.          *)
LEMMA BrowserSends ==
    ASSUME TypeOK, NEW t \in Tabs, Browser(t)
    PROVE  /\ \A i \in DOMAIN up[t] : i \in DOMAIN up'[t] /\ up'[t][i] = up[t][i]
           /\ \A i \in DOMAIN up'[t] \ DOMAIN up[t] :
                /\ \A j \in DOMAIN up'[t] : j = i \/ (j \in DOMAIN up[t] /\ j < i)
                /\ \/ up'[t][i].type = "media_state" /\ ToggleMic(t) /\ (up'[t][i].off <=> micOn[t])
                   \/ up'[t][i].type = "offer" /\ Negotiate(t, up'[t][i].to)
                   \/ up'[t][i].type = "answer" /\ Receive(t) /\ Says(queue[t][1], "offer", up'[t][i].to)
<1>0. up \in [Tabs -> Seq(Signals)] /\ up[t] \in Seq(Signals) /\ DOMAIN up[t] = 1..Len(up[t])
      /\ Len(up[t]) \in Nat
  BY DEF TypeOK
<1>1. CASE up' = up
  BY <1>1
<1>2. ASSUME NEW k \in Signals, SendSignal(t, k), up' # up
      PROVE  /\ \A i \in DOMAIN up[t] : i \in DOMAIN up'[t] /\ up'[t][i] = up[t][i]
             /\ \A i \in DOMAIN up'[t] \ DOMAIN up[t] :
                  /\ \A j \in DOMAIN up'[t] : j = i \/ (j \in DOMAIN up[t] /\ j < i)
                  /\ up'[t][i] = k
  <2>1. up'[t] = Append(up[t], k)
    BY <1>0, <1>2 DEF SendSignal
  <2>2. /\ DOMAIN up'[t] = DOMAIN up[t] \cup {Len(up[t]) + 1}
        /\ \A i \in DOMAIN up[t] : i < Len(up[t]) + 1 /\ up'[t][i] = up[t][i]
        /\ up'[t][Len(up[t]) + 1] = k
    BY <1>0, <2>1, AppendQueue
  <2> QED BY <2>2
<1>3. CASE ToggleMic(t) /\ up' # up
  <2>1. PICK k : SendSignal(t, k) /\ k = [type |-> "media_state", to |-> None, off |-> micOn[t]]
    BY <1>3 DEF ToggleMic
  <2>2. k \in Signals /\ k.type = "media_state" /\ k.off = micOn[t]
    BY <2>1 DEF Signals, TypeOK
  <2> QED BY <1>2, <1>3, <2>1, <2>2
<1>4. CASE (\E u \in Users : Negotiate(t, u)) /\ up' # up
  <2>1. PICK u \in Users : Negotiate(t, u)
    BY <1>4
  <2>2. PICK k : SendSignal(t, k) /\ k = [type |-> "offer", to |-> u, off |-> FALSE]
    BY <2>1 DEF Negotiate
  <2>3. k \in Signals /\ k.type = "offer" /\ k.to = u
    BY <2>2 DEF Signals
  <2> QED BY <1>2, <1>4, <2>1, <2>2, <2>3
<1>5. CASE Receive(t) /\ up' # up
  <2>1. /\ queue[t][1] \in Messages /\ queue[t][1] = Head(queue[t])
    BY <1>5, ReadQueue DEF Receive, TypeOK
  <2> DEFINE m == queue[t][1]
  <2>2. TakeOffer(t, m)
    BY <1>5, <2>1 DEF Receive, TakePresence, TakeRosterState, TakeMediaState, TakeJoin, TakeLeave, TakeAnswer
  <2>3. m.type = "offer" /\ m.from \in Users
    BY <2>1, <2>2, MessageTypes DEF TakeOffer
  <2>4. PICK k : SendSignal(t, k) /\ k = [type |-> "answer", to |-> m.from, off |-> FALSE]
    BY <2>2 DEF TakeOffer
  <2>5. k \in Signals /\ k.type = "answer" /\ k.to = m.from
    BY <2>3, <2>4 DEF Signals
  <2>6. Says(m, "offer", k.to)
    BY <2>3, <2>5 DEF Says
  <2> QED BY <1>2, <1>5, <2>4, <2>5, <2>6
<1> QED BY <1>1, <1>3, <1>4, <1>5 DEF Browser, Mount, Opened, AcquireMedia, Leave, ConnectionFails

(* A handler forwards no offer from the one who was there before.          *)
LEMMA HandlerCalled ==
    ASSUME TypeOK, Wired, Credible, Called, NEW t \in Tabs, Handler(t)
    PROVE  Called'
<1> SUFFICES ASSUME NEW p \in Tabs, NEW q \in Tabs, Sole(p)', Sole(q)', p \in elders'[q]
             PROVE  Uncalled(p, q)' /\ Answered(p, q)'
  BY DEF Called
<1> DEFINE u == Owner[q]
           v == Owner[p]
<1>0. /\ Sole(p) /\ Sole(q) /\ UNCHANGED <<pc, ws, broken>> /\ v \in Users
      /\ \A s \in Tabs \ {t} : outbox'[s] = outbox[s]
  BY SoleBefore, HandlerFrame, TabsAndUsers
<1>1. CASE t = q /\ AddPeer(q)
  <2>1. /\ UNCHANGED <<queue, outbox, up>> /\ ~pc[q][v].on
        /\ \A i \in DOMAIN up[p] : up[p][i].type # "media_state" => up[p][i].to # u
        /\ \A send \in outbox[p] : send[1] # q
        /\ DOMAIN queue[q] = {}
    BY <1>0, <1>1, Newcomer
  <2>2. Uncalled(p, q)'
    BY <1>0, <2>1 DEF Uncalled, Queued, Sending
  <2>3. ~Answering(p, q)'
    BY <1>0, <2>1 DEF Answering, Queued, Sending
  <2> QED BY <2>2, <2>3 DEF Answered
<1>2. CASE ~(t = q /\ AddPeer(q))
  <2>1. p \in elders[q] /\ stage[p] \in Served /\ q \in Came
    BY <1>2, EldersBefore
  <2>2. Uncalled(p, q) /\ Answered(p, q)
    BY <1>0, <2>1 DEF Called
  <2>3. \A type \in {"join", "offer", "answer"} : Sending(p, q, type)' =>
           \/ Sending(p, q, type)
           \/ \E i \in DOMAIN up[p] : up[p][i].type = type /\ up[p][i].to = u
    <3>1. ASSUME NEW type \in {"join", "offer", "answer"}, NEW send \in outbox'[p],
                 send[1] = q, send[2].type = type, send \notin outbox[p]
          PROVE  \E i \in DOMAIN up[p] : up[p][i].type = type /\ up[p][i].to = u
      <4>1. t = p
        BY <1>0, <3>1
      <4>2. ~AnnounceJoin(p)
        BY <2>1 DEF AnnounceJoin, Served
      <4>3. \/ type = "join" /\ AnnounceJoin(p)
            \/ /\ up[p][1] \in Signals /\ 1 \in DOMAIN up[p] /\ type = up[p][1].type
               /\ Owner[send[1]] = up[p][1].to
        BY <3>1, <4>1, NewSends
      <4> QED BY <3>1, <4>2, <4>3
    <3> QED BY <3>1 DEF Sending
  <2>4. \A type \in {"join", "offer", "answer"} : Queued(q, type, v)' =>
           Queued(q, type, v) \/ Sending(p, q, type)
    <3>1. ASSUME NEW type \in {"join", "offer", "answer"}, NEW i \in DOMAIN queue'[q],
                 Says(queue'[q][i], type, v)
          PROVE  Queued(q, type, v) \/ Sending(p, q, type)
      <4>1. CASE i \in DOMAIN queue[q]
        BY <3>1, <4>1, Arrives DEF Queued
      <4>2. CASE i \notin DOMAIN queue[q]
        <5>1. <<q, queue'[q][i]>> \in outbox[t]
          BY <4>2, Arrives
        <5>2. t = p
          BY <1>0, <3>1, <5>1, SoleSpeaks DEF Says, From
        <5> QED BY <3>1, <5>1, <5>2 DEF Sending, Says
      <4> QED BY <4>1, <4>2
    <3> QED BY <3>1 DEF Queued
  <2>5. \A i \in DOMAIN up[p] : ~(up[p][i].type = "join")
    <3>1. up[p] \in Seq(Signals)
      BY DEF TypeOK
    <3>2. \A i \in DOMAIN up[p] : up[p][i] \in Signals
      BY <3>1
    <3> QED BY <3>2 DEF Signals
  <2>6. Uncalled(p, q)'
    <3>1. ~Sending(p, q, "join")' /\ ~Sending(p, q, "offer")'
      BY <2>2, <2>3, <2>5 DEF Uncalled
    <3>2. ~Queued(q, "join", v)' /\ ~Queued(q, "offer", v)'
      BY <2>2, <2>4 DEF Uncalled
    <3>3. \A i \in DOMAIN up'[p] : up'[p][i].type = "offer" => up'[p][i].to # u
      BY <2>2, UpKept DEF Uncalled
    <3> QED BY <1>0, <2>2, <3>1, <3>2, <3>3 DEF Uncalled
  <2>7. Answering(p, q)' => Answering(p, q)
    <3>1. ASSUME NEW i \in DOMAIN up'[p], up'[p][i].type = "answer" /\ up'[p][i].to = u PROVE Answering(p, q)
      BY <3>1, UpKept DEF Answering
    <3>2. Sending(p, q, "answer")' => Answering(p, q)
      BY <2>3 DEF Answering
    <3>3. Queued(q, "answer", v)' => Answering(p, q)
      BY <2>4 DEF Answering
    <3> QED BY <1>0, <3>1, <3>2, <3>3 DEF Answering
  <2>8. stage'[q] \in InCall => stage[q] \in InCall
    <3>1. stage[q] \in Stages
      BY DEF TypeOK
    <3>2. stage[q] \notin InCall => q \in Went
      BY <2>1, <3>1 DEF InCall, Came, Went, Stages
    <3>3. stage[q] \notin InCall => q \in Went'
      BY <3>2, StagesGoOn
    <3> QED BY <3>3 DEF InCall, Went
  <2>9. Answered(p, q)'
    BY <1>0, <2>2, <2>7, <2>8 DEF Answered
  <2> QED BY <2>6, <2>9
<1> QED BY <1>1, <1>2

(* A browser answers what it has been offered, and once.                   *)
LEMMA BrowserCalled ==
    ASSUME TypeOK, Wired, Known, Called, NEW t \in Tabs, Browser(t)
    PROVE  Called'
<1> SUFFICES ASSUME NEW p \in Tabs, NEW q \in Tabs, Sole(p)', Sole(q)', p \in elders'[q]
             PROVE  Uncalled(p, q)' /\ Answered(p, q)'
  BY DEF Called
<1> DEFINE u == Owner[q]
           v == Owner[p]
<1>0. Sole(p) /\ Sole(q) /\ UNCHANGED <<stage, outbox, elders>> /\ u \in Users /\ v \in Users
  BY SoleBefore, BrowserFrame, TabsAndUsers
<1>1. Uncalled(p, q) /\ Answered(p, q) /\ Elder(p, q) /\ p \in elders[q]
  BY <1>0 DEF Called, Known
<1>2. \A type : Queued(q, type, v)' => Queued(q, type, v)
  <2>1. PICK n \in Nat : \A i \in DOMAIN queue'[q] : i + n \in DOMAIN queue[q] /\ queue'[q][i] = queue[q][i + n]
    BY BrowserTakes
  <2> QED BY <2>1 DEF Queued
<1>3. ASSUME NEW s \in {p, q}, Receive(s) PROVE 1 \in DOMAIN queue[s]
  BY <1>3, ReadQueue DEF Receive, TypeOK
<1>4. pc'[q][v].on =>
         /\ ~pc'[q][v].polite
         /\ pc'[q][v].sig = "agreed" => Answering(p, q)
  <2> SUFFICES ASSUME pc'[q][v].on
               PROVE  ~pc'[q][v].polite /\ (pc'[q][v].sig = "agreed" => Answering(p, q))
    OBVIOUS
  <2>1. CASE t # q
    BY <1>1, <2>1, BrowserFrame DEF Uncalled, Answering
  <2>2. CASE t = q /\ ~Receive(q)
    BY <1>0, <1>1, <2>2, BrowserConns DEF Uncalled, Answering
  <2>3. CASE t = q /\ Receive(q)
    <3>1. Turns(v, queue[q][1], pc[q][v], pc'[q][v]) /\ 1 \in DOMAIN queue[q]
      BY <1>0, <1>3, <2>3, ReceiveTurns
    <3>2. ~Says(queue[q][1], "join", v) /\ ~Says(queue[q][1], "offer", v)
      BY <1>1, <3>1 DEF Uncalled, Queued
    <3>3. Says(queue[q][1], "answer", v) => Answering(p, q)
      BY <3>1 DEF Answering, Queued
    <3>4. pc[q][v].on /\ pc[q][v].sig = "agreed" => Answering(p, q)
      BY DEF Answering
    <3>5. CASE pc[q][v].on
      BY <1>1, <3>1, <3>2, <3>3, <3>4, <3>5 DEF Turns, Uncalled
    <3>6. CASE ~pc[q][v].on
      BY <3>1, <3>2, <3>6 DEF Turns, Shows
    <3> QED BY <3>5, <3>6
  <2> QED BY <2>1, <2>2, <2>3
<1>5. ASSUME NEW i \in DOMAIN up'[p], up'[p][i].to = u
      PROVE  /\ up'[p][i].type # "offer"
             /\ up'[p][i].type = "answer" =>
                  Answering(p, q) \/ (t = p /\ Receive(p) /\ Says(queue[p][1], "offer", u))
  <2>1. CASE i \in DOMAIN up[p] /\ up'[p][i] = up[p][i]
    BY <1>1, <1>5, <2>1 DEF Uncalled, Answering
  <2>2. CASE t = p /\ i \notin DOMAIN up[p]
    <3>1. ~Negotiate(p, u)
      BY <1>1 DEF Negotiate, Elder
    <3> QED BY <1>5, <2>2, <3>1, BrowserSends
  <2>3. t # p => up'[p] = up[p]
    BY BrowserFrame
  <2>4. t = p => \A j \in DOMAIN up[p] : up'[p][j] = up[p][j]
    BY BrowserSends
  <2> QED BY <2>1, <2>2, <2>3, <2>4
<1>6. Uncalled(p, q)'
  BY <1>0, <1>1, <1>2, <1>4, <1>5 DEF Uncalled, Sending
<1>7. Answering(p, q)' => Answering(p, q) \/ (t = p /\ Receive(p) /\ Says(queue[p][1], "offer", u))
  <2>1. Queued(q, "answer", v)' => Answering(p, q)
    BY <1>2 DEF Answering
  <2>2. Sending(p, q, "answer")' => Answering(p, q)
    BY <1>0 DEF Sending, Answering
  <2> QED BY <1>4, <1>5, <2>1, <2>2 DEF Answering
<1>8. ASSUME Answering(p, q)', stage[q] \in InCall, ws'[p] # "closed", u \notin broken'[p]
      PROVE  pc'[p][u].on /\ pc'[p][u].sig = "answered"
  <2>0. ws[p] # "closed" /\ u \notin broken[p]
    BY <1>8, BrowserGoesOn
  <2>1. CASE t = p /\ Receive(p)
    <3>1. Turns(u, queue[p][1], pc[p][u], pc'[p][u]) /\ 1 \in DOMAIN queue[p]
      BY <1>0, <1>3, <2>1, ReceiveTurns
    <3>2. ~Says(queue[p][1], "leave", u)
      BY <1>0, <1>8, <3>1, SoleSpeaks DEF Says, From, InCall
    <3>3. CASE Says(queue[p][1], "offer", u)
      BY <3>1, <3>2, <3>3 DEF Turns
    <3>4. CASE ~Says(queue[p][1], "offer", u)
      <4>1. pc[p][u].on /\ pc[p][u].sig = "answered"
        BY <1>1, <1>7, <1>8, <2>0, <3>4 DEF Answered
      <4> QED BY <3>1, <3>2, <3>4, <4>1 DEF Turns
    <3> QED BY <3>3, <3>4
  <2>2. CASE ~(t = p /\ Receive(p))
    <3>1. pc[p][u].on /\ pc[p][u].sig = "answered"
      BY <1>1, <1>7, <1>8, <2>0, <2>2 DEF Answered
    <3>2. CASE t # p
      BY <3>1, <3>2, BrowserFrame
    <3>3. CASE t = p /\ ~Receive(p)
      BY <1>0, <1>8, <3>1, <3>3, BrowserConns
    <3> QED BY <2>2, <3>2, <3>3
  <2> QED BY <2>1, <2>2
<1>9. Answered(p, q)'
  BY <1>0, <1>8 DEF Answered
<1> QED BY <1>6, <1>9

(* A tab that was there does not call a sole newcomer; what it answers it  *)
(* has answered.                                                           *)
THEOREM CalledHolds == Spec => []Called
<1>1. Init => Called
  BY DEF Init, Called
<1>2. ASSUME Called, UNCHANGED vars PROVE Called'
  BY <1>2 DEF vars, hub, net, view, Called, Uncalled, Answered, Answering, Queued, Sending, Sole
<1>3. ASSUME TypeOK, Credible, Wired, Known, Called, Next PROVE Called'
  BY <1>3, HandlerCalled, BrowserCalled DEF Next
<1> QED BY <1>1, <1>2, <1>3, TypeCorrect, CredibleHolds, WiredHolds, KnownHolds, PTL DEF Spec

(* Of two in a call, the one who came later calls and the other answers.   *)
THEOREM OneCallerHolds == Spec => []OneCaller
<1>1. ASSUME TypeOK, Wired, Known, Called PROVE OneCaller
  <2> SUFFICES ASSUME NEW p \in Tabs, NEW q \in Tabs, p \in elders[q], Together(p, q), Sole(p), Sole(q),
                      Owner[q] \notin broken[p], Owner[p] \notin broken[q]
               PROVE  /\ pc[p][Owner[q]].on => pc[p][Owner[q]].polite
                      /\ pc[q][Owner[p]].on =>
                           /\ ~pc[q][Owner[p]].polite
                           /\ pc[q][Owner[p]].sig = "agreed" /\ ws[p] = "open"
                                => pc[p][Owner[q]].on /\ pc[p][Owner[q]].sig = "answered"
    BY DEF OneCaller
  <2>1. Elder(p, q) /\ Uncalled(p, q) /\ Answered(p, q) /\ stage[q] = "serving"
    BY <1>1 DEF Known, Called, Together
  <2> QED BY <2>1 DEF Elder, Uncalled, Answered, Answering, InCall
<1> QED BY <1>1, TypeCorrect, WiredHolds, KnownHolds, CalledHolds, PTL

-----------------------------------------------------------------------------
(* Heard is an invariant.                                                  *)

(* The hub's record of a microphone changes with what its tab has sent.    *)
LEMMA MutedChanges ==
    ASSUME TypeOK, NEW t \in Tabs, Handler(t), NEW q \in Tabs
    PROVE  muted'[q] = IF q = t /\ Route(t) /\ up[t][1].type = "media_state"
                         THEN up[t][1].off ELSE muted[q]
<1>1. CASE q = t /\ Route(t)
  <2>1. up[t][1] = Head(up[t]) /\ muted \in [Tabs -> BOOLEAN]
    BY <1>1, UpRead DEF TypeOK
  <2> QED BY <1>1, <2>1 DEF Route
<1>2. CASE q # t
  BY <1>2, HandlerFrame
<1>3. CASE ~Route(t)
  BY <1>3 DEF Handler, Enter, AddPeer, SendPresence, SendRosterState, AnnounceJoin, Deliver,
     EndServe, RemovePeer, CheckEmpty, DeleteRoom, AnnounceLeave, hub
<1> QED BY <1>1, <1>2, <1>3

(* A handler records a microphone as its tab has sent it.                  *)
LEMMA HandlerRecorded ==
    ASSUME TypeOK, NEW t \in Tabs, Handler(t), NEW q \in Tabs, Recorded(q)
    PROVE  Recorded(q)'
<1>0. UNCHANGED <<micOn, unsent>>
  BY HandlerFrame
<1>1. CASE up'[q] = up[q] /\ ~(q = t /\ Route(t))
  <2>1. muted'[q] = muted[q]
    BY <1>1, MutedChanges
  <2> QED BY <1>0, <1>1, <2>1 DEF Recorded
<1>2. CASE q = t /\ Route(t) /\ up[q] \in Seq(Signals) /\ up[q] # <<>> /\ up'[q] = Tail(up[q])
  <2>0. /\ DOMAIN up[q] \subseteq Nat \ {0} /\ 1 \in DOMAIN up[q] /\ DOMAIN up'[q] \subseteq Nat \ {0}
        /\ \A i \in DOMAIN up'[q] : i + 1 \in DOMAIN up[q] /\ up'[q][i] = up[q][i + 1]
        /\ \A i \in DOMAIN up[q] : i = 1 \/ (i - 1 \in DOMAIN up'[q] /\ up'[q][i - 1] = up[q][i])
    BY <1>2, ReadQueue
  <2> SUFFICES ASSUME q \notin unsent
               PROVE  /\ \A i \in DOMAIN up'[q] :
                            /\ up'[q][i].type = "media_state"
                            /\ \A j \in DOMAIN up'[q] : i < j => up'[q][j].type # "media_state"
                            => (up'[q][i].off <=> ~micOn[q])
                      /\ (\A i \in DOMAIN up'[q] : up'[q][i].type # "media_state") =>
                            (muted'[q] <=> ~micOn[q])
    BY <1>0 DEF Recorded
  <2>1. /\ \A i \in DOMAIN up[q] :
            /\ up[q][i].type = "media_state"
            /\ \A j \in DOMAIN up[q] : i < j => up[q][j].type # "media_state"
            => (up[q][i].off <=> ~micOn[q])
        /\ (\A i \in DOMAIN up[q] : up[q][i].type # "media_state") => (muted[q] <=> ~micOn[q])
    BY DEF Recorded
  <2>2. ASSUME NEW i \in DOMAIN up'[q], up'[q][i].type = "media_state",
               \A j \in DOMAIN up'[q] : i < j => up'[q][j].type # "media_state"
        PROVE  up'[q][i].off <=> ~micOn[q]
    <3>1. i + 1 \in DOMAIN up[q] /\ up'[q][i] = up[q][i + 1]
      BY <2>0
    <3>2. ASSUME NEW j \in DOMAIN up[q], i + 1 < j PROVE up[q][j].type # "media_state"
      <4>1. j # 1 /\ i < j - 1
        BY <2>0, <3>2
      <4> QED BY <2>0, <2>2, <4>1
    <3> QED BY <2>1, <2>2, <3>1, <3>2
  <2>3. ASSUME \A i \in DOMAIN up'[q] : up'[q][i].type # "media_state"
        PROVE  muted'[q] <=> ~micOn[q]
    <3>1. \A j \in DOMAIN up[q] : j # 1 => up[q][j].type # "media_state"
      BY <2>0, <2>3
    <3>2. CASE up[q][1].type = "media_state"
      <4>1. muted'[q] = up[q][1].off
        BY <1>2, <3>2, MutedChanges
      <4>2. \A j \in DOMAIN up[q] : 1 < j => up[q][j].type # "media_state"
        BY <3>1
      <4> QED BY <2>0, <2>1, <3>2, <4>1, <4>2
    <3>3. CASE up[q][1].type # "media_state"
      <4>1. muted'[q] = muted[q]
        BY <3>3, <1>2, MutedChanges
      <4> QED BY <2>1, <3>1, <3>3, <4>1
    <3> QED BY <3>2, <3>3
  <2> QED BY <2>2, <2>3
<1> QED BY <1>1, <1>2, UpRead

(* A browser sends its handler each change of its microphone.              *)
LEMMA BrowserRecorded ==
    ASSUME TypeOK, NEW t \in Tabs, Browser(t), NEW q \in Tabs, Recorded(q)
    PROVE  Recorded(q)'
<1>0. muted' = muted
  BY BrowserFrame
<1>1. CASE t # q
  BY <1>0, <1>1, BrowserFrame DEF Recorded
<1>2. CASE t = q /\ ToggleMic(q)
  <2> SUFFICES ASSUME q \notin unsent' PROVE Recorded(q)'
    BY DEF Recorded
  <2>1. ws[q] = "open"
    BY <1>2 DEF ToggleMic
  <2>2. /\ up[q] \in Seq(Signals) /\ DOMAIN up[q] = 1..Len(up[q]) /\ Len(up[q]) \in Nat
        /\ up \in [Tabs -> Seq(Signals)] /\ micOn \in [Tabs -> BOOLEAN]
    BY DEF TypeOK
  <2>3. PICK k : k = [type |-> "media_state", to |-> None, off |-> micOn[q]] /\ SendSignal(q, k)
    BY <1>2 DEF ToggleMic
  <2>4. k \in Signals /\ k.type = "media_state" /\ k.off = micOn[q]
    BY <2>2, <2>3 DEF Signals
  <2>5. up'[q] = Append(up[q], k)
    BY <2>1, <2>2, <2>3 DEF SendSignal
  <2>6. /\ DOMAIN up'[q] = DOMAIN up[q] \cup {Len(up[q]) + 1}
        /\ \A i \in DOMAIN up[q] : i < Len(up[q]) + 1
        /\ up'[q][Len(up[q]) + 1] = k
    BY <2>2, <2>4, <2>5, AppendQueue
  <2>7. micOn'[q] = ~micOn[q]
    BY <1>2, <2>2 DEF ToggleMic
  <2>8. \A i \in DOMAIN up'[q] :
           (\A j \in DOMAIN up'[q] : i < j => up'[q][j].type # "media_state") => i = Len(up[q]) + 1
    BY <2>4, <2>6
  <2>9. k.off <=> ~micOn'[q]
    BY <2>2, <2>4, <2>7
  <2> QED BY <2>4, <2>6, <2>8, <2>9 DEF Recorded
<1>3. CASE t = q /\ ~ToggleMic(q)
  <2>1. UNCHANGED <<micOn, unsent>>
    BY <1>3 DEF Browser, Mount, Opened, AcquireMedia, Receive, Leave, Negotiate, ConnectionFails, button
  <2>2. /\ \A i \in DOMAIN up[q] : i \in DOMAIN up'[q] /\ up'[q][i] = up[q][i]
        /\ \A i \in DOMAIN up'[q] \ DOMAIN up[q] : up'[q][i].type # "media_state"
    BY <1>3, BrowserSends
  <2> QED BY <1>0, <2>1, <2>2 DEF Recorded
<1> QED BY <1>1, <1>2, <1>3

(* A handler passes each change of a microphone on to those who were there.*)
LEMMA HandlerFlagged ==
    ASSUME TypeOK, Wired, Known, Joined, NEW t \in Tabs, Handler(t),
           NEW p \in Tabs, NEW q \in Tabs, Sole(q), p \in elders'[q], Meeting(p, q)',
           p \in elders[q] /\ Meeting(p, q) => Flagged(p, q)
    PROVE  Flagged(p, q)'
<1> DEFINE u == Owner[q]
<1>0. /\ pc' = pc /\ stage'[q] = "serving" /\ p \notin lost'
      /\ \A s \in Tabs \ {t} : outbox'[s] = outbox[s] /\ stage'[s] = stage[s]
      /\ stage \in [Tabs -> Stages] /\ muted \in [Tabs -> BOOLEAN]
  BY HandlerFrame DEF Meeting, TypeOK
<1>1. p \in elders[q] /\ stage[p] \in Served /\ Elder(p, q)
  <2>1. ~(t = q /\ AddPeer(q))
    BY <1>0 DEF AddPeer
  <2> QED BY <2>1, EldersBefore DEF Known
<1>2. CASE ~Meeting(p, q)
  <2>1. /\ t = q /\ stage[q] = "listed" /\ \A send \in outbox'[q] : send[2].type = "join"
    BY <1>1, <1>2, MeetingStarts DEF Served
  <2>2. \A i \in DOMAIN queue'[p] : ~Says(queue'[p][i], "media_state", u)
    <3>1. ~Deliver(t)
      BY <1>0, <2>1 DEF Deliver, hub
    <3>2. queue' = queue
      BY <3>1, QueuesKept
    <3> QED BY <2>1, <3>2, SoleSpeaks DEF Says, From, Served
  <2>3. ~muted'[q]
    <3>1. ~muted[q]
      BY <2>1 DEF Wired, TabsWired, Served
    <3>2. ~Route(q)
      BY <2>1 DEF Route
    <3> QED BY <3>1, <3>2, MutedChanges
  <2>4. ~pc'[p][u].on
    BY <1>0, <1>1, <2>1 DEF Elder, Served
  <2> QED BY <2>1, <2>2, <2>3, <2>4 DEF Flagged, Sound, Led, LastMute, NoMute
<1>3. CASE Meeting(p, q) /\ t = q /\ Route(q)
  <2>0. /\ Sound(p, q) /\ Led(p, q)
        /\ ~Sending(q, p, "media_state") => LastMute(p, q) /\ NoMute(p, q)
    BY <1>1, <1>3 DEF Flagged
  <2>1. queue' = queue /\ outbox[q] = {} /\ up[q][1] = Head(up[q]) /\ up[q][1] \in Signals
    <3>1. queue' = queue /\ outbox[q] = {}
      BY <1>3 DEF Route, Idle
    <3>2. up[q] \in Seq(Signals) /\ up[q] # <<>> /\ up[q][1] = Head(up[q])
      BY <1>3, UpRead
    <3>3. up[q][1] \in Signals
      BY <3>2, ReadQueue
    <3> QED BY <3>1, <3>2, <3>3
  <2>2. Led(p, q)'
    BY <1>0, <2>0, <2>1 DEF Led
  <2>3. CASE up[q][1].type = "media_state"
    <3>1. PICK n, to : /\ Send(q, n, to) /\ to = Others(q) /\ n.type = "media_state"
                       /\ n.muted = IF up[q][1].off THEN {u} ELSE {}
      <4> DEFINE n0 == Notice(up[q][1].type, u, up[q][1].off)
      <4>1. Send(q, n0, Others(q))
        BY <1>3, <2>1, <2>3 DEF Route
      <4>2. n0.type = "media_state" /\ n0.muted = IF up[q][1].off THEN {u} ELSE {}
        BY <2>3 DEF Notice
      <4> HIDE DEF n0
      <4> QED BY <4>1, <4>2
    <3>2. \A send \in outbox'[q] : send[2] = n
      BY <3>1, Sends
    <3>3. u \in n.muted <=> muted'[q]
      <4>1. muted'[q] = up[q][1].off
        BY <1>3, <2>3, MutedChanges
      <4> QED BY <3>1, <4>1
    <3>4. pc[p][u].on \/ Queued(p, "join", u)
      <4>1. Meets(p, q)
        BY <1>3 DEF Joined
      <4>2. \A send \in outbox[p] : ~(send[1] = p /\ Shows(send[2], u))
        BY <1>1, <1>3 DEF Wired, OutboxesWired, Posted, Shows, Says, Meeting, Served
      <4>3. \A i \in DOMAIN queue[p] : Shows(queue[p][i], u) => Says(queue[p][i], "join", u)
        BY <1>1 DEF Elder, Unlisted, Shows
      <4> QED BY <2>1, <4>1, <4>2, <4>3 DEF Meets, Queued
    <3>5. Sound(p, q)'
      BY <1>0, <2>1, <3>2, <3>3, <3>4 DEF Sound, Queued
    <3>6. Sending(q, p, "media_state")'
      <4>1. p \in Others(q)
        BY <1>3, OthersPresent DEF Wired, Meeting, Present
      <4>2. <<p, n>> \in outbox'[q] /\ <<p, n>>[1] = p /\ <<p, n>>[2].type = "media_state"
        BY <3>1, <4>1, Sends
      <4> QED BY <4>2 DEF Sending
    <3> QED BY <2>2, <3>5, <3>6 DEF Flagged
  <2>4. CASE up[q][1].type # "media_state"
    <3>1. \A send \in outbox'[q] : send[2].type # "media_state"
      <4>1. ASSUME NEW send \in outbox'[q] PROVE send[2].type # "media_state"
        BY <1>3, <2>1, <2>4, NewSends DEF Route, SendPresence, SendRosterState, AnnounceJoin, AnnounceLeave
      <4> QED BY <4>1
    <3>2. muted'[q] = muted[q]
      BY <1>3, <2>4, MutedChanges
    <3>3. LastMute(p, q) /\ NoMute(p, q)
      BY <2>0, <2>1 DEF Sending
    <3>4. LastMute(p, q)' /\ NoMute(p, q)'
      BY <1>0, <2>1, <3>2, <3>3 DEF LastMute, NoMute, Queued
    <3> QED BY <2>2, <3>1, <3>4 DEF Flagged, Sound
  <2> QED BY <2>3, <2>4
<1>4. CASE Meeting(p, q) /\ ~(t = q /\ Route(q))
  <2>0. /\ Sound(p, q) /\ Led(p, q)
        /\ ~Sending(q, p, "media_state") => LastMute(p, q) /\ NoMute(p, q)
    BY <1>1, <1>4 DEF Flagged
  <2>1. muted'[q] = muted[q]
    BY <1>4, MutedChanges
  <2>2. outbox'[q] \subseteq outbox[q] /\ (t = q => Deliver(t))
    <3>1. CASE t # q
      BY <1>0, <3>1
    <3>2. CASE t = q
      <4>1. Deliver(t)
        BY <1>0, <1>4, <3>2 DEF Meeting, Handler, Enter, AddPeer, SendPresence, SendRosterState,
           AnnounceJoin, EndServe, RemovePeer, CheckEmpty, DeleteRoom, AnnounceLeave
      <4> QED BY <3>2, <4>1, Arrives
    <3> QED BY <3>1, <3>2
  <2>3. ASSUME NEW i \in DOMAIN queue'[p] \ DOMAIN queue[p], Says(queue'[p][i], "media_state", u)
        PROVE  /\ u \in queue'[p][i].muted <=> muted[q]
               /\ pc[p][u].on \/ Queued(p, "join", u)
    <3>1. <<p, queue'[p][i]>> \in outbox[t]
      BY <2>3, Arrives
    <3>2. t = q
      BY <2>3, <3>1, SoleSpeaks DEF Says, From
    <3> QED BY <2>0, <2>3, <3>1, <3>2 DEF Sound, Says
  <2>4. Sound(p, q)'
    <3>1. Queued(p, "join", u) => Queued(p, "join", u)'
      BY Arrives DEF Queued
    <3> QED BY <1>0, <2>0, <2>1, <2>2, <3>1 DEF Sound
  <2>5. Led(p, q)'
    <3> SUFFICES ASSUME NEW i \in DOMAIN queue'[p], Says(queue'[p][i], "media_state", u), ~pc[p][u].on
                 PROVE  \E j \in DOMAIN queue'[p] : j < i /\ Says(queue'[p][j], "join", u)
      BY <1>0 DEF Led
    <3>1. CASE i \in DOMAIN queue[p]
      <4>1. queue'[p][i] = queue[p][i]
        BY <3>1, Arrives
      <4>2. PICK j \in DOMAIN queue[p] : j < i /\ Says(queue[p][j], "join", u)
        BY <2>0, <3>1, <4>1 DEF Led
      <4> QED BY <4>2, Arrives
    <3>2. CASE i \notin DOMAIN queue[p]
      <4>1. PICK j \in DOMAIN queue[p] : Says(queue[p][j], "join", u)
        BY <2>3, <3>2 DEF Queued
      <4>2. j \in DOMAIN queue'[p] /\ queue'[p][j] = queue[p][j]
        BY Arrives
      <4>3. j < i
        BY <3>2, <4>1, <4>2, Arrives
      <4> QED BY <4>1, <4>2, <4>3
    <3> QED BY <3>1, <3>2
  <2>6. ASSUME ~Sending(q, p, "media_state")' PROVE LastMute(p, q)' /\ NoMute(p, q)'
    <3>1. CASE \E i \in DOMAIN queue'[p] \ DOMAIN queue[p] : Says(queue'[p][i], "media_state", u)
      <4>1. PICK i \in DOMAIN queue'[p] \ DOMAIN queue[p] : Says(queue'[p][i], "media_state", u)
        BY <3>1
      <4>2. \A j \in DOMAIN queue'[p] : j = i \/ j < i
        BY Arrives
      <4>3. u \in queue'[p][i].muted <=> muted[q]
        BY <2>3, <4>1
      <4> QED BY <2>1, <4>1, <4>2, <4>3 DEF LastMute, NoMute, Queued
    <3>2. CASE \A i \in DOMAIN queue'[p] \ DOMAIN queue[p] : ~Says(queue'[p][i], "media_state", u)
      <4>1. ~Sending(q, p, "media_state")
        <5>1. ASSUME NEW send \in outbox[q], send[1] = p, send[2].type = "media_state" PROVE FALSE
          <6>1. send \notin outbox'[q]
            BY <2>6, <5>1 DEF Sending
          <6>2. t = q /\ Deliver(t)
            BY <1>0, <2>2, <6>1
          <6>3. PICK i \in DOMAIN queue'[p] \ DOMAIN queue[p] : queue'[p][i] = send[2]
            BY <1>0, <5>1, <6>1, <6>2, Arrives
          <6>4. send[2].from = u
            BY <5>1 DEF Wired, OutboxesWired, Posted
          <6> QED BY <3>2, <5>1, <6>3, <6>4 DEF Says
        <5> QED BY <5>1 DEF Sending
      <4>2. LastMute(p, q) /\ NoMute(p, q)
        BY <2>0, <4>1
      <4>3. \A i \in DOMAIN queue[p] : i \in DOMAIN queue'[p] /\ queue'[p][i] = queue[p][i]
        BY Arrives
      <4>4. LastMute(p, q)'
        BY <2>1, <3>2, <4>2, <4>3 DEF LastMute
      <4>5. NoMute(p, q)'
        BY <1>0, <2>1, <4>2, <4>3 DEF NoMute, Queued
      <4> QED BY <4>4, <4>5
    <3> QED BY <3>1, <3>2
  <2> QED BY <2>4, <2>5, <2>6 DEF Flagged
<1> QED BY <1>2, <1>3, <1>4

(* A browser that takes the last flag shows it.                            *)
LEMMA BrowserFlagged ==
    ASSUME TypeOK, Wired, Known, NEW t \in Tabs, Browser(t),
           NEW p \in Tabs, NEW q \in Tabs, Sole(q), p \in elders'[q], Meeting(p, q)',
           p \in elders[q] /\ Meeting(p, q) => Flagged(p, q)
    PROVE  Flagged(p, q)'
<1> DEFINE u == Owner[q]
<1>0. UNCHANGED <<stage, room, peers, outbox, lost, elders, muted>> /\ u \in Users
  BY BrowserFrame, TabsAndUsers
<1>1. Meeting(p, q) /\ u \notin broken'[p] /\ ws'[p] # "closed" /\ stage[q] = "serving"
  BY <1>0, BrowserGoesOn DEF Meeting, Present
<1>2. /\ Sound(p, q) /\ Led(p, q)
      /\ ~Sending(q, p, "media_state") => LastMute(p, q) /\ NoMute(p, q)
      /\ Unlisted(p, u)
  BY <1>0, <1>1 DEF Flagged, Known, Elder
<1>3. ASSUME queue'[p] = queue[p],
             pc'[p][u].on <=> pc[p][u].on, pc[p][u].on => (pc'[p][u].muted <=> pc[p][u].muted)
      PROVE  Flagged(p, q)'
  <2>1. Sound(p, q)' /\ Led(p, q)'
    BY <1>0, <1>2, <1>3 DEF Sound, Led, Queued
  <2>2. ~Sending(q, p, "media_state")' => LastMute(p, q)' /\ NoMute(p, q)'
    BY <1>0, <1>2, <1>3 DEF Sending, LastMute, NoMute, Queued
  <2> QED BY <2>1, <2>2 DEF Flagged
<1>4. CASE t # p
  BY <1>3, <1>4, BrowserFrame
<1>5. CASE t = p /\ ~Receive(p)
  <2>1. /\ pc'[p][u].on <=> pc[p][u].on
        /\ pc[p][u].on => (pc'[p][u].muted <=> pc[p][u].muted)
        /\ ~Leave(p)
    BY <1>0, <1>1, <1>5, BrowserConns
  <2>2. queue' = queue
    BY <1>5, <2>1 DEF Browser, Mount, Opened, AcquireMedia, ToggleMic, Negotiate, ConnectionFails, net
  <2> QED BY <1>3, <2>1, <2>2
<1>6. CASE t = p /\ Receive(p)
  <2> DEFINE m == queue[p][1]
  <2>1. queue[p] \in Seq(Messages) /\ queue[p] # <<>> /\ queue'[p] = Tail(queue[p])
    BY <1>6 DEF Receive, TypeOK
  <2>2. /\ 1 \in DOMAIN queue[p] /\ DOMAIN queue[p] \subseteq Nat \ {0} /\ DOMAIN queue'[p] \subseteq Nat \ {0}
        /\ \A i \in DOMAIN queue'[p] : i + 1 \in DOMAIN queue[p] /\ queue'[p][i] = queue[p][i + 1]
        /\ \A i \in DOMAIN queue[p] : i = 1 \/ (i - 1 \in DOMAIN queue'[p] /\ queue'[p][i - 1] = queue[p][i])
    BY <2>1, ReadQueue
  <2>3. Turns(u, m, pc[p][u], pc'[p][u])
    BY <1>0, <1>6, ReceiveTurns
  <2>4. ~Says(m, "leave", u) /\ (m.type \in {"presence", "roster_state"} => u \notin m.users)
    BY <1>1, <1>2, <2>2, SoleSpeaks DEF Says, From, Unlisted
  <2> HIDE DEF m
  <2>5. pc[p][u].on \/ Says(m, "join", u) => pc'[p][u].on
    BY <2>3, <2>4 DEF Turns, Shows
  <2>6. Sound(p, q)'
    <3>1. Queued(p, "join", u) => Queued(p, "join", u)' \/ pc'[p][u].on
      BY <2>2, <2>5 DEF Queued, m
    <3> QED BY <1>0, <1>2, <2>5, <3>1 DEF Sound
  <2>7. Led(p, q)'
    <3> SUFFICES ASSUME NEW i \in DOMAIN queue'[p], Says(queue'[p][i], "media_state", u), ~pc'[p][u].on
                 PROVE  \E j \in DOMAIN queue'[p] : j < i /\ Says(queue'[p][j], "join", u)
      BY DEF Led
    <3>1. Says(queue[p][i + 1], "media_state", u) /\ i + 1 \in DOMAIN queue[p]
      BY <2>2
    <3>2. PICK j \in DOMAIN queue[p] : j < i + 1 /\ Says(queue[p][j], "join", u)
      BY <1>2, <2>5, <3>1 DEF Led
    <3>3. j # 1
      BY <2>5, <3>2 DEF m
    <3>4. j - 1 \in DOMAIN queue'[p] /\ queue'[p][j - 1] = queue[p][j] /\ j - 1 < i
      BY <2>2, <3>2, <3>3
    <3> QED BY <3>2, <3>4
  <2>8. ASSUME ~Sending(q, p, "media_state")' PROVE LastMute(p, q)' /\ NoMute(p, q)'
    <3>1. LastMute(p, q) /\ NoMute(p, q)
      BY <1>0, <1>2, <2>8 DEF Sending
    <3>2. ASSUME NEW i \in DOMAIN queue'[p], Says(queue'[p][i], "media_state", u),
                 \A j \in DOMAIN queue'[p] : i < j => ~Says(queue'[p][j], "media_state", u)
          PROVE  u \in queue'[p][i].muted <=> muted[q]
      <4>1. i + 1 \in DOMAIN queue[p] /\ queue'[p][i] = queue[p][i + 1]
        BY <2>2
      <4>2. ASSUME NEW j \in DOMAIN queue[p], i + 1 < j PROVE ~Says(queue[p][j], "media_state", u)
        <5>1. j # 1 /\ i < j - 1
          BY <2>2, <4>2
        <5> QED BY <2>2, <3>2, <5>1
      <4> QED BY <3>1, <3>2, <4>1, <4>2 DEF LastMute
    <3>3. ASSUME ~Queued(p, "media_state", u)'
          PROVE  muted[q] <=> pc'[p][u].on /\ pc'[p][u].muted
      <4>1. \A j \in DOMAIN queue[p] : j # 1 => ~Says(queue[p][j], "media_state", u)
        BY <2>2, <3>3 DEF Queued
      <4>2. CASE Says(m, "media_state", u)
        <5>1. u \in m.muted <=> muted[q]
          BY <2>2, <3>1, <4>1, <4>2 DEF LastMute, m
        <5>2. pc[p][u].on
          BY <1>2, <2>2, <4>2 DEF Led, m
        <5> QED BY <2>3, <2>5, <4>2, <5>1, <5>2 DEF Turns, Flags
      <4>3. CASE ~Says(m, "media_state", u)
        <5>1. muted[q] <=> pc[p][u].on /\ pc[p][u].muted
          BY <3>1, <4>1, <4>3 DEF NoMute, Queued, m
        <5>2. CASE pc[p][u].on
          BY <2>3, <2>4, <2>5, <4>3, <5>1, <5>2 DEF Turns, Flags
        <5>3. CASE ~pc[p][u].on
          BY <2>3, <5>1, <5>3 DEF Turns
        <5> QED BY <5>2, <5>3
      <4> QED BY <4>2, <4>3
    <3> QED BY <1>0, <3>2, <3>3 DEF LastMute, NoMute
  <2> QED BY <2>6, <2>7, <2>8 DEF Flagged
<1> QED BY <1>4, <1>5, <1>6

(* A microphone is as its tab has set it, but for what is on its way.      *)
THEOREM HeardHolds == Spec => []Heard
<1>1. Init => Heard
  BY DEF Init, Heard, Recorded
<1>2. ASSUME Heard, UNCHANGED vars PROVE Heard'
  BY <1>2 DEF vars, hub, net, view, button, Heard, Recorded, Flagged, Sound, Led, LastMute, NoMute,
     Queued, Sending, Meeting, Present, Sole
<1>3. ASSUME TypeOK, Wired, Known, Joined, Heard, Next PROVE Heard'
  <2>1. PICK t \in Tabs : Handler(t) \/ Browser(t)
    BY <1>3 DEF Next
  <2>2. ASSUME NEW q \in Tabs PROVE Recorded(q)'
    BY <1>3, <2>1, HandlerRecorded, BrowserRecorded DEF Heard
  <2>3. ASSUME NEW p \in Tabs, NEW q \in Tabs, Sole(q)', p \in elders'[q], Meeting(p, q)'
        PROVE  Flagged(p, q)'
    <3>1. Sole(q)
      BY <1>3, <2>1, <2>3, SoleBefore
    <3>2. p \in elders[q] /\ Meeting(p, q) => Flagged(p, q)
      BY <1>3, <3>1 DEF Heard
    <3> QED BY <1>3, <2>1, <2>3, <3>1, <3>2, HandlerFlagged, BrowserFlagged
  <2> QED BY <2>2, <2>3 DEF Heard
<1> QED BY <1>1, <1>2, <1>3, TypeCorrect, WiredHolds, KnownHolds, JoinedHolds, PTL DEF Spec

(* Those who were there see the microphone of a newcomer as it has set it. *)
THEOREM MuteShows == Spec => []MuteShown
<1>1. ASSUME TypeOK, MeshComplete, Heard PROVE MuteShown
  <2> SUFFICES ASSUME NEW p \in Tabs, NEW q \in Tabs, p \in elders[q], Together(p, q), UpToDate(p, q),
                      Sole(q), up[q] = <<>>, q \notin unsent, p \notin lost, Owner[q] \notin broken[p]
               PROVE  pc[p][Owner[q]].muted = ~micOn[q]
    BY DEF MuteShown
  <2>1. pc[p][Owner[q]].on
    BY <1>1 DEF MeshComplete
  <2>2. Flagged(p, q)
    <3>1. Meeting(p, q)
      BY DEF Meeting, Together, UpToDate
    <3> QED BY <1>1, <3>1 DEF Heard
  <2>3. ~Sending(q, p, "media_state") /\ ~Queued(p, "media_state", Owner[q])
    BY DEF UpToDate, Sending, Queued
  <2>4. muted[q] <=> pc[p][Owner[q]].muted
    BY <2>1, <2>2, <2>3 DEF Flagged, NoMute
  <2>5. muted[q] <=> ~micOn[q]
    BY <1>1 DEF Heard, Recorded
  <2>6. pc[p][Owner[q]].muted \in BOOLEAN /\ micOn[q] \in BOOLEAN
    <3>1. pc[p][Owner[q]] \in Conns /\ micOn[q] \in BOOLEAN
      BY <1>1, TabsAndUsers DEF TypeOK
    <3> QED BY <2>1, <3>1, ConnFields DEF Conns
  <2> QED BY <2>4, <2>5, <2>6
<1> QED BY <1>1, TypeCorrect, MeshCompletes, HeardHolds, PTL
=============================================================================
