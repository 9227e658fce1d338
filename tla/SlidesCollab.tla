---------------------------- MODULE SlidesCollab ----------------------------
(***************************************************************************)
(* internal/slides/collab.go, the hub that orders the change operations of *)
(* the tabs editing one deck, with those tabs: collabSync.ts (DeckSync),   *)
(* useDeckCollab.ts and the autosave of DeckEditor.tsx.                    *)
(*                                                                         *)
(* A deck maps each cell (an element, a slide's properties, ...) to the    *)
(* operation that wrote it last.  An operation writes the cells its keys   *)
(* name; two overlap when they share a cell.  Left out: presence, tabs     *)
(* that send no hello, and viewers, whose operations route drops.          *)
(***************************************************************************)
EXTENDS Naturals, Sequences, FiniteSets

CONSTANTS
    Clients,      \* browser windows with the deck open
    Cells,        \* what an operation can write
    Keys,         \* the sets of cells that an operation may write
    NoDeck,       \* null
    SoftMax,      \* logMaxEntries
    HardMax,      \* logHardMaxEntries
    Restores,     \* whether old versions are restored
    PeerQueue,    \* peerQueue, the capacity of peer.out
    MaxOps,       \* bound: edits made
    MaxEvents     \* bound: sockets lost (other than by a kick), saves, restores

ASSUME SlidesAssumption ==
    /\ Keys \subseteq (SUBSET Cells) \ {{}}
    /\ NoDeck \notin [Cells -> Nat]
    /\ SoftMax \in Nat /\ HardMax \in Nat /\ SoftMax <= HardMax
    /\ Restores \in BOOLEAN
    /\ PeerQueue \in Nat \ {0}
    /\ {MaxOps, MaxEvents} \subseteq Nat

VARIABLES
    stored,    \* the autosaved deck, slides_documents.data
    epoch,     \* the number of the deck's room, a new one for each room
    log,       \* room.log: the operations base+1, base+2, ... of the room
    base,      \* room.base
    savedSeq,  \* room.savedSeq
    trimmed,   \* history: the last write of each cell that trim dropped
    peers,     \* the clients whose present socket is in room.peers
    ghosts,    \* the clients of which a lost socket is still in room.peers
    late,      \* what the handler of that lost socket may still read
    catchUp,   \* what Serve writes to a socket before its queue
    out,       \* peer.out of each present socket
    cut,       \* the peers whose queue overflowed: kicked
    up,        \* what a tab sent on its present socket and is not yet read
    tab,       \* the state of each tab, see Tab
    fetch,     \* each tab's GET of the deck
    saving,    \* each tab's PUT of the deck
    ops, events  \* how many so far

room == <<epoch, log, base, savedSeq, trimmed>>
net == <<peers, ghosts, late, catchUp, out, cut, up>>
counts == <<ops, events>>
vars == <<stored, room, net, tab, fetch, saving, counts>>

-----------------------------------------------------------------------------
Deck == [Cells -> Nat]

FirstDeck == [x \in Cells |-> 0]

(* applyOp, for a sequence of operations: the last writer of a cell wins.  *)
Apply(deck, opseq) ==
    [x \in Cells |->
        LET writers == {i \in DOMAIN opseq : x \in opseq[i].cells}
        IN  IF writers = {} THEN deck[x]
            ELSE opseq[CHOOSE i \in writers : \A j \in writers : j <= i].id]

Overlap(o, p) == o.cells \cap p.cells # {}

(* room.seq: the log is contiguous.                                        *)
Seqno == base + Len(log)

Min2(m, n) == IF m < n THEN m ELSE n
Max2(m, n) == IF m < n THEN n ELSE m

Ops(pending) == [i \in DOMAIN pending |-> pending[i].op]

PendingIds(pending) == {pending[i].op.id : i \in DOMAIN pending}

Has(pending, id) == \E i \in DOMAIN pending : pending[i].op.id = id

Place(pending, id) == CHOOSE i \in DOMAIN pending : pending[i].op.id = id

Without(pending, id) ==
    LET i == Place(pending, id) IN
      IF Has(pending, id)
        THEN SubSeq(pending, 1, i - 1) \o SubSeq(pending, i + 1, Len(pending))
        ELSE pending

(* A tab that has just been (re)loaded; "born" makes its cid a new one.    *)
(* History: "stray" once it has pending operations of an earlier room that *)
(* it will not re-base, see Welcome; "settled" holds the operations of this*)
(* window that were answered, or that a reload threw away unanswered.      *)
NewTab(born, settled) ==
    [born |-> born, conn |-> "closed", synced |-> FALSE, fresh |-> FALSE, stray |-> FALSE,
     epoch |-> 0, lastSeq |-> 0, confirmed |-> NoDeck, shown |-> NoDeck,
     pending |-> <<>>, buffered |-> <<>>, settled |-> settled]

Cid(c) == <<c, tab[c].born>>

NoSave == [deck |-> NoDeck, seq |-> 0, born |-> 0]

NotAsked == [asked |-> FALSE, deck |-> NoDeck]
Asked == [asked |-> TRUE, deck |-> NoDeck]

(* DeckSync.local.                                                         *)
Local(t) == Apply(t.confirmed, Ops(t.pending))

Wire(p) == [t |-> "op", op |-> p.op, base |-> p.base]

Wires(pending) == [i \in DOMAIN pending |-> Wire(pending[i])]

-----------------------------------------------------------------------------
(* The hub.                                                                *)

(* Mutant of Enqueue: off by one.                                          *)
EnqueueOneMore(msgs) ==
    LET full == {d \in DOMAIN msgs : Len(out[d]) > PeerQueue} IN
      /\ cut' = cut \cup full
      /\ out' = [d \in Clients |->
                    IF d \in DOMAIN msgs \ (cut \cup full) THEN Append(out[d], msgs[d]) ELSE out[d]]

(* enqueue of msgs[d] for each peer d: one whose queue is full is kicked,  *)
(* and gets nothing any more.                                              *)
Enqueue(msgs) ==
    LET full == {d \in DOMAIN msgs : Len(out[d]) >= PeerQueue} IN
      /\ cut' = cut \cup full
      /\ out' = [d \in Clients |->
                    IF d \in DOMAIN msgs \ (cut \cup full) THEN Append(out[d], msgs[d]) ELSE out[d]]

(* appendLog and markSaved end in trim: past SoftMax entries the saved     *)
(* ones go, past HardMax any.                                              *)
Trim(entries, saved) ==
    LET hard == IF Len(entries) > HardMax THEN Len(entries) - HardMax ELSE 0
        soft == IF Len(entries) > SoftMax /\ saved > base
                  THEN Min2(Len(entries) - SoftMax, saved - base) ELSE 0
        n == Max2(hard, soft)
    IN  /\ log' = SubSeq(entries, n + 1, Len(entries))
        /\ base' = base + n
        /\ trimmed' = Apply(trimmed, SubSeq(entries, 1, n))

(* hub.route of a message.  "self" is the sender's peer: {c}, or {} when   *)
(* its socket is gone and replies to it lead nowhere.                      *)
Saved(m) ==
    /\ m.t = "saved"
    /\ savedSeq' = Max2(savedSeq, Min2(m.seq, Seqno))
    /\ Trim(log, savedSeq')
    /\ UNCHANGED <<out, cut, epoch>>

Restored(self, m) ==
    /\ m.t = "restored"
    /\ log' = <<>> /\ base' = Seqno + 1 /\ trimmed' = FirstDeck
    /\ Enqueue([d \in peers \ self |-> m])
    /\ UNCHANGED <<savedSeq, epoch>>

Resent(m) == m.t = "op" /\ \E i \in DOMAIN log : log[i].id = m.op.id

(* Mutant of Stale: off by one.                                            *)
StaleOffByOne(m) ==
    \/ m.base < base
    \/ \E i \in DOMAIN log :
          base + i > m.base + 1 /\ log[i].by # m.op.by /\ Overlap(m.op, log[i])

Stale(m) ==
    \/ m.base < base
    \/ \E i \in DOMAIN log :
          base + i > m.base /\ log[i].by # m.op.by /\ Overlap(m.op, log[i])

AckAgain(self, m) ==
    /\ Resent(m)
    /\ \E i \in DOMAIN log :
          /\ log[i].id = m.op.id
          /\ Enqueue([d \in self |-> [t |-> "ack", id |-> m.op.id, seq |-> base + i]])
    /\ UNCHANGED room

Reject(self, m) ==
    /\ m.t = "op" /\ ~Resent(m) /\ Stale(m)
    /\ Enqueue([d \in self |-> [t |-> "reject", id |-> m.op.id]])
    /\ UNCHANGED room

Stamp(self, m) ==
    /\ m.t = "op" /\ ~Resent(m) /\ ~Stale(m)
    /\ Trim(Append(log, m.op), savedSeq)
    /\ Enqueue([d \in peers |->
                   IF d \in self THEN [t |-> "ack", id |-> m.op.id, seq |-> Seqno + 1]
                   ELSE [t |-> "stamped", op |-> m.op, seq |-> Seqno + 1]])
    /\ UNCHANGED <<savedSeq, epoch>>

Route(self, m) ==
    Saved(m) \/ Restored(self, m) \/ AckAgain(self, m) \/ Reject(self, m) \/ Stamp(self, m)

(* The reader of a live socket, and that of one the tab has given up.      *)
Read(c) ==
    /\ tab[c].conn = "open" /\ up[c] # <<>>
    /\ Route({c}, Head(up[c]))
    /\ up' = [up EXCEPT ![c] = Tail(@)]
    /\ UNCHANGED <<stored, peers, ghosts, late, catchUp, tab, fetch, saving, counts>>

ReadLate(c) ==
    /\ c \in ghosts /\ late[c] # <<>>
    /\ Route({}, Head(late[c]))
    /\ late' = [late EXCEPT ![c] = Tail(@)]
    /\ UNCHANGED <<stored, peers, ghosts, catchUp, up, tab, fetch, saving, counts>>

(* Under the room's lock, Hub.join gathers the catch-up.                   *)
Join(c) ==
    /\ tab[c].conn = "added"
    /\ LET since == tab[c].lastSeq
           fresh == tab[c].epoch # epoch \/ since < base \/ since > Seqno
           from == IF fresh THEN 0 ELSE since - base
           missed == [i \in 1..(Len(log) - from) |->
                         [t |-> "stamped", op |-> log[from + i], seq |-> base + from + i]]
       IN  catchUp' = [catchUp EXCEPT ![c] =
               <<[t |-> "welcome", epoch |-> epoch, fresh |-> fresh]>> \o missed
                   \o <<[t |-> "synced", seq |-> Seqno]>>]
    /\ tab' = [tab EXCEPT ![c].conn = "open"]
    /\ UNCHANGED <<stored, room, peers, ghosts, late, out, cut, up, fetch, saving, counts>>

(* Hub.remove of a lost socket's peer, what it has not read with it.       *)
Remove(c) ==
    /\ c \in ghosts
    /\ ghosts' = ghosts \ {c}
    /\ late' = [late EXCEPT ![c] = <<>>]
    /\ UNCHANGED <<stored, room, peers, catchUp, out, cut, up, tab, fetch, saving, counts>>

-----------------------------------------------------------------------------
(* The tab.                                                                *)

(* useDeckCollab's connect, onOpen and, on its hello, Hub.add: the peer is *)
(* put into the deck's room, a new one if there is none.  The hello carries*)
(* epoch and lastSeq, which do not change before the welcome.              *)
Dial(c) ==
    /\ tab[c].conn = "closed"
    /\ IF peers \cup ghosts = {}
         THEN /\ epoch' = epoch + 1 /\ log' = <<>> /\ base' = 0 /\ savedSeq' = 0
              /\ trimmed' = FirstDeck
         ELSE UNCHANGED room
    /\ peers' = peers \cup {c}
    /\ tab' = [tab EXCEPT ![c].conn = "added"]
    /\ UNCHANGED <<stored, ghosts, late, catchUp, out, cut, up, fetch, saving, counts>>

(* A socket is lost, or was kicked: onClose.  The hub sees it later (its   *)
(* handler's Remove); one lost socket per client at a time.                *)
Lose(c, sent) ==
    /\ c \notin ghosts
    /\ ghosts' = IF c \in peers THEN ghosts \cup {c} ELSE ghosts
    /\ late' = IF c \in peers THEN [late EXCEPT ![c] = sent] ELSE late
    /\ peers' = peers \ {c}
    /\ cut' = cut \ {c}
    /\ up' = [up EXCEPT ![c] = <<>>]
    /\ out' = [out EXCEPT ![c] = <<>>]
    /\ catchUp' = [catchUp EXCEPT ![c] = <<>>]

Close(c) ==
    /\ tab[c].conn # "closed"
    /\ c \in cut \/ events < MaxEvents
    /\ events' = IF c \in cut THEN events ELSE events + 1
    /\ Lose(c, up[c])
    /\ tab' = [tab EXCEPT ![c].conn = "closed", ![c].synced = FALSE]
    /\ UNCHANGED <<stored, room, fetch, saving, ops>>

(* The deck as getDeck's answer has it; it arrives later (Loaded).         *)
GetDeck(c) ==
    /\ fetch[c] = Asked
    /\ fetch' = [fetch EXCEPT ![c].deck = stored]
    /\ UNCHANGED <<stored, room, net, tab, saving, counts>>

(* setSnapshot: the stored deck, the buffered and the pending operations.  *)
Loaded(c) ==
    /\ fetch[c].deck # NoDeck
    /\ fetch' = [fetch EXCEPT ![c] = NotAsked]
    /\ LET t == [tab[c] EXCEPT !.confirmed = Apply(fetch[c].deck, tab[c].buffered),
                               !.buffered = <<>>]
       IN  tab' = [tab EXCEPT ![c] = [t EXCEPT !.shown = Local(t)]]
    /\ UNCHANGED <<stored, room, net, saving, counts>>

(* The user edits: the shown deck changes, the operation is pending, and   *)
(* is sent once the socket has synced.  History: "saw" is the ordered deck *)
(* it was made on, NoDeck if the cells were not shown as ordered, or the   *)
(* tab is a stray one.                                                     *)
Edit(c, cells) ==
    /\ tab[c].shown # NoDeck /\ ops < MaxOps
    /\ ops' = ops + 1
    /\ LET t == tab[c]
           ordered == /\ t.confirmed # NoDeck /\ ~t.stray
                      /\ \A x \in cells : t.shown[x] = t.confirmed[x]
           op == [id |-> ops + 1, by |-> Cid(c), cells |-> cells,
                  saw |-> IF ordered THEN t.confirmed ELSE NoDeck]
           p == [op |-> op, base |-> t.lastSeq]
       IN  /\ tab' = [tab EXCEPT ![c].shown = Apply(@, <<op>>), ![c].pending = Append(@, p)]
           /\ up' = IF t.synced THEN [up EXCEPT ![c] = Append(@, Wire(p))] ELSE up
    /\ UNCHANGED <<stored, room, peers, ghosts, late, catchUp, out, cut, fetch, saving, events>>

(* DeckEditor.tsx:488-495, saveCurrent: PUT the shown deck.  When it has   *)
(* landed, the seq its tab had applied when it was sent is reported.       *)
SaveStart(c) ==
    /\ tab[c].shown # NoDeck /\ events < MaxEvents /\ saving[c] = NoSave
    /\ events' = events + 1
    /\ saving' = [saving EXCEPT ![c] =
                     [deck |-> tab[c].shown, seq |-> tab[c].lastSeq, born |-> tab[c].born]]
    /\ UNCHANGED <<stored, room, net, tab, fetch, ops>>

SaveDone(c) ==
    /\ saving[c] # NoSave
    /\ stored' = saving[c].deck
    /\ up' = IF tab[c].conn = "closed" \/ tab[c].born # saving[c].born THEN up
             ELSE [up EXCEPT ![c] = Append(@, [t |-> "saved", seq |-> saving[c].seq])]
    /\ saving' = [saving EXCEPT ![c] = NoSave]
    /\ UNCHANGED <<room, peers, ghosts, late, catchUp, out, cut, tab, fetch, counts>>

Reload(c, sent) ==
    /\ Lose(c, sent)
    /\ tab' = [tab EXCEPT ![c] = NewTab(@.born + 1, @.settled \cup PendingIds(@.pending))]
    /\ fetch' = [fetch EXCEPT ![c] = Asked]

(* DeckEditor.tsx:2977-2990, DeckVersionHistory: restoreVersion replaces   *)
(* the stored deck by an older one; the tab tells the others and reloads.  *)
Restore(c) ==
    /\ Restores
    /\ tab[c].shown # NoDeck /\ events < MaxEvents
    /\ events' = events + 1
    /\ stored' = FirstDeck
    /\ Reload(c, IF tab[c].conn = "closed" THEN up[c] ELSE Append(up[c], [t |-> "restored"]))
    /\ UNCHANGED <<room, saving, ops>>

-----------------------------------------------------------------------------
(* DeckSync.receive, one action per kind of message.                       *)

Becomes(c, t) ==
    /\ tab' = [tab EXCEPT ![c] = t]
    /\ UNCHANGED <<stored, room, peers, ghosts, late, cut, saving, counts>>

Incoming(c) == IF catchUp[c] # <<>> THEN Head(catchUp[c]) ELSE Head(out[c])

Unseen(p) == [p EXCEPT !.op.saw = NoDeck]

(* Mutant of Welcome: a fresh tab goes on counting from its last seq.      *)
WelcomeKeepsSeq(c, m) ==
    /\ m.t = "welcome"
    /\ LET t == tab[c]
           refetch == m.fresh /\ t.epoch # 0 /\ t.confirmed # NoDeck
           lapsed == ~m.fresh /\ t.fresh /\ t.pending # <<>>
       IN  /\ fetch' = IF refetch THEN [fetch EXCEPT ![c] = Asked] ELSE fetch
           /\ Becomes(c, [t EXCEPT !.fresh = m.fresh,
                                   !.stray = @ \/ lapsed,
                                   !.epoch = m.epoch,
                                   !.pending = IF lapsed THEN [i \in DOMAIN @ |-> Unseen(@[i])] ELSE @,
                                   !.confirmed = IF refetch THEN NoDeck ELSE @,
                                   !.buffered = IF refetch THEN <<>> ELSE @])
    /\ UNCHANGED up

(* A fresh tab that had a room before re-bases on the stored deck.  A      *)
(* welcome that is not fresh, after a fresh one that lost its socket before*)
(* synced, makes it forget to re-base what is pending.                     *)
Welcome(c, m) ==
    /\ m.t = "welcome"
    /\ LET t == tab[c]
           refetch == m.fresh /\ t.epoch # 0 /\ t.confirmed # NoDeck
           lapsed == ~m.fresh /\ t.fresh /\ t.pending # <<>>
       IN  /\ fetch' = IF refetch THEN [fetch EXCEPT ![c] = Asked] ELSE fetch
           /\ Becomes(c, [t EXCEPT !.fresh = m.fresh,
                                   !.stray = @ \/ lapsed,
                                   !.epoch = m.epoch,
                                   !.pending = IF lapsed THEN [i \in DOMAIN @ |-> Unseen(@[i])] ELSE @,
                                   !.lastSeq = IF m.fresh THEN 0 ELSE @,
                                   !.confirmed = IF refetch THEN NoDeck ELSE @,
                                   !.buffered = IF refetch THEN <<>> ELSE @])
    /\ UNCHANGED up

Rebased(p, seq) == [Unseen(p) EXCEPT !.base = seq]

(* Mutant of Synced: what is pending is not resent.                        *)
SyncedSendsNothing(c, m) ==
    /\ m.t = "synced"
    /\ LET t == tab[c]
           seq == Max2(t.lastSeq, m.seq)
           pending == IF t.fresh THEN [i \in DOMAIN t.pending |-> Rebased(t.pending[i], seq)]
                                 ELSE t.pending
       IN  Becomes(c, [t EXCEPT !.synced = TRUE, !.lastSeq = seq, !.fresh = FALSE,
                               !.pending = pending])
    /\ UNCHANGED <<up, fetch>>

Synced(c, m) ==
    /\ m.t = "synced"
    /\ LET t == tab[c]
           seq == Max2(t.lastSeq, m.seq)
           pending == IF t.fresh THEN [i \in DOMAIN t.pending |-> Rebased(t.pending[i], seq)]
                                 ELSE t.pending
       IN  /\ up' = [up EXCEPT ![c] = @ \o Wires(pending)]
           /\ Becomes(c, [t EXCEPT !.synced = TRUE, !.lastSeq = seq, !.fresh = FALSE,
                                   !.pending = pending])
    /\ UNCHANGED fetch

ConfirmOwn(t, id) ==
    LET own == t.pending[Place(t.pending, id)].op IN
      IF Has(t.pending, id)
        THEN [t EXCEPT !.pending = Without(@, id),
                       !.settled = @ \cup {id},
                       !.confirmed = IF @ = NoDeck THEN @ ELSE Apply(@, <<own>>),
                       !.buffered = IF t.confirmed = NoDeck THEN Append(@, own) ELSE @]
        ELSE t

Acked(c, m) ==
    /\ m.t = "ack"
    /\ Becomes(c, ConfirmOwn([tab[c] EXCEPT !.lastSeq = Max2(@, m.seq)], m.id))
    /\ UNCHANGED <<up, fetch>>

(* A rejected operation is rolled back.                                    *)
Rejected(c, m) ==
    /\ m.t = "reject"
    /\ LET t == [tab[c] EXCEPT !.pending = Without(@, m.id),
                               !.settled = IF Has(tab[c].pending, m.id) THEN @ \cup {m.id} ELSE @] IN
         Becomes(c, IF Has(tab[c].pending, m.id) /\ t.confirmed # NoDeck
                      THEN [t EXCEPT !.shown = Local(t)] ELSE t)
    /\ UNCHANGED <<up, fetch>>

(* An operation in the room's order, unless it has been applied already.   *)
Remote(c, m) ==
    /\ m.t = "stamped"
    /\ LET t == [tab[c] EXCEPT !.lastSeq = m.seq] IN
         Becomes(c,
            CASE m.seq <= tab[c].lastSeq -> tab[c]
              [] m.seq > tab[c].lastSeq /\ Has(t.pending, m.op.id) -> ConfirmOwn(t, m.op.id)
              [] OTHER ->
                   IF t.confirmed = NoDeck THEN [t EXCEPT !.buffered = Append(@, m.op)]
                   ELSE [t EXCEPT !.confirmed = Apply(@, <<m.op>>), !.shown = Apply(@, <<m.op>>)])
    /\ UNCHANGED <<up, fetch>>

Receive(c) ==
    /\ tab[c].conn = "open"
    /\ \/ catchUp[c] # <<>> /\ catchUp' = [catchUp EXCEPT ![c] = Tail(@)] /\ UNCHANGED out
       \/ catchUp[c] = <<>> /\ out[c] # <<>> /\ out' = [out EXCEPT ![c] = Tail(@)] /\ UNCHANGED catchUp
    /\ LET m == Incoming(c) IN
         Welcome(c, m) \/ Synced(c, m) \/ Acked(c, m) \/ Rejected(c, m) \/ Remote(c, m)

(* A collaborator restored a version: the page is reloaded.                *)
ReceiveRestored(c) ==
    /\ tab[c].conn = "open"
    /\ catchUp[c] \o out[c] # <<>> /\ Incoming(c).t = "restored"
    /\ Reload(c, up[c])
    /\ UNCHANGED <<stored, room, saving, counts>>

-----------------------------------------------------------------------------
Init ==
    /\ stored = FirstDeck
    /\ trimmed = FirstDeck
    /\ epoch = 0 /\ log = <<>> /\ base = 0 /\ savedSeq = 0
    /\ peers = {} /\ ghosts = {} /\ cut = {}
    /\ late = [c \in Clients |-> <<>>]
    /\ catchUp = [c \in Clients |-> <<>>]
    /\ out = [c \in Clients |-> <<>>]
    /\ up = [c \in Clients |-> <<>>]
    /\ tab = [c \in Clients |-> NewTab(0, {})]
    /\ fetch = [c \in Clients |-> Asked]
    /\ saving = [c \in Clients |-> NoSave]
    /\ ops = 0 /\ events = 0

(* What the users and the network do, and what the programs then do.       *)
Disturb(c) ==
    (\E cells \in Keys : Edit(c, cells)) \/ SaveStart(c) \/ Restore(c) \/ Close(c)

Proceed(c) ==
    \/ Dial(c) \/ Join(c) \/ Read(c) \/ ReadLate(c) \/ Remove(c)
    \/ GetDeck(c) \/ Loaded(c) \/ SaveDone(c) \/ Receive(c) \/ ReceiveRestored(c)

Next == \E c \in Clients : Disturb(c) \/ Proceed(c)

Spec == Init /\ [][Next]_vars

-----------------------------------------------------------------------------
Op == [id : Nat \ {0}, by : Clients \X Nat, cells : Keys, saw : Deck \cup {NoDeck}]

Tab == [born : Nat, conn : {"closed", "added", "open"},
        synced : BOOLEAN, fresh : BOOLEAN, stray : BOOLEAN, epoch : Nat, lastSeq : Nat,
        confirmed : Deck \cup {NoDeck}, shown : Deck \cup {NoDeck},
        pending : Seq([op : Op, base : Nat]), buffered : Seq(Op), settled : SUBSET Nat]

TypeOK ==
    /\ stored \in Deck /\ trimmed \in Deck
    /\ {epoch, base, savedSeq, ops, events} \subseteq Nat
    /\ log \in Seq(Op)
    /\ Len(log) <= HardMax
    /\ peers \subseteq Clients /\ ghosts \subseteq Clients /\ cut \subseteq peers
    /\ \A c \in Clients : Len(out[c]) <= PeerQueue
    /\ tab \in [Clients -> Tab]
    /\ fetch \in [Clients -> [asked : BOOLEAN, deck : Deck \cup {NoDeck}]]
    /\ saving \in [Clients -> [deck : Deck \cup {NoDeck}, seq : Nat, born : Nat]]

(* The entries of the log before the i-th that write x.                    *)
WritersBefore(i, x) == {j \in 1..(i - 1) : x \in log[j].cells}

IsLast(j, js) == j \in js /\ \A k \in js : k <= j

(* "relayed in seq order": for every cell a tab holds the write the room's *)
(* order puts last, as far as the tab has come in it, however its load,    *)
(* reconnects, catch-ups, kicks, lost acks and resends interleaved.  (A    *)
(* stray tab may have its operation stamped twice and miss the second.)    *)
InStep ==
    \A c \in Clients :
      tab[c].epoch = epoch /\ tab[c].confirmed # NoDeck /\ ~tab[c].stray =>
        \A x \in Cells : \A j \in DOMAIN log :
            IsLast(j, WritersBefore(tab[c].lastSeq - base + 1, x))
                => tab[c].confirmed[x] = log[j].id

(* "so a stale edit cannot clobber a newer one": an operation takes its    *)
(* place right after the very write of the cell its author was looking at, *)
(* or one of the author's own, unless it was re-based, was made on cells   *)
(* that were not shown as the server ordered them, or in a tab that forgot *)
(* to re-base it.                                                          *)
NoBlindOverwrite ==
    \A i \in DOMAIN log : log[i].saw # NoDeck =>
        \A x \in log[i].cells : \A j \in DOMAIN log :
            IsLast(j, WritersBefore(i, x))
                => log[j].by = log[i].by \/ log[j].id = log[i].saw[x]

(* Every edit gets an answer ("resends what is still pending"): it is      *)
(* stamped or rejected in the end, and its tab hears of it, through lost   *)
(* sockets, kicks and new rooms.  Only the reload of the page by a restored*)
(* version throws it away unanswered.                                      *)
EditsSettle ==
    \A n \in 1..MaxOps : n <= ops ~> \E c \in Clients : n \in tab[c].settled

(* A socket, once lost, is dialed again 0.5 to 8 s later; handlers run;    *)
(* requests are answered.                                                  *)
FairSpec == Spec /\ \A c \in Clients :
    /\ WF_vars(Dial(c)) /\ WF_vars(Join(c)) /\ WF_vars(Read(c))
    /\ WF_vars(Remove(c)) /\ WF_vars(GetDeck(c)) /\ WF_vars(Loaded(c))
    /\ WF_vars(Receive(c)) /\ WF_vars(ReceiveRestored(c)) /\ WF_vars(c \in cut /\ Close(c))

-----------------------------------------------------------------------------
(* What a comment says and the code does not do.                           *)

(* collab.go:49 "Entries a saved snapshot covers are trimmed past the soft *)
(* limits; unsaved ones are kept up to the hard limits": as long as no more*)
(* operations were made than the hard limit, what was trimmed, or a later  *)
(* edit of the same cell, is in the stored deck.                           *)
UnsavedIsKept ==
    ops <= HardMax /\ ~Restores => \A x \in Cells : stored[x] >= trimmed[x]
=============================================================================
