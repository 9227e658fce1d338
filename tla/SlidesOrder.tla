----------------------------- MODULE SlidesOrder -----------------------------
(***************************************************************************)
(* Why the tabs of a deck stay in step: the inductive invariant of         *)
(* SlidesCollab, of which TypeOK, InStep and NoBlindOverwrite are          *)
(* consequences.  Its parts speak of the room as an order of entries with  *)
(* absolute numbers and of what the hub has sent to a tab as one sequence  *)
(* of messages, the catch-up and then the queue.                           *)
(***************************************************************************)
EXTENDS SlidesCollab

-----------------------------------------------------------------------------
(* Types.  O is the set of the operations made so far, with and without    *)
(* what their authors saw.                                                 *)

Ids(O) == {o.id : o \in O}

Forgets(O) == \A o \in O : [o EXCEPT !.saw = NoDeck] \in O

(* Ids are not used twice.                                                 *)
Coherent(O) ==
    \A o \in O : o.id <= ops /\ \A p \in O : o.id = p.id => o.cells = p.cells

Entry(O) == [op : O, base : Nat]

UpMsg(O) ==
    [t : {"op"}, op : O, base : Nat] \cup [t : {"saved"}, seq : Nat] \cup [t : {"restored"}]

DownMsg(O) ==
    [t : {"welcome"}, epoch : Nat, fresh : BOOLEAN] \cup [t : {"stamped"}, op : O, seq : Nat]
        \cup [t : {"synced"}, seq : Nat] \cup [t : {"ack"}, id : Ids(O), seq : Nat]
        \cup [t : {"reject"}, id : Ids(O)] \cup [t : {"restored"}]

TabOf(O) ==
    [born : Nat, conn : {"closed", "added", "open"},
     synced : BOOLEAN, fresh : BOOLEAN, stray : BOOLEAN, epoch : Nat, lastSeq : Nat,
     confirmed : Deck \cup {NoDeck}, shown : Deck \cup {NoDeck},
     pending : Seq(Entry(O)), buffered : Seq(O), settled : SUBSET Nat]

RoomTyped(O) ==
    /\ stored \in Deck /\ trimmed \in Deck
    /\ epoch \in Nat /\ base \in Nat /\ savedSeq \in Nat /\ ops \in Nat /\ events \in Nat
    /\ log \in Seq(O) /\ Len(log) <= HardMax

NetTyped(O) ==
    /\ peers \subseteq Clients /\ ghosts \subseteq Clients /\ cut \subseteq peers
    /\ late \in [Clients -> Seq(UpMsg(O))] /\ up \in [Clients -> Seq(UpMsg(O))]
    /\ catchUp \in [Clients -> Seq(DownMsg(O))] /\ out \in [Clients -> Seq(DownMsg(O))]
    /\ \A c \in Clients : Len(out[c]) <= PeerQueue

TabsTyped(O) ==
    /\ tab \in [Clients -> TabOf(O)]
    /\ fetch \in [Clients -> [asked : BOOLEAN, deck : Deck \cup {NoDeck}]]
    /\ saving \in [Clients -> [deck : Deck \cup {NoDeck}, seq : Nat, born : Nat]]
    /\ \A c \in Clients : saving[c].deck = NoDeck => saving[c] = NoSave

(* A tab with an ordered deck shows one, and waits for none.               *)
Loading(t, f) ==
    t.confirmed # NoDeck => t.shown # NoDeck /\ t.buffered = <<>> /\ f = NotAsked

(* Which sockets are peers.                                                *)
Sockets ==
    \A c \in Clients :
        /\ c \in peers <=> tab[c].conn # "closed"
        /\ Loading(tab[c], fetch[c])

TypeInv(O) ==
    /\ O \subseteq Op /\ Forgets(O) /\ Coherent(O)
    /\ RoomTyped(O) /\ NetTyped(O) /\ TabsTyped(O) /\ Sockets

-----------------------------------------------------------------------------
(* The room's order: the log has its entries lo + 1 .. hi.                 *)

OrderOf(b, entries) ==
    LET n == b + Len(entries) IN
      [lo |-> b, hi |-> n, at |-> [s \in (b + 1)..n |-> entries[s - b]]]

Order == OrderOf(base, log)

Logged(R) == (R.lo + 1)..R.hi

IsOrder(O, R) ==
    R.lo \in Nat /\ R.hi \in Nat /\ R.lo <= R.hi /\ \A s \in Logged(R) : R.at[s] \in O

(* Later in the life of the room: entries are added at the end and dropped *)
(* from the front.                                                         *)
Grows(R, Q) ==
    R.lo <= Q.lo /\ R.hi <= Q.hi /\ \A s \in Logged(Q) : s <= R.hi => Q.at[s] = R.at[s]

(* The n-th entry and those before it: s is the last of them that writes x.*)
LastWrite(R, s, n, x) ==
    /\ s \in Logged(R) /\ s <= n /\ x \in R.at[s].cells
    /\ \A r \in Logged(R) : r <= n /\ x \in R.at[r].cells => r <= s

(* The deck that o was made on had, in the cells o writes, what the first  *)
(* b entries leave there.                                                  *)
SawOk(R, o, b) ==
    o.saw # NoDeck =>
        /\ b <= R.hi
        /\ \A x \in o.cells, s \in Logged(R) :
              LastWrite(R, s, b, x) => o.saw[x] = R.at[s].id

Orderly(R) ==
    \A s \in Logged(R) : R.at[s].saw # NoDeck =>
        \A x \in R.at[s].cells, r \in Logged(R) :
            LastWrite(R, r, s - 1, x) =>
                R.at[r].by = R.at[s].by \/ R.at[r].id = R.at[s].saw[x]

-----------------------------------------------------------------------------
(* What is on its way to a tab, in the order in which it will be read.     *)

Msgs(c) == catchUp[c] \o out[c]

SeqOf(m) == IF m.t \in {"stamped", "ack", "synced"} THEN m.seq ELSE 0

Placing(m) == m.t \in {"stamped", "ack"}

IdOf(m) == IF m.t = "stamped" THEN m.op.id ELSE m.id

Greeted(f) == f # <<>> /\ f[1].t = "welcome"

(* Where the tab is in the order, the welcome being read.                  *)
Start(t, f) == IF Greeted(f) /\ f[1].fresh THEN 0 ELSE t.lastSeq

(* Message k will take a tab that starts at n further than it has come.    *)
News(n, f, k) == n < SeqOf(f[k]) /\ \A j \in 1..(k - 1) : SeqOf(f[j]) < SeqOf(f[k])

(* Message k will take the operation out of the pending ones.              *)
Settles(n, f, k, id) ==
    \/ f[k].t \in {"ack", "reject"} /\ f[k].id = id
    \/ f[k].t = "stamped" /\ f[k].op.id = id /\ News(n, f, k)

(* The kinds of messages a tab can meet, and the room it knows.            *)
Flow(e, t, f, u) ==
    /\ t.conn # "open" => ~t.synced
    /\ t.conn = "closed" => f = <<>> /\ u = <<>>
    /\ \A k \in DOMAIN f : f[k].t = "welcome" =>
          /\ k = 1 /\ t.conn = "open" /\ ~t.synced
          /\ f[k].epoch = e /\ (~f[k].fresh => t.epoch = e)
    /\ \A k \in DOMAIN f : f[k].t = "synced" =>
          t.conn = "open" /\ ~t.synced /\ \A j \in DOMAIN f : f[j].t = "synced" => j = k
    /\ \A k \in DOMAIN f : f[k].t \in {"ack", "reject"} => t.synced
    /\ \A i \in DOMAIN u : u[i].t = "op" => t.synced
    /\ t.conn = "open" /\ ~Greeted(f) => t.epoch = e
    /\ t.epoch <= e

(* Its pending operations, and those on their way to the hub, are distinct.*)
Distinct(t, u) ==
    /\ \A i, j \in DOMAIN t.pending : t.pending[i].op.id = t.pending[j].op.id => i = j
    /\ \A i, j \in DOMAIN u :
          u[i].t = "op" /\ u[j].t = "op" /\ u[i].op.id = u[j].op.id => i = j

Based(R, e, t) ==
    t.epoch = e =>
        /\ t.lastSeq <= R.hi
        /\ ~t.fresh /\ ~t.stray => \A i \in DOMAIN t.pending : t.pending[i].base <= t.lastSeq

(* A message that names a place in the order names the entry there.        *)
Placed(R, f) ==
    \A k \in DOMAIN f :
        /\ SeqOf(f[k]) <= R.hi
        /\ Placing(f[k]) /\ R.lo < f[k].seq => R.at[f[k].seq].id = IdOf(f[k])

(* Every entry the tab has not come to is on its way, in order, unless the *)
(* peer was kicked: then nothing is that comes after it.                   *)
Covered(R, kicked, t, f) ==
    t.conn = "open" =>
        \A s \in Logged(R) : Start(t, f) < s =>
            \/ \E k \in DOMAIN f : News(Start(t, f), f, k) /\ Placing(f[k]) /\ f[k].seq = s
            \/ kicked = "kicked" /\ \A k \in DOMAIN f : SeqOf(f[k]) < s

(* A pending operation that has its place is ahead of the tab.             *)
Ahead(R, e, t) ==
    t.epoch = e /\ ~t.stray =>
        \A s \in Logged(R) : Has(t.pending, R.at[s].id) => t.lastSeq < s

(* An ack finds its operation pending just when it brings news.            *)
Acks(t, f) ==
    ~t.stray =>
        \A k \in DOMAIN f : f[k].t = "ack" =>
            /\ Has(t.pending, f[k].id) =>
                 \E j \in 1..k : /\ News(Start(t, f), f, j) /\ Placing(f[j])
                                 /\ f[j].seq = f[k].seq /\ IdOf(f[j]) = f[k].id
            /\ News(Start(t, f), f, k) =>
                 /\ Has(t.pending, f[k].id)
                 /\ \A j \in 1..(k - 1) : ~Settles(Start(t, f), f, j, f[k].id)

(* Of an operation on its way to the hub: it has its place, or lost it in  *)
(* a trim that makes it stale, or is pending with no answer on the way.    *)
Unanswered(R, t, f, m) ==
    /\ m.base <= R.hi
    /\ \/ m.base < R.lo
       \/ \E s \in Logged(R) : m.base < s /\ R.at[s].id = m.op.id
       \/ /\ Has(t.pending, m.op.id)
          /\ \A k \in DOMAIN f : ~Settles(Start(t, f), f, k, m.op.id)

Sent(R, t, f, u) ==
    ~t.stray => \A i \in DOMAIN u : u[i].t = "op" => Unanswered(R, t, f, u[i])

(* What the tab has of the order: until the deck is there, the operations  *)
(* to be applied to it.                                                    *)
View(t) == Apply(IF t.confirmed = NoDeck THEN FirstDeck ELSE t.confirmed, t.buffered)

Held(R, e, t) ==
    t.epoch = e /\ ~t.stray =>
        \A x \in Cells, s \in Logged(R) :
            LastWrite(R, s, t.lastSeq, x) => View(t)[x] = R.at[s].id

SawAll(R, u) == \A i \in DOMAIN u : u[i].t = "op" => SawOk(R, u[i].op, u[i].base)

Seen(R, e, t) ==
    t.epoch = e /\ ~t.fresh =>
        \A i \in DOMAIN t.pending : SawOk(R, t.pending[i].op, t.pending[i].base)

-----------------------------------------------------------------------------
Kicked(c) == IF c \in cut THEN "kicked" ELSE "served"

(* Where a tab, what comes to it (f), what goes from it (u, and l from a   *)
(* socket it lost) and the order of its room stand to each other.          *)
Stands(R, e, kicked, t, f, u, l) ==
    /\ Flow(e, t, f, u) /\ Distinct(t, u) /\ Based(R, e, t) /\ Placed(R, f)
    /\ Covered(R, kicked, t, f) /\ Ahead(R, e, t) /\ Acks(t, f) /\ Sent(R, t, f, u)
    /\ Held(R, e, t) /\ Seen(R, e, t) /\ SawAll(R, u) /\ SawAll(R, l)

Follows(R, c) == Stands(R, epoch, Kicked(c), tab[c], Msgs(c), up[c], late[c])

Quiet(c) ==
    /\ c \notin ghosts => late[c] = <<>>
    /\ tab[c].conn # "open" => catchUp[c] = <<>>

(* The order that the hub has given, what is on its way to each tab and    *)
(* from it, and what the tab holds and has pending stand to each other as  *)
(* join, route, trim and enqueue (collab.go) and DeckSync.receive          *)
(* (collabSync.ts) count on: nothing of the order is missing or misplaced, *)
(* every operation sent will be answered once, and each was made on what   *)
(* its base says.                                                          *)
InOrder ==
    LET R == Order IN Orderly(R) /\ \A c \in Clients : Quiet(c) /\ Follows(R, c)
=============================================================================
