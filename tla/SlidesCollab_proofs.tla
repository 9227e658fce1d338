------------------------- MODULE SlidesCollab_proofs -------------------------
(***************************************************************************)
(* The operators of SlidesCollab, and that its variables keep their types, *)
(* for any clients, cells, limits of the log and capacity of the queues.   *)
(***************************************************************************)
EXTENDS SlidesOrder, TLAPS, SequenceTheorems, WellFoundedInduction

-----------------------------------------------------------------------------
(* Finite sets of positions and what Apply makes of them.                  *)

(* A set of positions of a sequence has a last one, by the well-ordering   *)
(* of the natural numbers: the last is the one nearest to the end.         *)
LEMMA LastPosition ==
    ASSUME NEW n \in Nat, NEW W \in SUBSET (1..n), W # {}
    PROVE  \E i \in W : \A j \in W : j <= i
PROOF
<1> DEFINE T == {n - i : i \in W}
           R == {p \in Nat \X Nat : p[1] < p[2]}
<1>1. T \subseteq Nat /\ T # {}
  <2>1. PICK i \in W : TRUE
    OBVIOUS
  <2>2. n - i \in T
    BY <2>1
  <2> QED BY <2>2
<1>2. IsWellFoundedOn(R, Nat)
  BY NatLessThanWellFounded, Zenon DEF OpToRel
<1>3. PICK t \in T : \A u \in T : ~(<<u, t>> \in R)
  <2> HIDE DEF T, R
  <2> QED BY <1>1, <1>2, WFMin
<1>4. \A u \in T : ~(u < t)
  BY <1>1, <1>3
<1>5. PICK i \in W : t = n - i
  OBVIOUS
<1>6. \A j \in W : j <= i
  BY <1>4, <1>5
<1> QED BY <1>6

(* A cell that no operation writes stays; of those that do the last wins.  *)
LEMMA ApplyWrites ==
    ASSUME NEW deck, NEW s \in Seq(Op), NEW x \in Cells
    PROVE  /\ (\A i \in DOMAIN s : x \notin s[i].cells) => Apply(deck, s)[x] = deck[x]
           /\ \A i \in DOMAIN s :
                 /\ x \in s[i].cells
                 /\ \A j \in DOMAIN s : x \in s[j].cells => j <= i
                 => Apply(deck, s)[x] = s[i].id
           /\ (\E i \in DOMAIN s : x \in s[i].cells) =>
                 \E i \in DOMAIN s :
                     /\ x \in s[i].cells
                     /\ \A j \in DOMAIN s : x \in s[j].cells => j <= i
PROOF
<1> DEFINE W == {i \in DOMAIN s : x \in s[i].cells}
<1>1. Apply(deck, s)[x] =
        IF W = {} THEN deck[x] ELSE s[CHOOSE i \in W : \A j \in W : j <= i].id
  BY DEF Apply
<1>2. DOMAIN s = 1..Len(s) /\ Len(s) \in Nat
  OBVIOUS
<1>3. W # {} => \E i \in W : \A j \in W : j <= i
  BY <1>2, LastPosition
<1>4. ASSUME NEW i \in W, \A j \in W : j <= i
      PROVE  (CHOOSE k \in W : \A j \in W : j <= k) = i
  <2>1. \A k \in W : (\A j \in W : j <= k) => k = i
    BY <1>2, <1>4
  <2> HIDE DEF W
  <2> QED BY <1>4, <2>1
<1>5. (\A i \in DOMAIN s : x \notin s[i].cells) => W = {}
  OBVIOUS
<1> QED BY <1>1, <1>3, <1>4, <1>5

LEMMA ApplyType ==
    ASSUME NEW deck \in Deck, NEW s \in Seq(Op)
    PROVE  Apply(deck, s) \in Deck
PROOF
<1>1. ASSUME NEW x \in Cells
      PROVE  Apply(deck, s)[x] \in Nat
  <2>1. ASSUME NEW i \in DOMAIN s
        PROVE  s[i].id \in Nat
    <3>1. s[i] \in Op
      OBVIOUS
    <3> QED BY <3>1 DEF Op
  <2>2. deck[x] \in Nat
    BY DEF Deck
  <2>3. CASE \A i \in DOMAIN s : x \notin s[i].cells
    BY <2>2, <2>3, ApplyWrites
  <2>4. CASE \E i \in DOMAIN s : x \in s[i].cells
    <3>1. PICK i \in DOMAIN s : Apply(deck, s)[x] = s[i].id
      BY <2>4, ApplyWrites
    <3> QED BY <2>1, <3>1
  <2> QED BY <2>3, <2>4
<1>2. Apply(deck, s) = [x \in Cells |-> Apply(deck, s)[x]]
  BY DEF Apply
<1> QED BY <1>1, <1>2 DEF Deck

(* One operation writes its cells.                                         *)
LEMMA ApplyOne ==
    ASSUME NEW deck, NEW o \in Op
    PROVE  /\ <<o>> \in Seq(Op)
           /\ \A x \in Cells :
                 Apply(deck, <<o>>)[x] = IF x \in o.cells THEN o.id ELSE deck[x]
PROOF
<1>1. <<o>> \in Seq(Op) /\ DOMAIN <<o>> = {1} /\ <<o>>[1] = o
  OBVIOUS
<1> QED BY <1>1, ApplyWrites

(* After a sequence of operations one more is as good as applied on top.   *)
LEMMA ApplyAppend ==
    ASSUME NEW deck, NEW s \in Seq(Op), NEW o \in Op, NEW x \in Cells
    PROVE  /\ Append(s, o) \in Seq(Op)
           /\ Apply(deck, Append(s, o))[x] =
                 IF x \in o.cells THEN o.id ELSE Apply(deck, s)[x]
PROOF
<1> DEFINE t == Append(s, o)
<1>1. /\ t \in Seq(Op) /\ DOMAIN t = 1..(Len(s) + 1) /\ DOMAIN s = 1..Len(s) /\ Len(s) \in Nat
      /\ t[Len(s) + 1] = o /\ \A i \in DOMAIN s : t[i] = s[i]
  OBVIOUS
<1>2. \A i \in DOMAIN t : i = Len(s) + 1 \/ i \in DOMAIN s
  BY <1>1
<1>3. Len(s) + 1 \in DOMAIN t /\ \A j \in DOMAIN t : j <= Len(s) + 1
  BY <1>1
<1> HIDE DEF t
<1>5. CASE x \in o.cells
  <2>1. Apply(deck, t)[x] = t[Len(s) + 1].id
    BY <1>1, <1>3, <1>5, ApplyWrites
  <2> QED BY <1>1, <1>5, <2>1 DEF t
<1>6. CASE x \notin o.cells /\ \A i \in DOMAIN s : x \notin s[i].cells
  <2>1. \A i \in DOMAIN t : x \notin t[i].cells
    BY <1>1, <1>2, <1>6
  <2>2. Apply(deck, t)[x] = deck[x]
    BY <1>1, <2>1, ApplyWrites
  <2>3. Apply(deck, s)[x] = deck[x]
    BY <1>6, ApplyWrites
  <2> QED BY <1>1, <1>6, <2>2, <2>3 DEF t
<1>4. CASE x \notin o.cells /\ \E i \in DOMAIN s : x \in s[i].cells
  <2>1. PICK i \in DOMAIN s : /\ x \in s[i].cells
                              /\ \A j \in DOMAIN s : x \in s[j].cells => j <= i
    BY <1>4, ApplyWrites
  <2>2. Apply(deck, s)[x] = s[i].id
    BY <2>1, ApplyWrites
  <2>3. i \in DOMAIN t /\ t[i] = s[i] /\ \A j \in DOMAIN t : x \in t[j].cells => j <= i
    BY <1>1, <1>2, <1>4, <2>1
  <2>4. Apply(deck, t)[x] = t[i].id
    BY <1>1, <2>1, <2>3, ApplyWrites
  <2> QED BY <1>1, <1>4, <2>2, <2>3, <2>4 DEF t
<1> QED BY <1>4, <1>5, <1>6

LEMMA ApplyNothing ==
    ASSUME NEW deck \in Deck
    PROVE  Apply(deck, <<>>) = deck
PROOF
<1>1. <<>> \in Seq(Op) /\ DOMAIN <<>> = {}
  OBVIOUS
<1>2. \A x \in Cells : Apply(deck, <<>>)[x] = deck[x]
  BY <1>1, ApplyWrites
<1> QED BY <1>2 DEF Apply, Deck

-----------------------------------------------------------------------------
(* Sequences of operations and messages.                                   *)

(* An element changed in place, for each element of a sequence.            *)
LEMMA SeqOfEach ==
    ASSUME NEW S, NEW n \in Nat, NEW f, f \in [1..n -> S]
    PROVE  f \in Seq(S) /\ Len(f) = n /\ DOMAIN f = 1..n
PROOF
<1>1. f \in Seq(S)
  BY SeqDef
<1>2. DOMAIN f = 1..n /\ DOMAIN f = 1..Len(f) /\ Len(f) \in Nat
  BY <1>1, LenProperties
<1>3. Len(f) = n
  BY <1>2
<1> QED BY <1>1, <1>2, <1>3

(* Taking the i-th element out.                                            *)
LEMMA TakenOut ==
    ASSUME NEW S, NEW s \in Seq(S), NEW i \in 1..Len(s)
    PROVE  LET q == SubSeq(s, 1, i - 1) \o SubSeq(s, i + 1, Len(s)) IN
             /\ q \in Seq(S)
             /\ Len(q) = Len(s) - 1
             /\ \A k \in 1..(Len(s) - 1) : q[k] = IF k < i THEN s[k] ELSE s[k + 1]
PROOF
<1> DEFINE a == SubSeq(s, 1, i - 1)
           b == SubSeq(s, i + 1, Len(s))
<1>1. Len(s) \in Nat /\ i \in Int /\ i >= 1 /\ i <= Len(s) /\ \A k \in 1..Len(s) : s[k] \in S
  BY LenProperties, ElementOfSeq
<1>2. /\ a \in Seq(S) /\ Len(a) = i - 1
      /\ \A k \in 1..(i - 1) : a[k] = s[k]
  <2>1. \A k \in 1..(i - 1) : s[k] \in S
    BY <1>1
  <2>2. /\ a \in Seq(S) /\ Len(a) = IF 1 <= i - 1 THEN i - 1 - 1 + 1 ELSE 0
        /\ \A k \in 1..(i - 1 - 1 + 1) : a[k] = s[1 + k - 1]
    BY <1>1, <2>1, SubSeqProperties
  <2> HIDE DEF a
  <2> QED BY <1>1, <2>2
<1>3. /\ b \in Seq(S) /\ Len(b) = Len(s) - i
      /\ \A k \in 1..(Len(s) - i) : b[k] = s[i + k]
  <2>1. \A k \in (i + 1)..Len(s) : s[k] \in S
    BY <1>1
  <2>2. /\ b \in Seq(S) /\ Len(b) = IF i + 1 <= Len(s) THEN Len(s) - (i + 1) + 1 ELSE 0
        /\ \A k \in 1..(Len(s) - (i + 1) + 1) : b[k] = s[(i + 1) + k - 1]
    BY <1>1, <2>1, SubSeqProperties
  <2> HIDE DEF b
  <2> QED BY <1>1, <2>2
<1> HIDE DEF a, b
<1>4. /\ a \o b \in Seq(S) /\ Len(a \o b) = Len(a) + Len(b)
      /\ \A k \in 1..(Len(a) + Len(b)) :
            (a \o b)[k] = IF k <= Len(a) THEN a[k] ELSE b[k - Len(a)]
  BY <1>2, <1>3, ConcatProperties
<1>5. ASSUME NEW k \in 1..(Len(s) - 1)
      PROVE  (a \o b)[k] = IF k < i THEN s[k] ELSE s[k + 1]
  <2>1. (a \o b)[k] = IF k <= i - 1 THEN a[k] ELSE b[k - (i - 1)]
    BY <1>1, <1>2, <1>3, <1>4
  <2>2. CASE k < i
    BY <1>1, <1>2, <2>1, <2>2
  <2>3. CASE ~(k < i)
    <3>1. k - (i - 1) \in 1..(Len(s) - i) /\ i + (k - (i - 1)) = k + 1
      BY <1>1, <2>3
    <3> QED BY <1>1, <1>3, <2>1, <2>3, <3>1
  <2> QED BY <2>2, <2>3
<1>6. Len(a) + Len(b) = Len(s) - 1
  BY <1>1, <1>2, <1>3
<1> QED BY <1>4, <1>5, <1>6 DEF a, b

(* What Without leaves of the pending operations.                          *)
LEMMA WithoutType ==
    ASSUME NEW O, NEW p \in Seq(Entry(O)), NEW id
    PROVE  /\ Without(p, id) \in Seq(Entry(O))
           /\ Has(p, id) => Place(p, id) \in 1..Len(p) /\ p[Place(p, id)].op.id = id
PROOF
<1>1. DOMAIN p = 1..Len(p) /\ Len(p) \in Nat
  BY LenProperties
<1>2. Has(p, id) => Place(p, id) \in 1..Len(p) /\ p[Place(p, id)].op.id = id
  BY <1>1 DEF Has, Place
<1>3. CASE Has(p, id)
  BY <1>2, <1>3, TakenOut DEF Without
<1>4. CASE ~Has(p, id)
  BY <1>4 DEF Without
<1> QED BY <1>2, <1>3, <1>4

(* When no two pending operations have the same id, exactly the one with   *)
(* that id goes.                                                           *)
LEMMA WithoutEntries ==
    ASSUME NEW O, NEW p \in Seq(Entry(O)), NEW id,
           \A i, j \in DOMAIN p : p[i].op.id = p[j].op.id => i = j
    PROVE  LET q == Without(p, id) IN
             /\ \A i \in DOMAIN q : \E j \in DOMAIN p : q[i] = p[j] /\ p[j].op.id # id
             /\ \A j \in DOMAIN p : p[j].op.id # id => \E i \in DOMAIN q : q[i] = p[j]
             /\ \A i, j \in DOMAIN q : q[i].op.id = q[j].op.id => i = j
PROOF
<1> DEFINE q == Without(p, id)
<1>1. DOMAIN p = 1..Len(p) /\ Len(p) \in Nat
  BY LenProperties
<1>2. q \in Seq(Entry(O))
  BY WithoutType
<1>3. DOMAIN q = 1..Len(q) /\ Len(q) \in Nat
  BY <1>2, LenProperties
<1>4. CASE ~Has(p, id)
  <2>1. q = p /\ \A j \in DOMAIN p : p[j].op.id # id
    BY <1>4 DEF Without, Has
  <2> HIDE DEF q
  <2> QED BY <2>1 DEF q
<1>5. CASE Has(p, id)
  <2> DEFINE i == Place(p, id)
  <2>1. i \in 1..Len(p) /\ p[i].op.id = id
    BY <1>5, WithoutType
  <2>2. /\ Len(q) = Len(p) - 1
        /\ \A k \in 1..(Len(p) - 1) : q[k] = IF k < i THEN p[k] ELSE p[k + 1]
    BY <1>5, <2>1, TakenOut DEF Without
  <2> HIDE DEF q, i
  <2>3. \A k \in DOMAIN p : k # i => p[k].op.id # id
    BY <1>1, <2>1
  <2>4. ASSUME NEW k \in DOMAIN q
        PROVE  \E j \in DOMAIN p : q[k] = p[j] /\ j # i /\ j = IF k < i THEN k ELSE k + 1
    BY <1>1, <1>3, <2>1, <2>2
  <2>5. ASSUME NEW j \in DOMAIN p, j # i
        PROVE  \E k \in DOMAIN q : q[k] = p[j]
    <3>1. CASE j < i
      <4>1. j \in DOMAIN q /\ q[j] = p[j]
        BY <1>1, <1>3, <2>1, <2>2, <3>1
      <4> QED BY <4>1
    <3>2. CASE j > i
      <4>1. j - 1 \in DOMAIN q /\ q[j - 1] = p[j - 1 + 1] /\ j - 1 + 1 = j
        BY <1>1, <1>3, <2>1, <2>2, <3>2
      <4> QED BY <4>1
    <3> QED BY <1>1, <2>1, <2>5, <3>1, <3>2
  <2>6. ASSUME NEW k \in DOMAIN q, NEW l \in DOMAIN q, q[k].op.id = q[l].op.id
        PROVE  k = l
    <3>1. PICK j \in DOMAIN p : q[k] = p[j] /\ j # i /\ j = IF k < i THEN k ELSE k + 1
      BY <2>4
    <3>2. PICK h \in DOMAIN p : q[l] = p[h] /\ h # i /\ h = IF l < i THEN l ELSE l + 1
      BY <2>4
    <3>3. j = h
      BY <2>6, <3>1, <3>2
    <3> QED BY <1>1, <1>3, <2>1, <3>1, <3>2, <3>3
  <2>7. \A k \in DOMAIN q : \E j \in DOMAIN p : q[k] = p[j] /\ p[j].op.id # id
    BY <2>3, <2>4
  <2>8. \A j \in DOMAIN p : p[j].op.id # id => \E k \in DOMAIN q : q[k] = p[j]
    BY <2>1, <2>5
  <2> QED BY <2>6, <2>7, <2>8 DEF q
<1> QED BY <1>4, <1>5

-----------------------------------------------------------------------------
(* The hub's two helpers.                                                  *)

(* A peer gets the message, unless its queue is full or it has been kicked.*)
LEMMA EnqueueEffect ==
    ASSUME NEW O, NetTyped(O), NEW msgs, DOMAIN msgs \subseteq peers,
           \A d \in DOMAIN msgs : msgs[d] \in DownMsg(O), Enqueue(msgs)
    PROVE  /\ out' \in [Clients -> Seq(DownMsg(O))]
           /\ \A c \in Clients : Len(out'[c]) <= PeerQueue
           /\ cut \subseteq cut' /\ cut' \subseteq peers
           /\ \A d \in Clients :
                 \/ out'[d] = out[d] /\ (d \in DOMAIN msgs => d \in cut')
                 \/ d \in DOMAIN msgs /\ d \notin cut' /\ out'[d] = Append(out[d], msgs[d])
PROOF
<1> DEFINE full == {d \in DOMAIN msgs : Len(out[d]) >= PeerQueue}
<1>1. /\ cut' = cut \cup full
      /\ out' = [d \in Clients |->
                    IF d \in DOMAIN msgs \ (cut \cup full) THEN Append(out[d], msgs[d]) ELSE out[d]]
  BY DEF Enqueue
<1>2. ASSUME NEW d \in Clients
      PROVE  /\ out'[d] \in Seq(DownMsg(O)) /\ Len(out'[d]) <= PeerQueue
             /\ \/ out'[d] = out[d] /\ (d \in DOMAIN msgs => d \in cut')
                \/ d \in DOMAIN msgs /\ d \notin cut' /\ out'[d] = Append(out[d], msgs[d])
  <2>1. out[d] \in Seq(DownMsg(O)) /\ Len(out[d]) <= PeerQueue
    BY DEF NetTyped
  <2>2. CASE d \in DOMAIN msgs \ (cut \cup full)
    <3>1. out'[d] = Append(out[d], msgs[d]) /\ d \notin cut'
      BY <1>1, <2>2
    <3>2. Len(out[d]) < PeerQueue /\ Len(out[d]) \in Nat
      BY <2>1, <2>2, LenProperties, SlidesAssumption
    <3>3. /\ Append(out[d], msgs[d]) \in Seq(DownMsg(O))
          /\ Len(Append(out[d], msgs[d])) = Len(out[d]) + 1
      BY <2>1, <2>2, AppendProperties
    <3> QED BY <2>2, <3>1, <3>2, <3>3, SlidesAssumption
  <2>3. CASE d \notin DOMAIN msgs \ (cut \cup full)
    <3>1. out'[d] = out[d] /\ (d \in DOMAIN msgs => d \in cut')
      BY <1>1, <2>3
    <3> QED BY <2>1, <3>1
  <2> QED BY <2>2, <2>3
<1>3. out' = [d \in Clients |-> out'[d]]
  BY <1>1
<1>4. cut \subseteq cut' /\ cut' \subseteq peers
  BY <1>1 DEF NetTyped
<1> QED BY <1>2, <1>3, <1>4

(* Trim drops entries from the front, and the others keep their numbers.   *)
LEMMA TrimEffect ==
    ASSUME NEW O, O \subseteq Op, NEW entries \in Seq(O), NEW saved \in Nat,
           base \in Nat, trimmed \in Deck, Trim(entries, saved)
    PROVE  /\ log' \in Seq(O) /\ Len(log') <= HardMax /\ Len(log') \in Nat
           /\ base' \in Nat /\ base <= base' /\ base' + Len(log') = base + Len(entries)
           /\ trimmed' \in Deck
           /\ \A s \in (base' + 1)..(base + Len(entries)) : log'[s - base'] = entries[s - base]
PROOF
<1> DEFINE hard == IF Len(entries) > HardMax THEN Len(entries) - HardMax ELSE 0
           soft == IF Len(entries) > SoftMax /\ saved > base
                     THEN Min2(Len(entries) - SoftMax, saved - base) ELSE 0
           n == Max2(hard, soft)
<1>1. Len(entries) \in Nat /\ \A i \in 1..Len(entries) : entries[i] \in O
  BY LenProperties, ElementOfSeq
<1>2. hard \in 0..Len(entries) /\ soft \in 0..Len(entries)
  BY <1>1, SlidesAssumption DEF Min2
<1>3. n \in 0..Len(entries) /\ Len(entries) - n <= HardMax
  BY <1>1, <1>2, SlidesAssumption DEF Max2
<1>4. log' = SubSeq(entries, n + 1, Len(entries)) /\ base' = base + n
      /\ trimmed' = Apply(trimmed, SubSeq(entries, 1, n))
  BY DEF Trim
<1> HIDE DEF n
<1>5. /\ log' \in Seq(O)
      /\ Len(log') = IF n + 1 <= Len(entries) THEN Len(entries) - (n + 1) + 1 ELSE 0
      /\ \A i \in 1..(Len(entries) - (n + 1) + 1) : log'[i] = entries[(n + 1) + i - 1]
  <2>1. \A i \in (n + 1)..Len(entries) : entries[i] \in O
    BY <1>1, <1>3
  <2> QED BY <1>1, <1>3, <1>4, <2>1, SubSeqProperties
<1>6. SubSeq(entries, 1, n) \in Seq(Op)
  <2>1. \A i \in 1..n : entries[i] \in Op
    BY <1>1, <1>3
  <2> QED BY <1>1, <1>3, <2>1, SubSeqProperties
<1>7. trimmed' \in Deck
  BY <1>4, <1>6, ApplyType
<1>8. Len(log') = Len(entries) - n
  BY <1>1, <1>3, <1>5
<1>9. ASSUME NEW s \in (base' + 1)..(base + Len(entries))
      PROVE  log'[s - base'] = entries[s - base]
  <2>1. s - base' \in 1..(Len(entries) - (n + 1) + 1) /\ (n + 1) + (s - base') - 1 = s - base
    BY <1>1, <1>3, <1>4
  <2> QED BY <1>5, <2>1
<1> HIDE DEF hard, soft
<1>10. Len(log') \in Nat /\ Len(log') <= HardMax
  BY <1>1, <1>3, <1>8, SlidesAssumption
<1>11. base' \in Nat /\ base <= base'
  BY <1>3, <1>4
<1>12. base' + Len(log') = base + Len(entries)
  <2>1. base' = base + n
    BY <1>4
  <2> QED BY <1>1, <1>3, <1>8, <2>1
<1> QED BY <1>5, <1>7, <1>9, <1>10, <1>11, <1>12

-----------------------------------------------------------------------------
(* What route does to the types.                                           *)

LEMMA RouteTyped ==
    ASSUME NEW O, TypeInv(O), NEW self \in SUBSET peers, NEW m \in UpMsg(O), Route(self, m),
           UNCHANGED <<stored, counts>>
    PROVE  /\ RoomTyped(O)'
           /\ out' \in [Clients -> Seq(DownMsg(O))]
           /\ \A c \in Clients : Len(out'[c]) <= PeerQueue
           /\ cut' \subseteq peers
PROOF
<1> DEFINE Queues == /\ out' \in [Clients -> Seq(DownMsg(O))]
                     /\ \A c \in Clients : Len(out'[c]) <= PeerQueue
                     /\ cut' \subseteq peers
<1>1. /\ RoomTyped(O) /\ NetTyped(O) /\ O \subseteq Op
      /\ stored' = stored /\ ops' = ops /\ events' = events
  BY DEF TypeInv, counts
<1>2. Queues \/ ~UNCHANGED <<out, cut>>
  BY <1>1 DEF NetTyped
<1>3. RoomTyped(O)' \/ ~UNCHANGED room
  BY <1>1 DEF RoomTyped, room
<1>4. CASE Saved(m)
  <2>1. /\ savedSeq' = Max2(savedSeq, Min2(m.seq, Seqno)) /\ Trim(log, savedSeq')
        /\ UNCHANGED <<out, cut, epoch>> /\ m \in [t : {"saved"}, seq : Nat]
    BY <1>4 DEF Saved, UpMsg
  <2>2. Seqno \in Nat
    BY <1>1, LenProperties DEF RoomTyped, Seqno
  <2>3. savedSeq' \in Nat
    BY <1>1, <2>1, <2>2 DEF RoomTyped, Max2, Min2
  <2>4. log' \in Seq(O) /\ Len(log') <= HardMax /\ base' \in Nat /\ trimmed' \in Deck
    BY <1>1, <2>1, <2>3, TrimEffect DEF RoomTyped
  <2> QED BY <1>1, <1>2, <2>1, <2>3, <2>4 DEF RoomTyped
<1>5. CASE Restored(self, m)
  <2> DEFINE msgs == [d \in peers \ self |-> m]
  <2>1. /\ log' = <<>> /\ base' = Seqno + 1 /\ trimmed' = FirstDeck /\ Enqueue(msgs)
        /\ UNCHANGED <<savedSeq, epoch>> /\ m \in [t : {"restored"}]
    BY <1>5 DEF Restored, UpMsg
  <2>2. Seqno \in Nat
    BY <1>1, LenProperties DEF RoomTyped, Seqno
  <2>3. DOMAIN msgs \subseteq peers /\ \A d \in DOMAIN msgs : msgs[d] \in DownMsg(O)
    BY <2>1 DEF DownMsg
  <2> HIDE DEF msgs
  <2>4. Queues
    BY <1>1, <2>1, <2>3, EnqueueEffect
  <2>5. FirstDeck \in Deck /\ <<>> \in Seq(O) /\ Len(<<>>) <= HardMax
    BY SlidesAssumption, EmptySeq DEF FirstDeck, Deck
  <2> QED BY <1>1, <2>1, <2>2, <2>4, <2>5 DEF RoomTyped
<1>6. CASE AckAgain(self, m)
  <2>1. PICK i \in DOMAIN log :
          /\ log[i].id = m.op.id
          /\ Enqueue([d \in self |-> [t |-> "ack", id |-> m.op.id, seq |-> base + i]])
    BY <1>6 DEF AckAgain
  <2>2. m \in [t : {"op"}, op : O, base : Nat] /\ UNCHANGED room
    BY <1>6 DEF AckAgain, Resent, UpMsg
  <2> DEFINE msgs == [d \in self |-> [t |-> "ack", id |-> m.op.id, seq |-> base + i]]
  <2>3. base + i \in Nat
    BY <1>1, LenProperties DEF RoomTyped
  <2>4. DOMAIN msgs \subseteq peers /\ \A d \in DOMAIN msgs : msgs[d] \in DownMsg(O)
    BY <2>2, <2>3 DEF DownMsg, Ids
  <2>5. Enqueue(msgs)
    BY <2>1
  <2> HIDE DEF msgs
  <2>6. Queues
    BY <1>1, <2>4, <2>5, EnqueueEffect
  <2> QED BY <1>3, <2>2, <2>6
<1>7. CASE Reject(self, m)
  <2> DEFINE msgs == [d \in self |-> [t |-> "reject", id |-> m.op.id]]
  <2>1. m \in [t : {"op"}, op : O, base : Nat] /\ UNCHANGED room /\ Enqueue(msgs)
    BY <1>7 DEF Reject, UpMsg
  <2>2. DOMAIN msgs \subseteq peers /\ \A d \in DOMAIN msgs : msgs[d] \in DownMsg(O)
    BY <2>1 DEF DownMsg, Ids
  <2> HIDE DEF msgs
  <2>3. Queues
    BY <1>1, <2>1, <2>2, EnqueueEffect
  <2> QED BY <1>3, <2>1, <2>3
<1>8. CASE Stamp(self, m)
  <2> DEFINE msgs == [d \in peers |->
                        IF d \in self THEN [t |-> "ack", id |-> m.op.id, seq |-> Seqno + 1]
                        ELSE [t |-> "stamped", op |-> m.op, seq |-> Seqno + 1]]
  <2>1. /\ m \in [t : {"op"}, op : O, base : Nat] /\ Enqueue(msgs)
        /\ Trim(Append(log, m.op), savedSeq) /\ UNCHANGED <<savedSeq, epoch>>
    BY <1>8 DEF Stamp, UpMsg
  <2>2. Seqno + 1 \in Nat /\ Append(log, m.op) \in Seq(O)
    BY <1>1, <2>1, LenProperties, AppendProperties DEF RoomTyped, Seqno
  <2>3. DOMAIN msgs \subseteq peers /\ \A d \in DOMAIN msgs : msgs[d] \in DownMsg(O)
    BY <2>1, <2>2 DEF DownMsg, Ids
  <2> HIDE DEF msgs
  <2>4. Queues
    BY <1>1, <2>1, <2>3, EnqueueEffect
  <2>5. log' \in Seq(O) /\ Len(log') <= HardMax /\ base' \in Nat /\ trimmed' \in Deck
    BY <1>1, <2>1, <2>2, TrimEffect DEF RoomTyped
  <2> QED BY <1>1, <2>1, <2>4, <2>5 DEF RoomTyped
<1> QED BY <1>4, <1>5, <1>6, <1>7, <1>8 DEF Route

-----------------------------------------------------------------------------
(* What the other actions do to the types.                                 *)

LEMMA SameType ==
    ASSUME NEW O, TypeInv(O), RoomTyped(O)', NetTyped(O)', TabsTyped(O)', Sockets', ops' = ops
    PROVE  TypeInv(O)'
BY DEF TypeInv, Coherent

(* One tab changes, with its fetch and its socket.                         *)
LEMMA TabChanges ==
    ASSUME NEW O, TypeInv(O), NEW c \in Clients, NEW t \in TabOf(O),
           NEW f \in [asked : BOOLEAN, deck : Deck \cup {NoDeck}],
           tab' = [tab EXCEPT ![c] = t], fetch' = [fetch EXCEPT ![c] = f], saving' = saving,
           Loading(t, f), c \in peers' <=> t.conn # "closed",
           \A d \in Clients \ {c} : d \in peers' <=> d \in peers
    PROVE  TabsTyped(O)' /\ Sockets'
PROOF
<1>1. TabsTyped(O) /\ Sockets
  BY DEF TypeInv
<1>2. /\ tab' \in [Clients -> TabOf(O)] /\ tab'[c] = t
      /\ \A d \in Clients \ {c} : tab'[d] = tab[d]
  BY <1>1 DEF TabsTyped
<1>3. /\ fetch' \in [Clients -> [asked : BOOLEAN, deck : Deck \cup {NoDeck}]] /\ fetch'[c] = f
      /\ \A d \in Clients \ {c} : fetch'[d] = fetch[d]
  BY <1>1 DEF TabsTyped
<1>4. TabsTyped(O)'
  BY <1>1, <1>2, <1>3 DEF TabsTyped, NoSave
<1>5. ASSUME NEW d \in Clients
      PROVE  (d \in peers' <=> tab'[d].conn # "closed") /\ Loading(tab'[d], fetch'[d])
  <2>1. CASE d = c
    BY <1>2, <1>3, <2>1
  <2>2. CASE d # c
    BY <1>1, <1>2, <1>3, <2>2 DEF Sockets
  <2> QED BY <2>1, <2>2
<1> QED BY <1>4, <1>5 DEF Sockets

(* The same, when the fetch and the sockets stay as they are.              *)
LEMMA TabMoves ==
    ASSUME NEW O, TypeInv(O), NEW c \in Clients, NEW t \in TabOf(O),
           tab' = [tab EXCEPT ![c] = t], UNCHANGED <<fetch, saving, peers>>,
           Loading(t, fetch[c]), t.conn # "closed" <=> tab[c].conn # "closed"
    PROVE  TabsTyped(O)' /\ Sockets'
PROOF
<1>1. TabsTyped(O) /\ Sockets
  BY DEF TypeInv
<1>2. /\ fetch[c] \in [asked : BOOLEAN, deck : Deck \cup {NoDeck}]
      /\ fetch' = [fetch EXCEPT ![c] = fetch[c]]
  BY <1>1 DEF TabsTyped
<1>3. c \in peers' <=> t.conn # "closed"
  BY <1>1 DEF Sockets
<1> HIDE DEF TypeInv
<1> QED BY <1>2, <1>3, TabChanges

LEMMA RoomStays ==
    ASSUME NEW O, TypeInv(O), UNCHANGED <<stored, room, counts>>
    PROVE  RoomTyped(O)' /\ ops' = ops
BY DEF TypeInv, RoomTyped, room, counts

LEMMA TabsStay ==
    ASSUME NEW O, TypeInv(O), UNCHANGED <<tab, fetch, saving, peers>>
    PROVE  TabsTyped(O)' /\ Sockets'
BY DEF TypeInv, TabsTyped, Sockets, NoSave

(* A message read.                                                         *)
LEMMA TakeTyped ==
    ASSUME NEW S, NEW q \in [Clients -> Seq(S)], NEW c \in Clients, q[c] # <<>>
    PROVE  Head(q[c]) \in S /\ [q EXCEPT ![c] = Tail(@)] \in [Clients -> Seq(S)]
PROOF
<1>1. Head(q[c]) \in S /\ Tail(q[c]) \in Seq(S)
  BY HeadTailProperties
<1> QED BY <1>1

LEMMA ReadTyped ==
    ASSUME NEW O, TypeInv(O), NEW c \in Clients, Read(c)
    PROVE  TypeInv(O)'
PROOF
<1>1. /\ up[c] # <<>> /\ Route({c}, Head(up[c])) /\ up' = [up EXCEPT ![c] = Tail(@)]
      /\ UNCHANGED <<stored, counts>> /\ UNCHANGED <<peers, ghosts, late, catchUp>>
      /\ UNCHANGED <<tab, fetch, saving, peers>> /\ tab[c].conn # "closed"
  BY DEF Read
<1>2. NetTyped(O) /\ c \in peers
  BY <1>1 DEF TypeInv, Sockets
<1>3. Head(up[c]) \in UpMsg(O) /\ up' \in [Clients -> Seq(UpMsg(O))]
  BY <1>1, <1>2, TakeTyped DEF NetTyped
<1>4. /\ RoomTyped(O)'
      /\ out' \in [Clients -> Seq(DownMsg(O))]
      /\ \A d \in Clients : Len(out'[d]) <= PeerQueue
      /\ cut' \subseteq peers
  BY <1>1, <1>2, <1>3, RouteTyped
<1>5. NetTyped(O)'
  BY <1>1, <1>2, <1>3, <1>4 DEF NetTyped
<1>6. TabsTyped(O)' /\ Sockets' /\ ops' = ops
  BY <1>1, TabsStay DEF counts
<1> QED BY <1>4, <1>5, <1>6, SameType

LEMMA ReadLateTyped ==
    ASSUME NEW O, TypeInv(O), NEW c \in Clients, ReadLate(c)
    PROVE  TypeInv(O)'
PROOF
<1>1. /\ late[c] # <<>> /\ Route({}, Head(late[c])) /\ late' = [late EXCEPT ![c] = Tail(@)]
      /\ UNCHANGED <<stored, counts>> /\ UNCHANGED <<peers, ghosts, catchUp, up>>
      /\ UNCHANGED <<tab, fetch, saving, peers>>
  BY DEF ReadLate
<1>2. NetTyped(O) /\ {} \in SUBSET peers
  BY DEF TypeInv
<1>3. Head(late[c]) \in UpMsg(O) /\ late' \in [Clients -> Seq(UpMsg(O))]
  BY <1>1, <1>2, TakeTyped DEF NetTyped
<1>4. /\ RoomTyped(O)'
      /\ out' \in [Clients -> Seq(DownMsg(O))]
      /\ \A d \in Clients : Len(out'[d]) <= PeerQueue
      /\ cut' \subseteq peers
  BY <1>1, <1>2, <1>3, RouteTyped
<1>5. NetTyped(O)'
  BY <1>1, <1>2, <1>3, <1>4 DEF NetTyped
<1>6. TabsTyped(O)' /\ Sockets' /\ ops' = ops
  BY <1>1, TabsStay DEF counts
<1> QED BY <1>4, <1>5, <1>6, SameType

LEMMA RemoveTyped ==
    ASSUME NEW O, TypeInv(O), NEW c \in Clients, Remove(c)
    PROVE  TypeInv(O)'
PROOF
<1>1. /\ ghosts' = ghosts \ {c} /\ late' = [late EXCEPT ![c] = <<>>]
      /\ UNCHANGED <<stored, room, counts>> /\ UNCHANGED <<peers, catchUp, out, cut, up>>
      /\ UNCHANGED <<tab, fetch, saving, peers>>
  BY DEF Remove
<1>2. NetTyped(O)'
  <2>1. <<>> \in Seq(UpMsg(O))
    BY EmptySeq
  <2> QED BY <1>1, <2>1 DEF NetTyped, TypeInv
<1> QED BY <1>1, <1>2, RoomStays, TabsStay, SameType

(* A socket given up.                                                      *)
LEMMA LoseTyped ==
    ASSUME NEW O, TypeInv(O), NEW c \in Clients, NEW sent \in Seq(UpMsg(O)), Lose(c, sent)
    PROVE  /\ NetTyped(O)' /\ c \notin peers'
           /\ \A d \in Clients \ {c} : d \in peers' <=> d \in peers
PROOF
<1>1. NetTyped(O) /\ <<>> \in Seq(UpMsg(O)) /\ <<>> \in Seq(DownMsg(O)) /\ Len(<<>>) <= PeerQueue
  BY EmptySeq, SlidesAssumption DEF TypeInv
<1>2. /\ ghosts' \subseteq Clients /\ peers' = peers \ {c} /\ cut' = cut \ {c}
      /\ late' \in [Clients -> Seq(UpMsg(O))] /\ up' \in [Clients -> Seq(UpMsg(O))]
      /\ catchUp' \in [Clients -> Seq(DownMsg(O))] /\ out' \in [Clients -> Seq(DownMsg(O))]
  BY <1>1 DEF Lose, NetTyped
<1>3. \A d \in Clients : Len(out'[d]) <= PeerQueue
  BY <1>1 DEF Lose, NetTyped
<1> QED BY <1>1, <1>2, <1>3 DEF NetTyped

LEMMA CloseTyped ==
    ASSUME NEW O, TypeInv(O), NEW c \in Clients, Close(c)
    PROVE  TypeInv(O)'
PROOF
<1> DEFINE t == [tab[c] EXCEPT !.conn = "closed", !.synced = FALSE]
<1>1. /\ Lose(c, up[c]) /\ tab' = [tab EXCEPT ![c] = t] /\ UNCHANGED <<stored, room, ops>>
      /\ UNCHANGED <<fetch, saving>> /\ events' = IF c \in cut THEN events ELSE events + 1
  BY DEF Close
<1>2. TabsTyped(O) /\ Sockets /\ NetTyped(O) /\ RoomTyped(O)
  BY DEF TypeInv
<1>3. tab[c] \in TabOf(O) /\ up[c] \in Seq(UpMsg(O))
  BY <1>2 DEF TabsTyped, NetTyped
<1>4. t \in TabOf(O) /\ t.conn = "closed" /\ Loading(t, fetch[c])
  BY <1>2, <1>3 DEF TabOf, Loading, Sockets
<1>5. /\ fetch[c] \in [asked : BOOLEAN, deck : Deck \cup {NoDeck}]
      /\ fetch' = [fetch EXCEPT ![c] = fetch[c]]
  BY <1>1, <1>2 DEF TabsTyped
<1>6. RoomTyped(O)' /\ ops' = ops
  BY <1>1, <1>2 DEF RoomTyped, room
<1>7. NetTyped(O)' /\ c \notin peers' /\ \A d \in Clients \ {c} : d \in peers' <=> d \in peers
  BY <1>1, <1>3, LoseTyped
<1> HIDE DEF t
<1>8. TabsTyped(O)' /\ Sockets'
  BY <1>1, <1>4, <1>5, <1>7, TabChanges
<1> QED BY <1>6, <1>7, <1>8, SameType

LEMMA ReloadTyped ==
    ASSUME NEW O, TypeInv(O), NEW c \in Clients, NEW sent \in Seq(UpMsg(O)), Reload(c, sent),
           saving' = saving
    PROVE  NetTyped(O)' /\ TabsTyped(O)' /\ Sockets'
PROOF
<1> DEFINE ids == tab[c].settled \cup PendingIds(tab[c].pending)
           t == NewTab(tab[c].born + 1, ids)
<1>1. Lose(c, sent) /\ tab' = [tab EXCEPT ![c] = t] /\ fetch' = [fetch EXCEPT ![c] = Asked]
  BY DEF Reload
<1>2. tab[c].born \in Nat /\ ids \in SUBSET Nat
  <2>1. tab[c] \in TabOf(O) /\ O \subseteq Op
    BY DEF TypeInv, TabsTyped
  <2>2. /\ tab[c].born \in Nat /\ tab[c].settled \in SUBSET Nat
        /\ tab[c].pending \in Seq(Entry(O))
    BY <2>1 DEF TabOf
  <2>3. \A i \in DOMAIN tab[c].pending : tab[c].pending[i].op.id \in Nat
    <3> SUFFICES ASSUME NEW i \in DOMAIN tab[c].pending
                 PROVE  tab[c].pending[i].op.id \in Nat
      OBVIOUS
    <3>1. i \in 1..Len(tab[c].pending)
      BY <2>2, LenProperties
    <3>2. tab[c].pending[i] \in Entry(O)
      BY <2>2, <3>1, ElementOfSeq
    <3>3. tab[c].pending[i].op \in Op
      BY <2>1, <3>2 DEF Entry
    <3> QED BY <3>3 DEF Op
  <2> QED BY <2>2, <2>3 DEF PendingIds
<1> HIDE DEF ids
<1>3. t \in TabOf(O) /\ t.conn = "closed" /\ Loading(t, Asked)
  <2>1. <<>> \in Seq(Entry(O)) /\ <<>> \in Seq(O)
    BY EmptySeq
  <2> QED BY <1>2, <2>1 DEF NewTab, TabOf, Loading
<1>4. Asked \in [asked : BOOLEAN, deck : Deck \cup {NoDeck}]
  BY DEF Asked
<1>5. NetTyped(O)' /\ c \notin peers' /\ \A d \in Clients \ {c} : d \in peers' <=> d \in peers
  BY <1>1, LoseTyped
<1> HIDE DEF t
<1> QED BY <1>1, <1>3, <1>4, <1>5, TabChanges

LEMMA RestoreTyped ==
    ASSUME NEW O, TypeInv(O), NEW c \in Clients, Restore(c)
    PROVE  TypeInv(O)'
PROOF
<1> DEFINE sent == IF tab[c].conn = "closed" THEN up[c] ELSE Append(up[c], [t |-> "restored"])
<1>1. /\ events' = events + 1 /\ stored' = FirstDeck /\ Reload(c, sent)
      /\ saving' = saving /\ UNCHANGED room /\ ops' = ops
  BY DEF Restore
<1>2. sent \in Seq(UpMsg(O))
  <2>1. up[c] \in Seq(UpMsg(O)) /\ [t |-> "restored"] \in UpMsg(O)
    BY DEF TypeInv, NetTyped, UpMsg
  <2>2. Append(up[c], [t |-> "restored"]) \in Seq(UpMsg(O))
    BY <2>1, AppendProperties
  <2> QED BY <2>1, <2>2
<1> HIDE DEF sent
<1>3. NetTyped(O)' /\ TabsTyped(O)' /\ Sockets'
  BY <1>1, <1>2, ReloadTyped
<1>4. RoomTyped(O)'
  <2>1. FirstDeck \in Deck
    BY DEF FirstDeck, Deck
  <2> QED BY <1>1, <2>1 DEF TypeInv, RoomTyped, room
<1> QED BY <1>1, <1>3, <1>4, SameType

LEMMA ReceiveRestoredTyped ==
    ASSUME NEW O, TypeInv(O), NEW c \in Clients, ReceiveRestored(c)
    PROVE  TypeInv(O)'
PROOF
<1>1. Reload(c, up[c]) /\ UNCHANGED <<stored, room, counts>> /\ saving' = saving
  BY DEF ReceiveRestored
<1>2. up[c] \in Seq(UpMsg(O))
  BY DEF TypeInv, NetTyped
<1>3. NetTyped(O)' /\ TabsTyped(O)' /\ Sockets'
  BY <1>1, <1>2, ReloadTyped
<1> QED BY <1>1, <1>3, RoomStays, SameType

LEMMA DialTyped ==
    ASSUME NEW O, TypeInv(O), NEW c \in Clients, Dial(c)
    PROVE  TypeInv(O)'
PROOF
<1> DEFINE t == [tab[c] EXCEPT !.conn = "added"]
<1>1. /\ peers' = peers \cup {c} /\ tab' = [tab EXCEPT ![c] = t]
      /\ stored' = stored /\ ops' = ops /\ events' = events
      /\ UNCHANGED <<ghosts, late, catchUp, out, cut, up>> /\ UNCHANGED <<fetch, saving>>
      /\ \/ /\ epoch' = epoch + 1 /\ log' = <<>> /\ base' = 0 /\ savedSeq' = 0
            /\ trimmed' = FirstDeck
         \/ UNCHANGED room
  BY DEF Dial, counts
<1>2. TabsTyped(O) /\ Sockets /\ NetTyped(O) /\ RoomTyped(O)
  BY DEF TypeInv
<1>3. RoomTyped(O)'
  <2>1. FirstDeck \in Deck /\ <<>> \in Seq(O) /\ Len(<<>>) <= HardMax
    BY EmptySeq, SlidesAssumption DEF FirstDeck, Deck
  <2>2. CASE UNCHANGED room
    BY <1>1, <1>2, <2>2 DEF RoomTyped, room
  <2>3. CASE /\ epoch' = epoch + 1 /\ log' = <<>> /\ base' = 0 /\ savedSeq' = 0
             /\ trimmed' = FirstDeck
    <3>1. epoch' \in Nat /\ base' \in Nat /\ savedSeq' \in Nat
      BY <1>2, <2>3 DEF RoomTyped
    <3>2. log' \in Seq(O) /\ Len(log') <= HardMax /\ trimmed' \in Deck
      BY <2>1, <2>3
    <3> QED BY <1>1, <1>2, <3>1, <3>2 DEF RoomTyped
  <2> QED BY <1>1, <2>2, <2>3
<1>4. NetTyped(O)'
  BY <1>1, <1>2 DEF NetTyped
<1>5. tab[c] \in TabOf(O)
  BY <1>2 DEF TabsTyped
<1>6. t \in TabOf(O) /\ t.conn = "added" /\ Loading(t, fetch[c])
  BY <1>2, <1>5 DEF TabOf, Loading, Sockets
<1>7. /\ fetch[c] \in [asked : BOOLEAN, deck : Deck \cup {NoDeck}]
      /\ fetch' = [fetch EXCEPT ![c] = fetch[c]]
  BY <1>1, <1>2 DEF TabsTyped
<1>8. c \in peers' /\ \A d \in Clients \ {c} : d \in peers' <=> d \in peers
  BY <1>1
<1> HIDE DEF t
<1>9. TabsTyped(O)' /\ Sockets'
  BY <1>1, <1>6, <1>7, <1>8, TabChanges
<1> QED BY <1>1, <1>3, <1>4, <1>9, SameType

(* The catch-up: the welcome, the entries missed, and synced.              *)
CaughtUp(q, w, n, missed, s) ==
    /\ Len(q) = n + 2 /\ q[1] = w /\ q[n + 2] = s
    /\ \A k \in 2..(n + 1) : q[k] = missed[k - 1]

LEMMA CatchUpType ==
    ASSUME NEW O, NEW w \in DownMsg(O), NEW n \in Nat, NEW missed \in [1..n -> DownMsg(O)],
           NEW s \in DownMsg(O)
    PROVE  LET q == <<w>> \o missed \o <<s>> IN
             q \in Seq(DownMsg(O)) /\ CaughtUp(q, w, n, missed, s)
PROOF
<1>1. missed \in Seq(DownMsg(O)) /\ Len(missed) = n
  BY SeqOfEach
<1>2. /\ <<w>> \in Seq(DownMsg(O)) /\ Len(<<w>>) = 1 /\ <<w>>[1] = w
      /\ <<s>> \in Seq(DownMsg(O)) /\ Len(<<s>>) = 1 /\ <<s>>[1] = s
  OBVIOUS
<1> DEFINE a == <<w>> \o missed
<1>3. /\ a \in Seq(DownMsg(O)) /\ Len(a) = 1 + n
      /\ \A i \in 1..(1 + n) : a[i] = IF i <= 1 THEN <<w>>[i] ELSE missed[i - 1]
  BY <1>1, <1>2, ConcatProperties
<1> HIDE DEF a
<1> DEFINE q == a \o <<s>>
<1>4. /\ q \in Seq(DownMsg(O)) /\ Len(q) = 1 + n + 1
      /\ \A i \in 1..(1 + n + 1) : q[i] = IF i <= 1 + n THEN a[i] ELSE <<s>>[i - (1 + n)]
  BY <1>1, <1>2, <1>3, ConcatProperties
<1> HIDE DEF q
<1>5. q[1] = w /\ q[n + 2] = s /\ Len(q) = n + 2
  BY <1>2, <1>3, <1>4
<1>6. ASSUME NEW k \in 2..(n + 1)
      PROVE  q[k] = missed[k - 1]
  <2>1. k \in 1..(1 + n + 1) /\ k <= 1 + n /\ k \in 1..(1 + n) /\ ~(k <= 1)
    OBVIOUS
  <2> QED BY <1>3, <1>4, <2>1
<1>7. CaughtUp(q, w, n, missed, s)
  BY <1>5, <1>6 DEF CaughtUp
<1> QED BY <1>4, <1>7 DEF q, a

LEMMA JoinTyped ==
    ASSUME NEW O, TypeInv(O), NEW c \in Clients, Join(c)
    PROVE  TypeInv(O)'
PROOF
<1> DEFINE since == tab[c].lastSeq
           fresh == tab[c].epoch # epoch \/ since < base \/ since > Seqno
           from == IF fresh THEN 0 ELSE since - base
           n == Len(log) - from
           missed == [i \in 1..n |-> [t |-> "stamped", op |-> log[from + i], seq |-> base + from + i]]
           w == [t |-> "welcome", epoch |-> epoch, fresh |-> fresh]
           s == [t |-> "synced", seq |-> Seqno]
           t == [tab[c] EXCEPT !.conn = "open"]
<1>1. /\ catchUp' = [catchUp EXCEPT ![c] = <<w>> \o missed \o <<s>>]
      /\ tab' = [tab EXCEPT ![c] = t] /\ tab[c].conn = "added"
      /\ UNCHANGED <<stored, room, counts>> /\ UNCHANGED <<peers, ghosts, late, out, cut, up>>
      /\ UNCHANGED <<fetch, saving, peers>>
  BY DEF Join
<1>2. TabsTyped(O) /\ Sockets /\ NetTyped(O) /\ RoomTyped(O)
  BY DEF TypeInv
<1>3. tab[c] \in TabOf(O) /\ log \in Seq(O) /\ base \in Nat /\ epoch \in Nat
  BY <1>2 DEF TabsTyped, RoomTyped
<1>4. since \in Nat /\ Len(log) \in Nat /\ Seqno \in Nat
  BY <1>3, LenProperties DEF TabOf, Seqno
<1>5. from \in 0..Len(log) /\ n \in Nat /\ n = Len(log) - from
  BY <1>3, <1>4 DEF Seqno
<1>6. w \in DownMsg(O) /\ s \in DownMsg(O)
  BY <1>3, <1>4 DEF DownMsg
<1>7. missed \in [1..n -> DownMsg(O)]
  <2> SUFFICES ASSUME NEW i \in 1..n
               PROVE  [t |-> "stamped", op |-> log[from + i], seq |-> base + from + i] \in DownMsg(O)
    OBVIOUS
  <2> HIDE DEF from, n
  <2>1. from + i \in 1..Len(log) /\ base + from + i \in Nat
    BY <1>3, <1>4, <1>5
  <2>2. log[from + i] \in O
    BY <1>3, <2>1, ElementOfSeq
  <2> QED BY <2>1, <2>2 DEF DownMsg
<1>8. t \in TabOf(O) /\ t.conn = "open" /\ Loading(t, fetch[c])
  BY <1>2, <1>3 DEF TabOf, Loading, Sockets
<1> HIDE DEF from, n, missed, w, s, t
<1>9. <<w>> \o missed \o <<s>> \in Seq(DownMsg(O))
  BY <1>5, <1>6, <1>7, CatchUpType
<1>10. NetTyped(O)'
  BY <1>1, <1>2, <1>9 DEF NetTyped
<1>11. TabsTyped(O)' /\ Sockets'
  BY <1>1, <1>8, TabMoves
<1> QED BY <1>1, <1>10, <1>11, RoomStays, SameType

LEMMA GetDeckTyped ==
    ASSUME NEW O, TypeInv(O), NEW c \in Clients, GetDeck(c)
    PROVE  TypeInv(O)'
PROOF
<1> DEFINE f == [fetch[c] EXCEPT !.deck = stored]
<1>1. /\ fetch' = [fetch EXCEPT ![c] = f] /\ fetch[c] = Asked
      /\ UNCHANGED <<stored, room, counts>> /\ UNCHANGED net /\ UNCHANGED <<tab, saving>>
  BY DEF GetDeck
<1>2. TabsTyped(O) /\ Sockets /\ NetTyped(O) /\ RoomTyped(O)
  BY DEF TypeInv
<1>3. tab[c] \in TabOf(O) /\ tab' = [tab EXCEPT ![c] = tab[c]]
  BY <1>1, <1>2 DEF TabsTyped
<1>4. f \in [asked : BOOLEAN, deck : Deck \cup {NoDeck}]
  <2>1. fetch[c] \in [asked : BOOLEAN, deck : Deck \cup {NoDeck}] /\ stored \in Deck
    BY <1>2 DEF RoomTyped, TabsTyped
  <2> QED BY <2>1
<1>5. Loading(tab[c], f)
  BY <1>1, <1>2 DEF Sockets, Loading, Asked, NotAsked
<1>6. NetTyped(O)' /\ peers' = peers
  BY <1>1, <1>2 DEF NetTyped, net
<1>7. c \in peers' <=> tab[c].conn # "closed"
  BY <1>2, <1>6 DEF Sockets
<1> HIDE DEF f
<1>8. TabsTyped(O)' /\ Sockets'
  BY <1>1, <1>3, <1>4, <1>5, <1>6, <1>7, TabChanges
<1> QED BY <1>1, <1>6, <1>8, RoomStays, SameType

LEMMA OpsType ==
    ASSUME NEW O, NEW p \in Seq(Entry(O))
    PROVE  /\ Ops(p) \in Seq(O) /\ DOMAIN Ops(p) = DOMAIN p
           /\ Wires(p) \in Seq(UpMsg(O)) /\ Len(Wires(p)) = Len(p)
           /\ \A i \in DOMAIN p : Ops(p)[i] = p[i].op /\ Wires(p)[i] = Wire(p[i])
PROOF
<1>1. DOMAIN p = 1..Len(p) /\ Len(p) \in Nat /\ \A i \in 1..Len(p) : p[i] \in Entry(O)
  BY LenProperties, ElementOfSeq
<1>2. Ops(p) \in [1..Len(p) -> O]
  BY <1>1 DEF Ops, Entry
<1>3. Wires(p) \in [1..Len(p) -> UpMsg(O)]
  BY <1>1 DEF Wires, Wire, Entry, UpMsg
<1>4. Ops(p) \in Seq(O) /\ DOMAIN Ops(p) = 1..Len(p)
  BY <1>1, <1>2, SeqOfEach
<1>5. Wires(p) \in Seq(UpMsg(O)) /\ Len(Wires(p)) = Len(p)
  BY <1>1, <1>3, SeqOfEach
<1>6. \A i \in DOMAIN p : Ops(p)[i] = p[i].op /\ Wires(p)[i] = Wire(p[i])
  BY DEF Ops, Wires
<1> QED BY <1>1, <1>4, <1>5, <1>6

(* What a tab shows: the ordered deck with its pending operations on top.  *)
LEMMA LocalType ==
    ASSUME NEW O, O \subseteq Op, NEW t \in TabOf(O), t.confirmed # NoDeck
    PROVE  Local(t) \in Deck /\ NoDeck \notin Deck
PROOF
<1>1. t.pending \in Seq(Entry(O)) /\ t.confirmed \in Deck
  BY DEF TabOf
<1>2. Ops(t.pending) \in Seq(Op)
  BY <1>1, OpsType, SeqMonotonic
<1>3. NoDeck \notin Deck
  BY SlidesAssumption DEF Deck
<1> QED BY <1>1, <1>2, <1>3, ApplyType DEF Local

LEMMA LoadedTyped ==
    ASSUME NEW O, TypeInv(O), NEW c \in Clients, Loaded(c)
    PROVE  TypeInv(O)'
PROOF
<1> DEFINE t == [tab[c] EXCEPT !.confirmed = Apply(fetch[c].deck, tab[c].buffered),
                               !.buffered = <<>>]
           u == [t EXCEPT !.shown = Local(t)]
<1>1. /\ fetch[c].deck # NoDeck /\ fetch' = [fetch EXCEPT ![c] = NotAsked]
      /\ tab' = [tab EXCEPT ![c] = u]
      /\ UNCHANGED <<stored, room, counts>> /\ UNCHANGED net /\ UNCHANGED saving
  BY DEF Loaded
<1>2. TabsTyped(O) /\ Sockets /\ NetTyped(O) /\ O \subseteq Op
  BY DEF TypeInv
<1>3. tab[c] \in TabOf(O) /\ fetch[c].deck \in Deck /\ tab[c].buffered \in Seq(Op)
  <2>1. tab[c] \in TabOf(O) /\ fetch[c].deck \in Deck
    BY <1>1, <1>2 DEF TabsTyped
  <2> QED BY <1>2, <2>1, SeqMonotonic DEF TabOf
<1>4. Apply(fetch[c].deck, tab[c].buffered) \in Deck
  BY <1>3, ApplyType
<1>5. t \in TabOf(O) /\ t.confirmed \in Deck /\ t.buffered = <<>> /\ t.conn = tab[c].conn
  <2>1. <<>> \in Seq(O)
    BY EmptySeq
  <2> QED BY <1>3, <1>4, <2>1 DEF TabOf
<1> HIDE DEF t
<1>6. Local(t) \in Deck /\ NoDeck \notin Deck
  <2>1. NoDeck \notin Deck
    BY SlidesAssumption DEF Deck
  <2> QED BY <1>2, <1>5, <2>1, LocalType
<1>7. u \in TabOf(O) /\ u.conn = tab[c].conn /\ Loading(u, NotAsked)
  BY <1>5, <1>6 DEF TabOf, Loading
<1>8. NetTyped(O)' /\ peers' = peers
  BY <1>1, <1>2 DEF NetTyped, net
<1>9. c \in peers' <=> u.conn # "closed"
  BY <1>2, <1>7, <1>8 DEF Sockets
<1>10. NotAsked \in [asked : BOOLEAN, deck : Deck \cup {NoDeck}]
  BY DEF NotAsked
<1> HIDE DEF u
<1>11. TabsTyped(O)' /\ Sockets'
  BY <1>1, <1>7, <1>8, <1>9, <1>10, TabChanges
<1> QED BY <1>1, <1>8, <1>11, RoomStays, SameType

LEMMA SaveStartTyped ==
    ASSUME NEW O, TypeInv(O), NEW c \in Clients, SaveStart(c)
    PROVE  TypeInv(O)'
PROOF
<1> DEFINE s == [deck |-> tab[c].shown, seq |-> tab[c].lastSeq, born |-> tab[c].born]
<1>1. /\ tab[c].shown # NoDeck /\ events' = events + 1 /\ saving' = [saving EXCEPT ![c] = s]
      /\ UNCHANGED <<stored, room, ops>> /\ UNCHANGED net /\ UNCHANGED <<tab, fetch>>
  BY DEF SaveStart
<1>2. TabsTyped(O) /\ Sockets /\ NetTyped(O) /\ RoomTyped(O)
  BY DEF TypeInv
<1>3. s \in [deck : Deck \cup {NoDeck}, seq : Nat, born : Nat] /\ s.deck # NoDeck
  BY <1>1, <1>2 DEF TabsTyped, TabOf
<1> HIDE DEF s
<1>4. TabsTyped(O)'
  BY <1>1, <1>2, <1>3 DEF TabsTyped, NoSave
<1>5. RoomTyped(O)' /\ NetTyped(O)' /\ Sockets' /\ ops' = ops
  BY <1>1, <1>2 DEF RoomTyped, room, NetTyped, net, Sockets
<1> QED BY <1>4, <1>5, SameType

LEMMA SaveDoneTyped ==
    ASSUME NEW O, TypeInv(O), NEW c \in Clients, SaveDone(c)
    PROVE  TypeInv(O)'
PROOF
<1> DEFINE m == [t |-> "saved", seq |-> saving[c].seq]
<1>1. /\ saving[c] # NoSave /\ stored' = saving[c].deck
      /\ up' = up \/ up' = [up EXCEPT ![c] = Append(@, m)]
      /\ saving' = [saving EXCEPT ![c] = NoSave]
      /\ UNCHANGED room /\ UNCHANGED <<peers, ghosts, late, catchUp, out, cut>>
      /\ UNCHANGED <<tab, fetch>> /\ ops' = ops /\ events' = events
  BY DEF SaveDone, counts
<1>2. TabsTyped(O) /\ Sockets /\ NetTyped(O) /\ RoomTyped(O)
  BY DEF TypeInv
<1>3. saving[c].deck \in Deck /\ m \in UpMsg(O)
  BY <1>1, <1>2 DEF TabsTyped, UpMsg
<1> HIDE DEF m
<1>4. up' \in [Clients -> Seq(UpMsg(O))]
  <2>1. up[c] \in Seq(UpMsg(O))
    BY <1>2 DEF NetTyped
  <2>2. Append(up[c], m) \in Seq(UpMsg(O))
    BY <1>3, <2>1, AppendProperties
  <2> QED BY <1>1, <1>2, <2>2 DEF NetTyped
<1>5. NetTyped(O)'
  BY <1>1, <1>2, <1>4 DEF NetTyped
<1>6. TabsTyped(O)' /\ Sockets'
  BY <1>1, <1>2 DEF TabsTyped, Sockets, NoSave
<1>7. RoomTyped(O)'
  BY <1>1, <1>2, <1>3 DEF RoomTyped, room
<1> QED BY <1>1, <1>5, <1>6, <1>7, SameType

(* An edit adds one operation to those made.                               *)
LEMMA MoreOps ==
    ASSUME NEW O, TypeInv(O), NEW P, O \subseteq P
    PROVE  /\ RoomTyped(P) /\ NetTyped(P) /\ TabsTyped(P)
           /\ Seq(UpMsg(O)) \subseteq Seq(UpMsg(P)) /\ Seq(Entry(O)) \subseteq Seq(Entry(P))
           /\ TabOf(O) \subseteq TabOf(P)
PROOF
<1>1. RoomTyped(O) /\ NetTyped(O) /\ TabsTyped(O)
  BY DEF TypeInv
<1>2. UpMsg(O) \subseteq UpMsg(P)
  BY DEF UpMsg
<1>3. Ids(O) \subseteq Ids(P)
  BY DEF Ids
<1>4. DownMsg(O) \subseteq DownMsg(P)
  BY <1>3 DEF DownMsg
<1>5. Entry(O) \subseteq Entry(P)
  BY DEF Entry
<1>6. /\ Seq(O) \subseteq Seq(P) /\ Seq(UpMsg(O)) \subseteq Seq(UpMsg(P))
      /\ Seq(DownMsg(O)) \subseteq Seq(DownMsg(P)) /\ Seq(Entry(O)) \subseteq Seq(Entry(P))
  BY <1>2, <1>4, <1>5, SeqMonotonic
<1>7. TabOf(O) \subseteq TabOf(P)
  BY <1>6 DEF TabOf
<1>8. RoomTyped(P)
  BY <1>1, <1>6 DEF RoomTyped
<1>9. NetTyped(P)
  BY <1>1, <1>6 DEF NetTyped
<1>10. TabsTyped(P)
  BY <1>1, <1>7 DEF TabsTyped
<1> QED BY <1>6, <1>7, <1>8, <1>9, <1>10

(* The operation of an edit, and its entry among the pending ones.         *)
EditOp(c, cells) ==
    LET t == tab[c]
        ordered == /\ t.confirmed # NoDeck /\ ~t.stray
                   /\ \A x \in cells : t.shown[x] = t.confirmed[x]
    IN  [id |-> ops + 1, by |-> Cid(c), cells |-> cells,
         saw |-> IF ordered THEN t.confirmed ELSE NoDeck]

EditEntry(c, cells) == [op |-> EditOp(c, cells), base |-> tab[c].lastSeq]

WithEdit(O, c, cells) == O \cup {EditOp(c, cells), [EditOp(c, cells) EXCEPT !.saw = NoDeck]}

LEMMA EditTyped ==
    ASSUME NEW O, TypeInv(O), NEW c \in Clients, NEW cells \in Keys, Edit(c, cells),
           NEW P, P = WithEdit(O, c, cells)
    PROVE  TypeInv(P)'
PROOF
<1> DEFINE op == EditOp(c, cells)
           p == EditEntry(c, cells)
           t == [tab[c] EXCEPT !.shown = Apply(@, <<op>>), !.pending = Append(@, p)]
<1>1. /\ tab[c].shown # NoDeck /\ ops' = ops + 1 /\ tab' = [tab EXCEPT ![c] = t]
      /\ up' = IF tab[c].synced THEN [up EXCEPT ![c] = Append(@, Wire(p))] ELSE up
      /\ UNCHANGED <<stored, room, events>> /\ UNCHANGED <<peers, ghosts, late, catchUp, out, cut>>
      /\ UNCHANGED <<fetch, saving, peers>>
  BY DEF Edit, EditOp, EditEntry
<1>2. TabsTyped(O) /\ Sockets /\ NetTyped(O) /\ RoomTyped(O) /\ O \subseteq Op
  BY DEF TypeInv
<1>3. tab[c] \in TabOf(O) /\ ops \in Nat
  BY <1>2 DEF TabsTyped, RoomTyped
<1>4. /\ op \in Op /\ [op EXCEPT !.saw = NoDeck] \in Op
      /\ op.id = ops + 1 /\ op.cells = cells /\ op.by = Cid(c)
  <2>1. /\ op.id = ops + 1 /\ op.cells = cells /\ op.by = Cid(c)
        /\ op = [id |-> op.id, by |-> op.by, cells |-> op.cells, saw |-> op.saw]
        /\ op.saw \in {tab[c].confirmed, NoDeck}
    BY DEF EditOp
  <2>2. op.id \in Nat \ {0} /\ op.by \in Clients \X Nat /\ op.saw \in Deck \cup {NoDeck}
    BY <1>3, <2>1 DEF Cid, TabOf
  <2> HIDE DEF op
  <2> QED BY <2>1, <2>2 DEF Op
<1> HIDE DEF op
<1>5. P = O \cup {op, [op EXCEPT !.saw = NoDeck]} /\ p = [op |-> op, base |-> tab[c].lastSeq]
  BY DEF WithEdit, op, EditEntry
<1> HIDE DEF p
<1>6. O \subseteq P /\ P \subseteq Op /\ op \in P /\ p \in Entry(P)
  BY <1>2, <1>3, <1>4, <1>5 DEF Entry, TabOf
<1>7. /\ RoomTyped(P) /\ NetTyped(P) /\ TabsTyped(P)
      /\ Seq(UpMsg(O)) \subseteq Seq(UpMsg(P)) /\ Seq(Entry(O)) \subseteq Seq(Entry(P))
      /\ TabOf(O) \subseteq TabOf(P)
  BY <1>6, MoreOps
<1>8. Forgets(P)
  BY <1>4, <1>5 DEF Forgets, TypeInv, Op
<1>9. Coherent(P)'
  <2>1. \A o \in O : o.id <= ops /\ o.id \in Nat /\ \A q \in O : o.id = q.id => o.cells = q.cells
    BY <1>2 DEF TypeInv, Coherent, Op
  <2>2. [op EXCEPT !.saw = NoDeck].id = ops + 1 /\ [op EXCEPT !.saw = NoDeck].cells = cells
    BY <1>4 DEF Op
  <2>3. \A o \in P : \/ o \in O
                     \/ o.id = ops + 1 /\ o.cells = cells
    BY <1>4, <1>5, <2>2
  <2>4. \A o, q \in P : o.id <= ops + 1 /\ (o.id = q.id => o.cells = q.cells)
    BY <1>3, <2>1, <2>3
  <2> QED BY <1>1, <2>4 DEF Coherent
<1>10. RoomTyped(P)'
  BY <1>1, <1>3, <1>7 DEF RoomTyped, room
<1>11. NetTyped(P)'
  <2>1. up[c] \in Seq(UpMsg(P)) /\ Wire(p) \in UpMsg(P)
    BY <1>6, <1>7 DEF NetTyped, Wire, Entry, UpMsg
  <2>2. Append(up[c], Wire(p)) \in Seq(UpMsg(P))
    BY <2>1, AppendProperties
  <2>3. up' \in [Clients -> Seq(UpMsg(P))]
    BY <1>1, <1>7, <2>2 DEF NetTyped
  <2> QED BY <1>1, <1>7, <2>3 DEF NetTyped
<1>12. /\ t \in TabOf(P) /\ t.conn = tab[c].conn /\ t.confirmed = tab[c].confirmed
       /\ t.buffered = tab[c].buffered /\ t.shown # NoDeck
  <2>1. Append(tab[c].pending, p) \in Seq(Entry(P))
    BY <1>3, <1>6, <1>7, AppendProperties DEF TabOf
  <2>2. Apply(tab[c].shown, <<op>>) \in Deck /\ NoDeck \notin Deck
    <3>1. tab[c].shown \in Deck
      BY <1>1, <1>3 DEF TabOf
    <3> QED BY <1>4, <3>1, ApplyOne, ApplyType, SlidesAssumption DEF Deck
  <2>3. tab[c] \in TabOf(P)
    BY <1>3, <1>7
  <2> QED BY <2>1, <2>2, <2>3 DEF TabOf
<1> HIDE DEF t
<1>13. TabsTyped(P)'
  BY <1>1, <1>7, <1>12 DEF TabsTyped, NoSave
<1>14. Sockets'
  <2>1. ASSUME NEW d \in Clients
        PROVE  (d \in peers' <=> tab'[d].conn # "closed") /\ Loading(tab'[d], fetch'[d])
    <3>1. CASE d = c
      BY <1>1, <1>2, <1>12, <3>1 DEF TabsTyped, Sockets, Loading
    <3>2. CASE d # c
      BY <1>1, <1>2, <3>2 DEF TabsTyped, Sockets
    <3> QED BY <3>1, <3>2
  <2> QED BY <2>1 DEF Sockets
<1>15. Forgets(P)' /\ (P \subseteq Op)'
  BY <1>6, <1>8 DEF Forgets
<1> QED BY <1>9, <1>10, <1>11, <1>13, <1>14, <1>15 DEF TypeInv

-----------------------------------------------------------------------------
(* What a tab makes of each kind of message.                               *)

LEMMA UnseenType ==
    ASSUME NEW O, O \subseteq Op, Forgets(O), NEW p \in Entry(O), NEW seq \in Nat
    PROVE  /\ Unseen(p) \in Entry(O) /\ Rebased(p, seq) \in Entry(O)
           /\ Unseen(p).op.id = p.op.id /\ Unseen(p).op.saw = NoDeck
           /\ Unseen(p).op.cells = p.op.cells /\ Unseen(p).base = p.base
           /\ Rebased(p, seq).op = Unseen(p).op /\ Rebased(p, seq).base = seq
PROOF
<1> DEFINE o == [p.op EXCEPT !.saw = NoDeck]
<1>1. p.op \in O /\ p.op \in Op /\ p.base \in Nat /\ o \in O
  BY DEF Entry, Forgets
<1>2. o.id = p.op.id /\ o.saw = NoDeck /\ o.cells = p.op.cells
  BY <1>1 DEF Op
<1>3. Unseen(p) = [op |-> o, base |-> p.base]
  BY DEF Unseen, Entry
<1> HIDE DEF o
<1>4. Rebased(p, seq) = [op |-> o, base |-> seq]
  BY <1>3 DEF Rebased
<1> QED BY <1>1, <1>2, <1>3, <1>4 DEF Entry

(* The pending operations after a welcome and after synced.                *)
LEMMA PendingMapped ==
    ASSUME NEW O, O \subseteq Op, Forgets(O), NEW q \in Seq(Entry(O)), NEW seq \in Nat
    PROVE  /\ [i \in DOMAIN q |-> Unseen(q[i])] \in Seq(Entry(O))
           /\ [i \in DOMAIN q |-> Rebased(q[i], seq)] \in Seq(Entry(O))
PROOF
<1>1. DOMAIN q = 1..Len(q) /\ Len(q) \in Nat /\ \A i \in 1..Len(q) : q[i] \in Entry(O)
  BY LenProperties, ElementOfSeq
<1>2. /\ [i \in DOMAIN q |-> Unseen(q[i])] \in [1..Len(q) -> Entry(O)]
      /\ [i \in DOMAIN q |-> Rebased(q[i], seq)] \in [1..Len(q) -> Entry(O)]
  BY <1>1, UnseenType
<1> QED BY <1>1, <1>2, SeqOfEach

(* The tab after a message.                                                *)
WelcomeTab(t, m) ==
    LET refetch == m.fresh /\ t.epoch # 0 /\ t.confirmed # NoDeck
        lapsed == ~m.fresh /\ t.fresh /\ t.pending # <<>>
    IN  [t EXCEPT !.fresh = m.fresh,
                  !.stray = @ \/ lapsed,
                  !.epoch = m.epoch,
                  !.pending = IF lapsed THEN [i \in DOMAIN @ |-> Unseen(@[i])] ELSE @,
                  !.lastSeq = IF m.fresh THEN 0 ELSE @,
                  !.confirmed = IF refetch THEN NoDeck ELSE @,
                  !.buffered = IF refetch THEN <<>> ELSE @]

SyncedTab(t, m) ==
    LET seq == Max2(t.lastSeq, m.seq)
        pending == IF t.fresh THEN [i \in DOMAIN t.pending |-> Rebased(t.pending[i], seq)]
                              ELSE t.pending
    IN  [t EXCEPT !.synced = TRUE, !.lastSeq = seq, !.fresh = FALSE, !.pending = pending]

AckedTab(t, m) == ConfirmOwn([t EXCEPT !.lastSeq = Max2(@, m.seq)], m.id)

RejectedTab(t, m) ==
    LET u == [t EXCEPT !.pending = Without(@, m.id),
                       !.settled = IF Has(t.pending, m.id) THEN @ \cup {m.id} ELSE @] IN
      IF Has(t.pending, m.id) /\ u.confirmed # NoDeck THEN [u EXCEPT !.shown = Local(u)] ELSE u

RemoteTab(t, m) ==
    LET u == [t EXCEPT !.lastSeq = m.seq] IN
      CASE m.seq <= t.lastSeq -> t
        [] m.seq > t.lastSeq /\ Has(u.pending, m.op.id) -> ConfirmOwn(u, m.op.id)
        [] OTHER ->
             IF u.confirmed = NoDeck THEN [u EXCEPT !.buffered = Append(@, m.op)]
             ELSE [u EXCEPT !.confirmed = Apply(@, <<m.op>>), !.shown = Apply(@, <<m.op>>)]

LEMMA WelcomeTabType ==
    ASSUME NEW O, O \subseteq Op, Forgets(O), NEW t \in TabOf(O),
           NEW m \in DownMsg(O), m.t = "welcome"
    PROVE  /\ WelcomeTab(t, m) \in TabOf(O) /\ WelcomeTab(t, m).conn = t.conn
           /\ WelcomeTab(t, m).shown = t.shown
           /\ WelcomeTab(t, m).confirmed # NoDeck =>
                 /\ WelcomeTab(t, m).confirmed = t.confirmed
                 /\ WelcomeTab(t, m).buffered = t.buffered
                 /\ ~(m.fresh /\ t.epoch # 0 /\ t.confirmed # NoDeck)
PROOF
<1>1. m.fresh \in BOOLEAN /\ m.epoch \in Nat
  BY DEF DownMsg
<1>2. t.pending \in Seq(Entry(O)) /\ t.stray \in BOOLEAN
  BY DEF TabOf
<1>3. [i \in DOMAIN t.pending |-> Unseen(t.pending[i])] \in Seq(Entry(O)) /\ <<>> \in Seq(O)
  BY <1>2, PendingMapped, EmptySeq
<1> DEFINE q == [i \in DOMAIN t.pending |-> Unseen(t.pending[i])]
           refetch == m.fresh /\ t.epoch # 0 /\ t.confirmed # NoDeck
           lapsed == ~m.fresh /\ t.fresh /\ t.pending # <<>>
<1> DEFINE stray == t.stray \/ lapsed
           pending == IF lapsed THEN q ELSE t.pending
           seq == IF m.fresh THEN 0 ELSE t.lastSeq
           deck == IF refetch THEN NoDeck ELSE t.confirmed
           ahead == IF refetch THEN <<>> ELSE t.buffered
<1>4. WelcomeTab(t, m) =
        [t EXCEPT !.fresh = m.fresh, !.stray = stray, !.epoch = m.epoch, !.pending = pending,
                  !.lastSeq = seq, !.confirmed = deck, !.buffered = ahead]
  BY DEF WelcomeTab, TabOf
<1>5. /\ stray \in BOOLEAN /\ pending \in Seq(Entry(O)) /\ seq \in Nat
      /\ deck \in Deck \cup {NoDeck} /\ ahead \in Seq(O)
  BY <1>2, <1>3 DEF TabOf
<1>6. deck # NoDeck => deck = t.confirmed /\ ahead = t.buffered /\ ~refetch
  OBVIOUS
<1> HIDE DEF stray, pending, seq, deck, ahead
<1>7. /\ WelcomeTab(t, m).conn = t.conn /\ WelcomeTab(t, m).shown = t.shown
      /\ WelcomeTab(t, m).confirmed = deck /\ WelcomeTab(t, m).buffered = ahead
  BY <1>4 DEF TabOf
<1>8. WelcomeTab(t, m) \in TabOf(O)
  BY <1>1, <1>4, <1>5 DEF TabOf
<1> QED BY <1>6, <1>7, <1>8

LEMMA SyncedTabType ==
    ASSUME NEW O, O \subseteq Op, Forgets(O), NEW t \in TabOf(O),
           NEW m \in DownMsg(O), m.t = "synced"
    PROVE  /\ SyncedTab(t, m) \in TabOf(O) /\ SyncedTab(t, m).conn = t.conn
           /\ SyncedTab(t, m).shown = t.shown /\ SyncedTab(t, m).confirmed = t.confirmed
           /\ SyncedTab(t, m).buffered = t.buffered
PROOF
<1>1. m.seq \in Nat /\ t.lastSeq \in Nat /\ t.pending \in Seq(Entry(O))
  BY DEF DownMsg, TabOf
<1> DEFINE seq == Max2(t.lastSeq, m.seq)
           q == IF t.fresh THEN [i \in DOMAIN t.pending |-> Rebased(t.pending[i], seq)]
                ELSE t.pending
<1>2. seq \in Nat
  BY <1>1 DEF Max2
<1> HIDE DEF seq
<1>3. q \in Seq(Entry(O))
  BY <1>1, <1>2, PendingMapped
<1>4. SyncedTab(t, m) =
        [t EXCEPT !.synced = TRUE, !.lastSeq = seq, !.fresh = FALSE, !.pending = q]
  BY DEF SyncedTab, seq
<1> HIDE DEF q
<1> QED BY <1>2, <1>3, <1>4 DEF TabOf

LEMMA ConfirmOwnType ==
    ASSUME NEW O, O \subseteq Op, NEW t \in TabOf(O), NEW id,
           t.confirmed # NoDeck => t.buffered = <<>>
    PROVE  LET u == ConfirmOwn(t, id) IN
             /\ u \in TabOf(O)
             /\ u.conn = t.conn /\ u.shown = t.shown
             /\ u.confirmed = NoDeck <=> t.confirmed = NoDeck
             /\ u.confirmed # NoDeck => u.buffered = <<>>
PROOF
<1> DEFINE own == t.pending[Place(t.pending, id)].op
<1>1. t.pending \in Seq(Entry(O)) /\ t.buffered \in Seq(O) /\ t.confirmed \in Deck \cup {NoDeck}
  BY DEF TabOf
<1>2. CASE Has(t.pending, id)
  <2>1. Without(t.pending, id) \in Seq(Entry(O)) /\ Place(t.pending, id) \in 1..Len(t.pending)
    BY <1>1, <1>2, WithoutType
  <2>2. own \in O /\ own \in Op
    <3>1. t.pending[Place(t.pending, id)] \in Entry(O)
      BY <1>1, <2>1, ElementOfSeq
    <3> QED BY <3>1 DEF Entry
  <2>3. ConfirmOwn(t, id) =
          [t EXCEPT !.pending = Without(@, id),
                    !.settled = @ \cup {id},
                    !.confirmed = IF @ = NoDeck THEN @ ELSE Apply(@, <<own>>),
                    !.buffered = IF t.confirmed = NoDeck THEN Append(@, own) ELSE @]
    BY <1>2 DEF ConfirmOwn
  <2> HIDE DEF own
  <2>4. Append(t.buffered, own) \in Seq(O)
    BY <1>1, <2>2, AppendProperties
  <2>5. t.confirmed # NoDeck => Apply(t.confirmed, <<own>>) \in Deck
    BY <1>1, <2>2, ApplyOne, ApplyType
  <2>6. NoDeck \notin Deck
    BY SlidesAssumption DEF Deck
  <2>9. t.settled \cup {id} \in SUBSET Nat
    <3>1. t.pending[Place(t.pending, id)].op.id = id
      BY <1>1, <1>2, WithoutType
    <3> QED BY <2>2, <3>1 DEF TabOf, Op, own
  <2>7. CASE t.confirmed = NoDeck
    <3> DEFINE q == Without(t.pending, id)
               ids == t.settled \cup {id}
               ahead == Append(t.buffered, own)
    <3>1. ConfirmOwn(t, id) =
            [t EXCEPT !.pending = q, !.settled = ids, !.buffered = ahead]
      BY <2>3, <2>7 DEF TabOf
    <3>2. q \in Seq(Entry(O)) /\ ids \in SUBSET Nat /\ ahead \in Seq(O)
      BY <2>1, <2>4, <2>9
    <3> HIDE DEF q, ids, ahead
    <3> QED BY <2>7, <3>1, <3>2 DEF TabOf
  <2>8. CASE t.confirmed # NoDeck
    <3> DEFINE q == Without(t.pending, id)
               ids == t.settled \cup {id}
               deck == Apply(t.confirmed, <<own>>)
    <3>1. ConfirmOwn(t, id) = [t EXCEPT !.pending = q, !.settled = ids, !.confirmed = deck]
      BY <2>3, <2>8 DEF TabOf
    <3>2. q \in Seq(Entry(O)) /\ ids \in SUBSET Nat /\ deck \in Deck /\ deck # NoDeck
      BY <2>1, <2>5, <2>6, <2>8, <2>9
    <3> HIDE DEF q, ids, deck
    <3> QED BY <2>8, <3>1, <3>2 DEF TabOf
  <2> QED BY <2>7, <2>8
<1>3. CASE ~Has(t.pending, id)
  BY <1>3 DEF ConfirmOwn
<1> QED BY <1>2, <1>3

LEMMA AckedTabType ==
    ASSUME NEW O, O \subseteq Op, NEW t \in TabOf(O), t.confirmed # NoDeck => t.buffered = <<>>,
           NEW m \in DownMsg(O), m.t = "ack"
    PROVE  LET u == AckedTab(t, m) IN
             /\ u \in TabOf(O) /\ u.conn = t.conn /\ u.shown = t.shown
             /\ u.confirmed = NoDeck <=> t.confirmed = NoDeck
             /\ u.confirmed # NoDeck => u.buffered = <<>>
PROOF
<1> DEFINE seq == Max2(t.lastSeq, m.seq)
           v == [t EXCEPT !.lastSeq = seq]
<1>1. seq \in Nat
  BY DEF DownMsg, TabOf, Max2
<1>2. AckedTab(t, m) = ConfirmOwn(v, m.id)
  BY DEF AckedTab
<1> HIDE DEF seq
<1>3. /\ v \in TabOf(O) /\ v.conn = t.conn /\ v.shown = t.shown /\ v.confirmed = t.confirmed
      /\ v.buffered = t.buffered
  BY <1>1 DEF TabOf
<1> HIDE DEF v
<1> QED BY <1>2, <1>3, ConfirmOwnType

LEMMA RejectedTabType ==
    ASSUME NEW O, O \subseteq Op, NEW t \in TabOf(O), NEW m \in DownMsg(O), m.t = "reject"
    PROVE  LET u == RejectedTab(t, m) IN
             /\ u \in TabOf(O) /\ u.conn = t.conn
             /\ t.shown # NoDeck => u.shown # NoDeck
             /\ u.confirmed = t.confirmed /\ u.buffered = t.buffered
PROOF
<1> DEFINE q == Without(t.pending, m.id)
           ids == IF Has(t.pending, m.id) THEN t.settled \cup {m.id} ELSE t.settled
           v == [t EXCEPT !.pending = q, !.settled = ids]
<1>1. q \in Seq(Entry(O)) /\ ids \in SUBSET Nat
  <2>1. q \in Seq(Entry(O))
    BY WithoutType DEF TabOf
  <2>2. m.id \in Nat
    BY DEF DownMsg, Ids, Op
  <2> HIDE DEF q
  <2> QED BY <2>1, <2>2 DEF TabOf
<1>2. RejectedTab(t, m) =
        IF Has(t.pending, m.id) /\ v.confirmed # NoDeck THEN [v EXCEPT !.shown = Local(v)] ELSE v
  BY DEF RejectedTab
<1> HIDE DEF q, ids
<1>3. /\ v \in TabOf(O) /\ v.conn = t.conn /\ v.shown = t.shown /\ v.confirmed = t.confirmed
      /\ v.buffered = t.buffered
  BY <1>1 DEF TabOf
<1> HIDE DEF v
<1>4. v.confirmed # NoDeck => Local(v) \in Deck /\ NoDeck \notin Deck
  BY <1>3, LocalType
<1> HIDE DEF TabOf
<1>5. CASE Has(t.pending, m.id) /\ v.confirmed # NoDeck
  <2>1. RejectedTab(t, m) = [v EXCEPT !.shown = Local(v)]
    BY <1>2, <1>5
  <2>2. Local(v) \in Deck /\ Local(v) # NoDeck
    BY <1>4, <1>5
  <2> QED BY <1>3, <2>1, <2>2 DEF TabOf
<1>6. CASE ~(Has(t.pending, m.id) /\ v.confirmed # NoDeck)
  BY <1>2, <1>3, <1>6
<1> QED BY <1>5, <1>6

LEMMA RemoteTabType ==
    ASSUME NEW O, O \subseteq Op, NEW t \in TabOf(O),
           t.confirmed # NoDeck => t.buffered = <<>> /\ t.shown # NoDeck,
           NEW m \in DownMsg(O), m.t = "stamped"
    PROVE  LET u == RemoteTab(t, m) IN
             /\ u \in TabOf(O) /\ u.conn = t.conn
             /\ t.shown # NoDeck => u.shown # NoDeck
             /\ u.confirmed = NoDeck <=> t.confirmed = NoDeck
             /\ u.confirmed # NoDeck => u.buffered = <<>>
PROOF
<1> DEFINE v == [t EXCEPT !.lastSeq = m.seq]
<1>1. m.seq \in Nat /\ m.op \in O /\ m.op \in Op /\ t.lastSeq \in Nat
  BY DEF DownMsg, TabOf
<1>2. /\ v \in TabOf(O) /\ v.conn = t.conn /\ v.shown = t.shown /\ v.confirmed = t.confirmed
      /\ v.buffered = t.buffered /\ v.pending = t.pending
  BY <1>1 DEF TabOf
<1>3. CASE m.seq <= t.lastSeq
  <2>1. RemoteTab(t, m) = t
    BY <1>1, <1>3 DEF RemoteTab
  <2> QED BY <2>1
<1>4. CASE m.seq > t.lastSeq /\ Has(v.pending, m.op.id)
  <2>1. RemoteTab(t, m) = ConfirmOwn(v, m.op.id)
    BY <1>1, <1>4 DEF RemoteTab
  <2> HIDE DEF v
  <2> QED BY <1>2, <2>1, ConfirmOwnType
<1>5. CASE m.seq > t.lastSeq /\ ~Has(v.pending, m.op.id)
  <2>1. RemoteTab(t, m) =
          IF v.confirmed = NoDeck THEN [v EXCEPT !.buffered = Append(@, m.op)]
          ELSE [v EXCEPT !.confirmed = Apply(@, <<m.op>>), !.shown = Apply(@, <<m.op>>)]
    BY <1>1, <1>5 DEF RemoteTab
  <2> HIDE DEF v
  <2>2. CASE v.confirmed = NoDeck
    <3> DEFINE q == Append(v.buffered, m.op)
    <3>1. q \in Seq(O)
      BY <1>1, <1>2, AppendProperties DEF TabOf
    <3>2. RemoteTab(t, m) = [v EXCEPT !.buffered = q]
      BY <2>1, <2>2 DEF TabOf
    <3> HIDE DEF q
    <3> QED BY <1>2, <2>2, <3>1, <3>2 DEF TabOf
  <2>3. CASE v.confirmed # NoDeck
    <3> DEFINE deck == Apply(v.confirmed, <<m.op>>)
               shown == Apply(v.shown, <<m.op>>)
    <3>1. deck \in Deck /\ shown \in Deck /\ NoDeck \notin Deck
      <4>1. v.confirmed \in Deck /\ v.shown \in Deck
        BY <1>2, <2>3 DEF TabOf
      <4> QED BY <1>1, <4>1, ApplyOne, ApplyType, SlidesAssumption DEF Deck
    <3>2. RemoteTab(t, m) = [v EXCEPT !.confirmed = deck, !.shown = shown]
      BY <2>1, <2>3 DEF TabOf
    <3> HIDE DEF deck, shown
    <3>3. deck # NoDeck /\ shown # NoDeck
      BY <3>1
    <3> QED BY <1>2, <2>3, <3>1, <3>2, <3>3 DEF TabOf
  <2> QED BY <2>2, <2>3
<1>6. m.seq <= t.lastSeq \/ m.seq > t.lastSeq
  BY <1>1
<1> QED BY <1>3, <1>4, <1>5, <1>6

-----------------------------------------------------------------------------
(* Messages received.                                                      *)

ReceiveTab(t, m) ==
    CASE m.t = "welcome" -> WelcomeTab(t, m) [] m.t = "synced" -> SyncedTab(t, m)
      [] m.t = "ack" -> AckedTab(t, m) [] m.t = "reject" -> RejectedTab(t, m)
      [] m.t = "stamped" -> RemoteTab(t, m)

LEMMA ReceiveQueues ==
    ASSUME NEW O, NetTyped(O), NEW c \in Clients, Receive(c)
    PROVE  /\ Incoming(c) \in DownMsg(O)
           /\ catchUp' \in [Clients -> Seq(DownMsg(O))] /\ out' \in [Clients -> Seq(DownMsg(O))]
           /\ \A d \in Clients : Len(out'[d]) <= PeerQueue
PROOF
<1>1. CASE catchUp[c] # <<>> /\ catchUp' = [catchUp EXCEPT ![c] = Tail(@)] /\ UNCHANGED out
  <2>1. Head(catchUp[c]) \in DownMsg(O) /\ catchUp' \in [Clients -> Seq(DownMsg(O))]
    BY <1>1, TakeTyped DEF NetTyped
  <2> QED BY <1>1, <2>1 DEF NetTyped, Incoming
<1>2. CASE /\ catchUp[c] = <<>> /\ out[c] # <<>> /\ out' = [out EXCEPT ![c] = Tail(@)]
           /\ UNCHANGED catchUp
  <2>1. Head(out[c]) \in DownMsg(O) /\ out' \in [Clients -> Seq(DownMsg(O))]
    BY <1>2, TakeTyped DEF NetTyped
  <2>2. Len(Tail(out[c])) = Len(out[c]) - 1 /\ Len(out[c]) \in Nat
    BY <1>2, HeadTailProperties, LenProperties DEF NetTyped
  <2>3. \A d \in Clients : Len(out'[d]) <= PeerQueue
    BY <1>2, <2>2, SlidesAssumption DEF NetTyped
  <2> QED BY <1>2, <2>1, <2>3 DEF NetTyped, Incoming
<1> QED BY <1>1, <1>2 DEF Receive

LEMMA ReceiveTyped ==
    ASSUME NEW O, TypeInv(O), NEW c \in Clients, Receive(c)
    PROVE  /\ TypeInv(O)'
           /\ LET m == Incoming(c) IN
                /\ m.t \in {"welcome", "synced", "ack", "reject", "stamped"}
                /\ m \in DownMsg(O)
                /\ tab' = [tab EXCEPT ![c] = ReceiveTab(tab[c], m)]
                /\ ReceiveTab(tab[c], m) \in TabOf(O) /\ ReceiveTab(tab[c], m).conn = tab[c].conn
PROOF
<1> DEFINE m == Incoming(c)
           t == tab[c]
<1>1. TabsTyped(O) /\ Sockets /\ NetTyped(O) /\ O \subseteq Op /\ Forgets(O)
  BY DEF TypeInv
<1>2. /\ m \in DownMsg(O)
      /\ catchUp' \in [Clients -> Seq(DownMsg(O))] /\ out' \in [Clients -> Seq(DownMsg(O))]
      /\ \A d \in Clients : Len(out'[d]) <= PeerQueue
  BY <1>1, ReceiveQueues
<1>3. t \in TabOf(O) /\ Loading(t, fetch[c]) /\ t.pending \in Seq(Entry(O))
  BY <1>1 DEF TabsTyped, Sockets, TabOf
<1>4. Welcome(c, m) \/ Synced(c, m) \/ Acked(c, m) \/ Rejected(c, m) \/ Remote(c, m)
  BY DEF Receive
<1>5. Becomes(c, ReceiveTab(t, m)) /\ m.t \in {"welcome", "synced", "ack", "reject", "stamped"}
  <2>1. CASE Welcome(c, m)
    <3>1. m.t = "welcome" /\ Becomes(c, WelcomeTab(t, m))
      BY <2>1 DEF Welcome, WelcomeTab
    <3> QED BY <3>1 DEF ReceiveTab
  <2>2. CASE Synced(c, m)
    <3>1. m.t = "synced" /\ Becomes(c, SyncedTab(t, m))
      BY <2>2 DEF Synced, SyncedTab
    <3> QED BY <3>1 DEF ReceiveTab
  <2>3. CASE Acked(c, m)
    <3>1. m.t = "ack" /\ Becomes(c, AckedTab(t, m))
      BY <2>3 DEF Acked, AckedTab
    <3> QED BY <3>1 DEF ReceiveTab
  <2>4. CASE Rejected(c, m)
    <3>1. m.t = "reject" /\ Becomes(c, RejectedTab(t, m))
      BY <2>4 DEF Rejected, RejectedTab
    <3> QED BY <3>1 DEF ReceiveTab
  <2>5. CASE Remote(c, m)
    <3>1. m.t = "stamped" /\ Becomes(c, RemoteTab(t, m))
      BY <2>5 DEF Remote, RemoteTab
    <3> QED BY <3>1 DEF ReceiveTab
  <2> QED BY <1>4, <2>1, <2>2, <2>3, <2>4, <2>5
<1>6. /\ tab' = [tab EXCEPT ![c] = ReceiveTab(t, m)]
      /\ UNCHANGED <<stored, room, counts>> /\ UNCHANGED <<peers, ghosts, late, cut>>
      /\ saving' = saving
  BY <1>5 DEF Becomes
<1>7. \/ up' = up
      \/ m.t = "synced" /\ up' = [up EXCEPT ![c] = @ \o Wires(SyncedTab(t, m).pending)]
  <2>1. CASE Synced(c, m)
    BY <1>3, <2>1 DEF Synced, SyncedTab, TabOf
  <2>2. Welcome(c, m) => up' = up
    BY DEF Welcome
  <2>3. Acked(c, m) \/ Rejected(c, m) => up' = up
    BY DEF Acked, Rejected
  <2>4. Remote(c, m) => up' = up
    BY DEF Remote
  <2> QED BY <1>4, <2>1, <2>2, <2>3, <2>4
<1>8. up' \in [Clients -> Seq(UpMsg(O))]
  <2>1. CASE m.t = "synced"
    <3>1. SyncedTab(t, m) \in TabOf(O)
      BY <1>1, <1>2, <1>3, <2>1, SyncedTabType
    <3>2. Wires(SyncedTab(t, m).pending) \in Seq(UpMsg(O))
      BY <3>1, OpsType DEF TabOf
    <3>3. up[c] \o Wires(SyncedTab(t, m).pending) \in Seq(UpMsg(O))
      BY <1>1, <3>2, ConcatProperties DEF NetTyped
    <3> QED BY <1>1, <1>7, <3>3 DEF NetTyped
  <2> QED BY <1>1, <1>7, <2>1 DEF NetTyped
<1>9. NetTyped(O)'
  BY <1>1, <1>2, <1>6, <1>8 DEF NetTyped
<1> DEFINE u == ReceiveTab(t, m)
           refetch == m.t = "welcome" /\ m.fresh /\ t.epoch # 0 /\ t.confirmed # NoDeck
<1>10. fetch' = IF refetch THEN [fetch EXCEPT ![c] = Asked] ELSE fetch
  BY <1>4 DEF Welcome, Synced, Acked, Rejected, Remote
<1>11. u \in TabOf(O) /\ u.conn = t.conn
  BY <1>1, <1>2, <1>3, <1>5, WelcomeTabType, SyncedTabType, AckedTabType, RejectedTabType,
     RemoteTabType DEF ReceiveTab, Loading
<1>12. Loading(u, IF refetch THEN Asked ELSE fetch[c])
  <2>1. CASE m.t = "welcome"
    <3>1. u = WelcomeTab(t, m)
      BY <2>1 DEF ReceiveTab
    <3> QED BY <1>1, <1>2, <1>3, <2>1, <3>1, WelcomeTabType DEF Loading
  <2>2. CASE m.t = "synced"
    <3>1. u = SyncedTab(t, m)
      BY <2>2 DEF ReceiveTab
    <3> QED BY <1>1, <1>2, <1>3, <2>2, <3>1, SyncedTabType DEF Loading
  <2>3. CASE m.t = "ack"
    <3>1. u = AckedTab(t, m)
      BY <2>3 DEF ReceiveTab
    <3> QED BY <1>1, <1>2, <1>3, <2>3, <3>1, AckedTabType DEF Loading
  <2>4. CASE m.t = "reject"
    <3>1. u = RejectedTab(t, m)
      BY <2>4 DEF ReceiveTab
    <3> QED BY <1>1, <1>2, <1>3, <2>4, <3>1, RejectedTabType DEF Loading
  <2>5. CASE m.t = "stamped"
    <3>1. u = RemoteTab(t, m)
      BY <2>5 DEF ReceiveTab
    <3> QED BY <1>1, <1>2, <1>3, <2>5, <3>1, RemoteTabType DEF Loading
  <2> QED BY <1>5, <2>1, <2>2, <2>3, <2>4, <2>5
<1>13. TabsTyped(O)' /\ Sockets'
  <2> DEFINE f == IF refetch THEN Asked ELSE fetch[c]
  <2>1. f \in [asked : BOOLEAN, deck : Deck \cup {NoDeck}] /\ fetch' = [fetch EXCEPT ![c] = f]
    BY <1>1, <1>10 DEF TabsTyped, Asked
  <2>2. c \in peers' <=> u.conn # "closed"
    BY <1>1, <1>6, <1>11 DEF Sockets
  <2> HIDE DEF f, u
  <2> QED BY <1>6, <1>11, <1>12, <2>1, <2>2, TabChanges DEF f, u
<1>14. TypeInv(O)'
  BY <1>6, <1>9, <1>13, RoomStays, SameType
<1> QED BY <1>2, <1>5, <1>6, <1>11, <1>14

-----------------------------------------------------------------------------
(* The types hold in every state.                                          *)

LEMMA InitTyped ==
    ASSUME Init
    PROVE  TypeInv({})
PROOF
<1>1. FirstDeck \in Deck
  BY DEF FirstDeck, Deck
<1>2. /\ \A S : <<>> \in Seq(S)
      /\ Len(<<>>) = 0 /\ 0 <= HardMax /\ 0 <= PeerQueue
  BY EmptySeq, SlidesAssumption
<1>3. RoomTyped({})
  BY <1>1, <1>2 DEF Init, RoomTyped
<1>4. NetTyped({})
  BY <1>2 DEF Init, NetTyped
<1>5. NewTab(0, {}) \in TabOf({}) /\ NewTab(0, {}).conn = "closed" /\ NewTab(0, {}).confirmed = NoDeck
  <2>1. <<>> \in Seq(Entry({})) /\ <<>> \in Seq({})
    BY <1>2
  <2> QED BY <2>1 DEF NewTab, TabOf
<1>6. /\ \A c \in Clients : tab[c] = NewTab(0, {}) /\ fetch[c] = Asked /\ saving[c] = NoSave
      /\ tab = [c \in Clients |-> NewTab(0, {})] /\ fetch = [c \in Clients |-> Asked]
      /\ saving = [c \in Clients |-> NoSave] /\ peers = {}
  BY DEF Init
<1>7. TabsTyped({})
  BY <1>5, <1>6 DEF TabsTyped, Asked, NoSave
<1>8. Sockets
  BY <1>5, <1>6 DEF Sockets, Loading
<1>9. Forgets({}) /\ Coherent({})
  BY DEF Forgets, Coherent
<1> QED BY <1>3, <1>4, <1>7, <1>8, <1>9 DEF TypeInv

(* The one step that makes an operation is an edit.                        *)
LEMMA StepTyped ==
    ASSUME NEW O, TypeInv(O), NEW c \in Clients, Disturb(c) \/ Proceed(c)
    PROVE  \/ TypeInv(O)'
           \/ \E cells \in Keys : Edit(c, cells) /\ \A P : P = WithEdit(O, c, cells) => TypeInv(P)'
PROOF
<1>1. CASE \E cells \in Keys : Edit(c, cells)
  BY <1>1, EditTyped
<1>2. CASE SaveStart(c) \/ Restore(c) \/ Close(c)
  BY <1>2, SaveStartTyped, RestoreTyped, CloseTyped
<1>3. CASE Dial(c) \/ Join(c) \/ Read(c) \/ ReadLate(c) \/ Remove(c)
  BY <1>3, DialTyped, JoinTyped, ReadTyped, ReadLateTyped, RemoveTyped
<1>4. CASE \/ GetDeck(c) \/ Loaded(c) \/ SaveDone(c) \/ Receive(c) \/ ReceiveRestored(c)
  BY <1>4, GetDeckTyped, LoadedTyped, SaveDoneTyped, ReceiveTyped, ReceiveRestoredTyped
<1> QED BY <1>1, <1>2, <1>3, <1>4 DEF Disturb, Proceed

LEMMA StutterTyped ==
    ASSUME NEW O, TypeInv(O), UNCHANGED vars
    PROVE  TypeInv(O)'
PROOF
<1>1. /\ UNCHANGED <<stored, room, counts>> /\ UNCHANGED net /\ UNCHANGED <<tab, fetch, saving>>
  BY DEF vars
<1>2. UNCHANGED <<tab, fetch, saving, peers>>
  BY <1>1 DEF net
<1>3. NetTyped(O)'
  BY <1>1 DEF TypeInv, NetTyped, net
<1> QED BY <1>1, <1>2, <1>3, RoomStays, TabsStay, SameType

Typed == \E O \in SUBSET Op : TypeInv(O)

LEMMA TypedImplies ==
    ASSUME Typed
    PROVE  TypeOK
PROOF
<1>1. PICK O \in SUBSET Op : TypeInv(O)
  BY DEF Typed
<1>2. RoomTyped(O) /\ NetTyped(O) /\ TabsTyped(O)
  BY <1>1 DEF TypeInv
<1>3. Seq(O) \subseteq Seq(Op) /\ Seq(Entry(O)) \subseteq Seq([op : Op, base : Nat])
  <2>1. Entry(O) \subseteq [op : Op, base : Nat]
    BY DEF Entry
  <2> QED BY <2>1, SeqMonotonic
<1>4. TabOf(O) \subseteq Tab
  BY <1>3 DEF TabOf, Tab
<1>5. tab \in [Clients -> Tab]
  BY <1>2, <1>4 DEF TabsTyped
<1>6. log \in Seq(Op)
  BY <1>2, <1>3 DEF RoomTyped
<1> QED BY <1>2, <1>5, <1>6 DEF TypeOK, RoomTyped, NetTyped, TabsTyped

(* The variables of hub and tabs keep their types through every            *)
(* interleaving; above all the log never has more than HardMax entries     *)
(* after a trim (collab.go trim) and no queue more than PeerQueue messages *)
(* (enqueue), whatever the limits are.                                     *)
THEOREM SlidesTypeCorrect == Spec => []TypeOK
PROOF
<1>1. Init => Typed
  BY InitTyped DEF Typed
<1>2. Typed /\ [Next]_vars => Typed'
  <2> SUFFICES ASSUME Typed, [Next]_vars
               PROVE  \E O \in SUBSET Op : TypeInv(O)'
    BY DEF Typed
  <2>1. PICK O \in SUBSET Op : TypeInv(O)
    BY DEF Typed
  <2>2. CASE UNCHANGED vars
    BY <2>1, <2>2, StutterTyped
  <2>3. CASE Next
    <3>1. PICK c \in Clients : Disturb(c) \/ Proceed(c)
      BY <2>3 DEF Next
    <3>2. CASE TypeInv(O)'
      BY <3>2
    <3>3. CASE \E cells \in Keys :
                  Edit(c, cells) /\ \A P : P = WithEdit(O, c, cells) => TypeInv(P)'
      <4>1. PICK cells \in Keys : \A P : P = WithEdit(O, c, cells) => TypeInv(P)'
        BY <3>3
      <4>2. PICK P : P = WithEdit(O, c, cells)
        OBVIOUS
      <4>3. TypeInv(P)'
        BY <4>1, <4>2
      <4>4. P \in SUBSET Op
        BY <4>3 DEF TypeInv
      <4> QED BY <4>3, <4>4
    <3> QED BY <2>1, <3>1, <3>2, <3>3, StepTyped
  <2> QED BY <2>2, <2>3
<1>3. Typed => TypeOK
  BY TypedImplies
<1> QED BY <1>1, <1>2, <1>3, PTL DEF Spec
=============================================================================
