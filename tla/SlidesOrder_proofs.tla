------------------------- MODULE SlidesOrder_proofs -------------------------
(***************************************************************************)
(* InOrder is an invariant of SlidesCollab, and with it InStep and         *)
(* NoBlindOverwrite, for any clients, cells, limits and capacities.  First *)
(* what each change of the room's order, of the messages on their way to a *)
(* tab and of the tab preserves, then the actions.                         *)
(***************************************************************************)
EXTENDS SlidesCollab_proofs

-----------------------------------------------------------------------------
(* Messages on their way.                                                  *)

LEMMA MsgKinds ==
    ASSUME NEW O, NEW m \in DownMsg(O)
    PROVE  /\ m.t \in {"welcome", "stamped", "synced", "ack", "reject", "restored"}
           /\ SeqOf(m) \in Nat
           /\ m.t = "welcome" => m.fresh \in BOOLEAN /\ m.epoch \in Nat
           /\ m.t = "stamped" => m.op \in O /\ m.seq \in Nat
           /\ m.t \in {"ack", "synced"} => m.seq \in Nat
           /\ m.t \in {"ack", "reject"} => m.id \in Ids(O)
           /\ Placing(m) => m.seq \in Nat /\ SeqOf(m) = m.seq
PROOF
<1>1. CASE m \in [t : {"welcome"}, epoch : Nat, fresh : BOOLEAN]
  BY <1>1 DEF SeqOf, Placing
<1>2. CASE m \in [t : {"stamped"}, op : O, seq : Nat]
  BY <1>2 DEF SeqOf, Placing
<1>3. CASE m \in [t : {"synced"}, seq : Nat]
  BY <1>3 DEF SeqOf, Placing
<1>4. CASE m \in [t : {"ack"}, id : Ids(O), seq : Nat]
  BY <1>4 DEF SeqOf, Placing
<1>5. CASE m \in [t : {"reject"}, id : Ids(O)]
  BY <1>5 DEF SeqOf, Placing
<1>6. CASE m \in [t : {"restored"}]
  BY <1>6 DEF SeqOf, Placing
<1> QED BY <1>1, <1>2, <1>3, <1>4, <1>5, <1>6 DEF DownMsg

LEMMA MsgsType ==
    ASSUME NEW O, NEW f \in Seq(DownMsg(O))
    PROVE  /\ DOMAIN f = 1..Len(f) /\ Len(f) \in Nat
           /\ \A k \in DOMAIN f : f[k] \in DownMsg(O) /\ SeqOf(f[k]) \in Nat
PROOF
<1>1. DOMAIN f = 1..Len(f) /\ Len(f) \in Nat /\ \A k \in DOMAIN f : f[k] \in DownMsg(O)
  BY LenProperties, ElementOfSeq
<1> QED BY <1>1, MsgKinds

(* One message more at the end changes nothing for those before it.        *)
LEMMA NewsAppend ==
    ASSUME NEW O, NEW f \in Seq(DownMsg(O)), NEW m \in DownMsg(O), NEW n \in Nat, NEW t,
           m.t # "welcome"
    PROVE  LET g == Append(f, m) IN
             /\ g \in Seq(DownMsg(O)) /\ Len(g) = Len(f) + 1 /\ DOMAIN g = 1..(Len(f) + 1)
             /\ g[Len(f) + 1] = m /\ \A k \in DOMAIN f : k \in DOMAIN g /\ g[k] = f[k]
             /\ \A k \in DOMAIN g : k \in DOMAIN f \/ k = Len(f) + 1
             /\ Start(t, g) = Start(t, f)
             /\ Greeted(g) <=> Greeted(f)
             /\ \A k \in DOMAIN f : News(n, g, k) <=> News(n, f, k)
             /\ \A k \in DOMAIN f : \A id : Settles(n, g, k, id) <=> Settles(n, f, k, id)
PROOF
<1> DEFINE g == Append(f, m)
<1>1. /\ g \in Seq(DownMsg(O)) /\ Len(g) = Len(f) + 1 /\ g # <<>>
      /\ \A k \in 1..Len(f) : g[k] = f[k]
      /\ g[Len(f) + 1] = m
  BY AppendProperties
<1>2. /\ DOMAIN f = 1..Len(f) /\ Len(f) \in Nat /\ DOMAIN g = 1..(Len(f) + 1)
      /\ f = <<>> <=> Len(f) = 0
  BY <1>1, LenProperties, EmptySeq
<1> HIDE DEF g
<1>3. /\ \A k \in DOMAIN f : k \in DOMAIN g /\ g[k] = f[k]
      /\ \A k \in DOMAIN g : k \in DOMAIN f \/ k = Len(f) + 1
  BY <1>1, <1>2
<1>4. Greeted(g) <=> Greeted(f)
  BY <1>1, <1>2 DEF Greeted
<1>5. Start(t, g) = Start(t, f)
  <2>1. CASE Greeted(f)
    <3>1. g[1] = f[1]
      BY <1>1, <1>2, <2>1 DEF Greeted
    <3> QED BY <1>4, <3>1 DEF Start
  <2>2. CASE ~Greeted(f)
    BY <1>4, <2>2 DEF Start
  <2> QED BY <2>1, <2>2
<1>6. ASSUME NEW k \in DOMAIN f
      PROVE  News(n, g, k) <=> News(n, f, k)
  <2>1. g[k] = f[k] /\ \A j \in 1..(k - 1) : g[j] = f[j]
    BY <1>1, <1>2
  <2> QED BY <2>1 DEF News
<1>7. ASSUME NEW k \in DOMAIN f, NEW id
      PROVE  Settles(n, g, k, id) <=> Settles(n, f, k, id)
  BY <1>3, <1>6 DEF Settles
<1> QED BY <1>1, <1>2, <1>3, <1>4, <1>5, <1>6, <1>7 DEF g

(* When the first message has been read, a tab is where it was or where    *)
(* that message took it; the rest is news just as it was before.           *)
LEMMA NewsTail ==
    ASSUME NEW O, NEW f \in Seq(DownMsg(O)), f # <<>>, NEW n \in Nat
    PROVE  LET g == Tail(f)
               n2 == Max2(n, SeqOf(f[1]))
           IN  /\ g \in Seq(DownMsg(O)) /\ DOMAIN g = 1..(Len(f) - 1)
               /\ f[1] \in DownMsg(O) /\ 1 \in DOMAIN f /\ n2 \in Nat /\ Head(f) = f[1]
               /\ \A k \in DOMAIN g : k + 1 \in DOMAIN f /\ g[k] = f[k + 1]
               /\ \A k \in DOMAIN f : k # 1 => k - 1 \in DOMAIN g /\ g[k - 1] = f[k]
               /\ \A k \in DOMAIN g : News(n2, g, k) <=> News(n, f, k + 1)
               /\ \A k \in DOMAIN g : \A id : Settles(n2, g, k, id) <=> Settles(n, f, k + 1, id)
PROOF
<1> DEFINE g == Tail(f)
           n2 == Max2(n, SeqOf(f[1]))
<1>1. /\ g \in Seq(DownMsg(O)) /\ Len(g) = Len(f) - 1 /\ \A i \in 1..Len(g) : g[i] = f[i + 1]
  BY HeadTailProperties
<1>2. /\ DOMAIN f = 1..Len(f) /\ Len(f) \in Nat /\ Len(f) # 0
      /\ \A k \in DOMAIN f : f[k] \in DownMsg(O) /\ SeqOf(f[k]) \in Nat
  BY MsgsType, EmptySeq
<1>3. DOMAIN g = 1..(Len(f) - 1)
  BY <1>1, LenProperties
<1>4. 1 \in DOMAIN f /\ n2 \in Nat /\ n <= n2 /\ SeqOf(f[1]) <= n2 /\ n2 \in {n, SeqOf(f[1])}
  BY <1>2 DEF Max2
<1>5. Head(f) = f[1]
  OBVIOUS
<1> HIDE DEF g, n2
<1>6. \A k \in DOMAIN g : k + 1 \in DOMAIN f /\ g[k] = f[k + 1]
  BY <1>1, <1>2, <1>3
<1>7. \A k \in DOMAIN f : k # 1 => k - 1 \in DOMAIN g /\ g[k - 1] = f[k]
  <2> SUFFICES ASSUME NEW k \in DOMAIN f, k # 1
               PROVE  k - 1 \in DOMAIN g /\ g[k - 1] = f[k]
    OBVIOUS
  <2>1. k - 1 \in 1..Len(g) /\ k - 1 + 1 = k
    BY <1>1, <1>2
  <2> QED BY <1>1, <1>3, <2>1
<1>8. ASSUME NEW k \in DOMAIN g
      PROVE  News(n2, g, k) <=> News(n, f, k + 1)
  <2>1. k \in Nat /\ k + 1 \in DOMAIN f /\ g[k] = f[k + 1] /\ k + 1 - 1 = k /\ 1 \in 1..k
    BY <1>2, <1>3, <1>6
  <2>2. ASSUME News(n2, g, k)
        PROVE  News(n, f, k + 1)
    <3>1. n2 < SeqOf(f[k + 1])
      BY <2>1, <2>2 DEF News
    <3>2. n < SeqOf(f[k + 1])
      BY <1>2, <1>4, <2>1, <3>1
    <3>3. ASSUME NEW j \in 1..k
          PROVE  SeqOf(f[j]) < SeqOf(f[k + 1])
      <4>1. CASE j = 1
        BY <1>2, <1>4, <2>1, <3>1, <4>1
      <4>2. CASE j # 1
        <5>1. j - 1 \in 1..(k - 1) /\ j \in DOMAIN f
          BY <1>2, <2>1, <4>2
        <5>2. g[j - 1] = f[j]
          BY <1>7, <4>2, <5>1
        <5> QED BY <2>1, <2>2, <5>1, <5>2 DEF News
      <4> QED BY <4>1, <4>2
    <3> QED BY <2>1, <3>2, <3>3 DEF News
  <2>3. ASSUME News(n, f, k + 1)
        PROVE  News(n2, g, k)
    <3>1. n < SeqOf(f[k + 1]) /\ SeqOf(f[1]) < SeqOf(f[k + 1])
      BY <2>1, <2>3 DEF News
    <3>2. n2 < SeqOf(g[k])
      BY <1>4, <2>1, <3>1
    <3>3. ASSUME NEW j \in 1..(k - 1)
          PROVE  SeqOf(g[j]) < SeqOf(g[k])
      <4>1. j \in DOMAIN g /\ j + 1 \in 1..(k + 1 - 1)
        BY <1>3, <2>1
      <4>2. g[j] = f[j + 1]
        BY <1>6, <4>1
      <4> QED BY <2>1, <2>3, <4>1, <4>2 DEF News
    <3> QED BY <3>2, <3>3 DEF News
  <2> QED BY <2>2, <2>3
<1>9. ASSUME NEW k \in DOMAIN g, NEW id
      PROVE  Settles(n2, g, k, id) <=> Settles(n, f, k + 1, id)
  BY <1>6, <1>8 DEF Settles
<1> QED BY <1>1, <1>2, <1>3, <1>4, <1>5, <1>6, <1>7, <1>8, <1>9 DEF g, n2

-----------------------------------------------------------------------------
(* The room's order grows at its end and is trimmed at its front.          *)

LEMMA GrowsEntries ==
    ASSUME NEW O, NEW R, IsOrder(O, R), NEW Q, IsOrder(O, Q), Grows(R, Q)
    PROVE  /\ \A s \in Logged(Q) : s \in Nat /\ R.lo < s /\ Q.lo < s /\ s <= Q.hi
           /\ \A s \in Logged(Q) : s <= R.hi => s \in Logged(R) /\ Q.at[s] = R.at[s]
           /\ \A s \in Logged(R) : s \in Nat /\ s <= R.hi /\ R.lo < s
           /\ \A s \in Logged(R) : Q.lo < s => s \in Logged(Q) /\ Q.at[s] = R.at[s]
           /\ R.lo \in Nat /\ R.hi \in Nat /\ Q.lo \in Nat /\ Q.hi \in Nat
           /\ R.lo <= Q.lo /\ R.hi <= Q.hi
BY DEF IsOrder, Grows, Logged

LEMMA GrowsItself ==
    ASSUME NEW O, NEW R, IsOrder(O, R)
    PROVE  Grows(R, R)
BY DEF IsOrder, Grows

LEMMA LastWriteGrows ==
    ASSUME NEW O, NEW R, IsOrder(O, R), NEW Q, IsOrder(O, Q), Grows(R, Q),
           NEW s, NEW n \in Nat, n <= R.hi, NEW x, LastWrite(Q, s, n, x)
    PROVE  LastWrite(R, s, n, x) /\ s \in Logged(R) /\ Q.at[s] = R.at[s]
PROOF
<1>1. s \in Logged(Q) /\ s <= n /\ x \in Q.at[s].cells
  BY DEF LastWrite
<1>2. s \in Nat /\ R.hi \in Nat /\ s <= R.hi
  BY <1>1, GrowsEntries
<1>3. s \in Logged(R) /\ Q.at[s] = R.at[s] /\ Q.lo < s
  BY <1>1, <1>2, GrowsEntries
<1>4. ASSUME NEW r \in Logged(R), r <= n, x \in R.at[r].cells
      PROVE  r <= s
  <2>1. r \in Nat /\ Q.lo \in Nat /\ r <= R.hi
    BY GrowsEntries
  <2>2. CASE Q.lo < r
    <3>1. r \in Logged(Q) /\ Q.at[r] = R.at[r]
      BY <2>2, GrowsEntries
    <3> QED BY <1>4, <3>1 DEF LastWrite
  <2>3. CASE ~(Q.lo < r)
    BY <1>2, <1>3, <2>1, <2>3
  <2> QED BY <2>2, <2>3
<1> QED BY <1>1, <1>3, <1>4 DEF LastWrite

LEMMA SawOkGrows ==
    ASSUME NEW O, NEW R, IsOrder(O, R), NEW Q, IsOrder(O, Q), Grows(R, Q),
           NEW o, NEW b \in Nat, SawOk(R, o, b)
    PROVE  SawOk(Q, o, b)
PROOF
<1> SUFFICES ASSUME o.saw # NoDeck
             PROVE  /\ b <= Q.hi
                    /\ \A x \in o.cells, s \in Logged(Q) :
                          LastWrite(Q, s, b, x) => o.saw[x] = Q.at[s].id
  BY DEF SawOk
<1>1. b <= R.hi /\ R.hi <= Q.hi /\ R.hi \in Nat /\ Q.hi \in Nat
  BY GrowsEntries DEF SawOk
<1>2. ASSUME NEW x \in o.cells, NEW s \in Logged(Q), LastWrite(Q, s, b, x)
      PROVE  o.saw[x] = Q.at[s].id
  <2>1. LastWrite(R, s, b, x) /\ s \in Logged(R) /\ Q.at[s] = R.at[s]
    BY <1>1, <1>2, LastWriteGrows
  <2> QED BY <2>1 DEF SawOk
<1> QED BY <1>1, <1>2

LEMMA SawAllGrows ==
    ASSUME NEW O, NEW R, IsOrder(O, R), NEW Q, IsOrder(O, Q), Grows(R, Q),
           NEW u \in Seq(UpMsg(O)), SawAll(R, u)
    PROVE  SawAll(Q, u)
PROOF
<1> SUFFICES ASSUME NEW i \in DOMAIN u, u[i].t = "op"
             PROVE  SawOk(Q, u[i].op, u[i].base)
  BY DEF SawAll
<1>1. u[i] \in UpMsg(O)
  BY LenProperties, ElementOfSeq
<1>2. u[i].base \in Nat
  BY <1>1 DEF UpMsg
<1>3. SawOk(R, u[i].op, u[i].base)
  BY DEF SawAll
<1> QED BY <1>2, <1>3, SawOkGrows

LEMMA TabEntries ==
    ASSUME NEW O, NEW t \in TabOf(O)
    PROVE  /\ DOMAIN t.pending = 1..Len(t.pending) /\ Len(t.pending) \in Nat
           /\ \A i \in DOMAIN t.pending :
                 /\ t.pending[i] \in Entry(O) /\ t.pending[i].op \in O
                 /\ t.pending[i].base \in Nat
           /\ t.lastSeq \in Nat /\ t.epoch \in Nat
PROOF
<1>1. t.pending \in Seq(Entry(O)) /\ t.lastSeq \in Nat /\ t.epoch \in Nat
  BY DEF TabOf
<1>2. DOMAIN t.pending = 1..Len(t.pending) /\ Len(t.pending) \in Nat
      /\ \A i \in DOMAIN t.pending : t.pending[i] \in Entry(O)
  BY <1>1, LenProperties, ElementOfSeq
<1> QED BY <1>1, <1>2 DEF Entry

(* What a tab and its messages know of the order stays true as it grows.   *)
LEMMA TabGrows ==
    ASSUME NEW O, NEW R, IsOrder(O, R), NEW Q, IsOrder(O, Q), Grows(R, Q),
           NEW t \in TabOf(O), NEW e, Based(R, e, t)
    PROVE  /\ Based(Q, e, t)
           /\ Ahead(R, e, t) => Ahead(Q, e, t)
           /\ Held(R, e, t) => Held(Q, e, t)
           /\ Seen(R, e, t) => Seen(Q, e, t)
PROOF
<1>1. t.lastSeq \in Nat /\ R.hi \in Nat /\ Q.hi \in Nat /\ R.hi <= Q.hi
  BY TabEntries, GrowsEntries
<1>2. Based(Q, e, t)
  BY <1>1 DEF Based
<1>3. ASSUME Ahead(R, e, t)
      PROVE  Ahead(Q, e, t)
  <2> SUFFICES ASSUME t.epoch = e, ~t.stray, NEW s \in Logged(Q), Has(t.pending, Q.at[s].id)
               PROVE  t.lastSeq < s
    BY DEF Ahead
  <2>1. s \in Nat /\ t.lastSeq <= R.hi
    BY GrowsEntries DEF Based
  <2>2. CASE s <= R.hi
    <3>1. s \in Logged(R) /\ Q.at[s] = R.at[s]
      BY <2>2, GrowsEntries
    <3> QED BY <1>3, <3>1 DEF Ahead
  <2> QED BY <1>1, <2>1, <2>2
<1>4. ASSUME Held(R, e, t)
      PROVE  Held(Q, e, t)
  <2> SUFFICES ASSUME t.epoch = e, ~t.stray, NEW x \in Cells, NEW s \in Logged(Q),
                      LastWrite(Q, s, t.lastSeq, x)
               PROVE  View(t)[x] = Q.at[s].id
    BY DEF Held
  <2>1. t.lastSeq <= R.hi
    BY DEF Based
  <2>2. LastWrite(R, s, t.lastSeq, x) /\ s \in Logged(R) /\ Q.at[s] = R.at[s]
    BY <1>1, <2>1, LastWriteGrows
  <2> QED BY <1>4, <2>2 DEF Held
<1>5. ASSUME Seen(R, e, t)
      PROVE  Seen(Q, e, t)
  <2> SUFFICES ASSUME t.epoch = e, ~t.fresh, NEW i \in DOMAIN t.pending
               PROVE  SawOk(Q, t.pending[i].op, t.pending[i].base)
    BY DEF Seen
  <2>1. t.pending[i].base \in Nat
    BY TabEntries
  <2>2. SawOk(R, t.pending[i].op, t.pending[i].base)
    BY <1>5 DEF Seen
  <2> QED BY <2>1, <2>2, SawOkGrows
<1> QED BY <1>2, <1>3, <1>4, <1>5

LEMMA PlacedGrows ==
    ASSUME NEW O, NEW R, IsOrder(O, R), NEW Q, IsOrder(O, Q), Grows(R, Q),
           NEW f \in Seq(DownMsg(O)), Placed(R, f)
    PROVE  Placed(Q, f)
PROOF
<1> SUFFICES ASSUME NEW k \in DOMAIN f
             PROVE  /\ SeqOf(f[k]) <= Q.hi
                    /\ Placing(f[k]) /\ Q.lo < f[k].seq => Q.at[f[k].seq].id = IdOf(f[k])
  BY DEF Placed
<1>1. f[k] \in DownMsg(O) /\ SeqOf(f[k]) \in Nat
  BY MsgsType
<1>2. SeqOf(f[k]) <= R.hi /\ R.hi \in Nat /\ Q.hi \in Nat /\ R.hi <= Q.hi
  BY GrowsEntries DEF Placed
<1>3. ASSUME Placing(f[k]), Q.lo < f[k].seq
      PROVE  Q.at[f[k].seq].id = IdOf(f[k])
  <2>1. f[k].seq = SeqOf(f[k]) /\ f[k].seq \in Nat
    BY <1>1, <1>3, MsgKinds
  <2>2. f[k].seq \in Logged(Q)
    BY <1>2, <1>3, <2>1, GrowsEntries DEF Logged
  <2>3. Q.at[f[k].seq] = R.at[f[k].seq] /\ R.lo < f[k].seq
    BY <1>2, <2>1, <2>2, GrowsEntries
  <2> QED BY <1>3, <2>3 DEF Placed
<1> QED BY <1>1, <1>2, <1>3

LEMMA UnansweredGrows ==
    ASSUME NEW O, NEW R, IsOrder(O, R), NEW Q, IsOrder(O, Q), Grows(R, Q),
           NEW t, NEW f, NEW m, m.base \in Nat, Unanswered(R, t, f, m)
    PROVE  Unanswered(Q, t, f, m)
PROOF
<1>1. m.base <= Q.hi
  BY GrowsEntries DEF Unanswered
<1>2. CASE m.base < R.lo
  <2>1. m.base < Q.lo
    BY <1>2, GrowsEntries
  <2> QED BY <1>1, <2>1 DEF Unanswered
<1>3. CASE \E s \in Logged(R) : m.base < s /\ R.at[s].id = m.op.id
  <2>1. PICK s \in Logged(R) : m.base < s /\ R.at[s].id = m.op.id
    BY <1>3
  <2>2. CASE Q.lo < s
    <3>1. s \in Logged(Q) /\ Q.at[s] = R.at[s]
      BY <2>2, GrowsEntries
    <3> QED BY <1>1, <2>1, <3>1 DEF Unanswered
  <2>3. CASE ~(Q.lo < s)
    <3>1. m.base < Q.lo
      BY <2>1, <2>3, GrowsEntries
    <3> QED BY <1>1, <3>1 DEF Unanswered
  <2> QED BY <2>2, <2>3
<1>4. CASE Has(t.pending, m.op.id) /\ \A k \in DOMAIN f : ~Settles(Start(t, f), f, k, m.op.id)
  BY <1>1, <1>4 DEF Unanswered
<1> QED BY <1>2, <1>3, <1>4 DEF Unanswered

LEMMA SentGrows ==
    ASSUME NEW O, NEW R, IsOrder(O, R), NEW Q, IsOrder(O, Q), Grows(R, Q),
           NEW t, NEW f, NEW u \in Seq(UpMsg(O)), Sent(R, t, f, u)
    PROVE  Sent(Q, t, f, u)
PROOF
<1> SUFFICES ASSUME ~t.stray, NEW i \in DOMAIN u, u[i].t = "op"
             PROVE  Unanswered(Q, t, f, u[i])
  BY DEF Sent
<1>1. u[i] \in UpMsg(O)
  BY LenProperties, ElementOfSeq
<1>2. u[i].base \in Nat
  BY <1>1 DEF UpMsg
<1>3. Unanswered(R, t, f, u[i])
  BY DEF Sent
<1> QED BY <1>2, <1>3, UnansweredGrows

(* When no entry is added, those that are left are on their way as before. *)
LEMMA CoveredTrimmed ==
    ASSUME NEW O, NEW R, IsOrder(O, R), NEW Q, IsOrder(O, Q), Grows(R, Q),
           \A s \in Logged(Q) : s <= R.hi, NEW t, NEW f, NEW kicked, Covered(R, kicked, t, f)
    PROVE  Covered(Q, kicked, t, f)
PROOF
<1>1. \A s \in Logged(Q) : s \in Logged(R)
  BY GrowsEntries
<1> QED BY <1>1 DEF Covered

-----------------------------------------------------------------------------
(* A message is put into a peer's queue.                                   *)

LEMMA StartType ==
    ASSUME NEW O, NEW t \in TabOf(O), NEW f
    PROVE  Start(t, f) \in Nat /\ Start(t, f) <= t.lastSeq
BY DEF Start, TabOf

LEMMA FlowAppend ==
    ASSUME NEW O, NEW f \in Seq(DownMsg(O)), NEW m \in DownMsg(O), NEW t \in TabOf(O), NEW e, NEW u,
           Flow(e, t, f, u), t.conn # "closed",
           m.t \in {"stamped", "restored"} \/ (m.t \in {"ack", "reject"} /\ t.synced)
    PROVE  Flow(e, t, Append(f, m), u)
PROOF
<1> DEFINE g == Append(f, m)
<1>1. /\ g[Len(f) + 1] = m /\ \A k \in DOMAIN f : k \in DOMAIN g /\ g[k] = f[k]
      /\ \A k \in DOMAIN g : k \in DOMAIN f \/ k = Len(f) + 1
      /\ Greeted(g) <=> Greeted(f)
  <2>1. m.t # "welcome" /\ 0 \in Nat
    OBVIOUS
  <2> QED BY <2>1, NewsAppend
<1> HIDE DEF g
<1>2. \A k \in DOMAIN g : g[k].t \in {"welcome", "synced"} => k \in DOMAIN f /\ g[k] = f[k]
  BY <1>1
<1>3. \A k \in DOMAIN g : g[k].t \in {"ack", "reject"} => t.synced
  BY <1>1 DEF Flow
<1>4. Flow(e, t, g, u)
  BY <1>1, <1>2, <1>3 DEF Flow
<1> QED BY <1>4 DEF g

LEMMA PlacedAppend ==
    ASSUME NEW O, NEW R, IsOrder(O, R), NEW f \in Seq(DownMsg(O)), NEW m \in DownMsg(O),
           m.t # "welcome", Placed(R, f), SeqOf(m) <= R.hi,
           Placing(m) /\ R.lo < m.seq => R.at[m.seq].id = IdOf(m)
    PROVE  Placed(R, Append(f, m))
PROOF
<1> DEFINE g == Append(f, m)
<1>1. /\ g[Len(f) + 1] = m /\ \A k \in DOMAIN f : k \in DOMAIN g /\ g[k] = f[k]
      /\ \A k \in DOMAIN g : k \in DOMAIN f \/ k = Len(f) + 1
  BY 0 \in Nat, NewsAppend
<1> HIDE DEF g
<1>2. Placed(R, g)
  BY <1>1 DEF Placed
<1> QED BY <1>2 DEF g

LEMMA CoveredAppend ==
    ASSUME NEW R, NEW O, NEW f \in Seq(DownMsg(O)), NEW m \in DownMsg(O), NEW t \in TabOf(O),
           m.t # "welcome", Covered(R, "served", t, f)
    PROVE  Covered(R, "served", t, Append(f, m))
PROOF
<1> DEFINE g == Append(f, m)
           n == Start(t, f)
<1>1. n \in Nat
  BY StartType
<1>2. /\ \A k \in DOMAIN f : k \in DOMAIN g /\ g[k] = f[k] /\ (News(n, g, k) <=> News(n, f, k))
      /\ Start(t, g) = n
  BY <1>1, NewsAppend
<1> HIDE DEF g, n
<1>3. Covered(R, "served", t, g)
  BY <1>2 DEF Covered, n
<1> QED BY <1>3 DEF g

(* The next entry is added to the order and its message to the queue.      *)
LEMMA CoveredStamp ==
    ASSUME NEW O, NEW R, IsOrder(O, R), NEW Q, IsOrder(O, Q), Grows(R, Q), Q.hi = R.hi + 1,
           NEW f \in Seq(DownMsg(O)), NEW m \in DownMsg(O), NEW t \in TabOf(O),
           Covered(R, "served", t, f), Placed(R, f), Start(t, f) <= R.hi,
           Placing(m), m.seq = R.hi + 1
    PROVE  Covered(Q, "served", t, Append(f, m))
PROOF
<1> DEFINE g == Append(f, m)
           n == Start(t, f)
<1>1. n \in Nat /\ n <= R.hi /\ R.hi \in Nat
  BY StartType, GrowsEntries
<1>2. m.t # "welcome" /\ SeqOf(m) = R.hi + 1
  BY MsgKinds DEF Placing
<1>3. /\ \A k \in DOMAIN f : k \in DOMAIN g /\ g[k] = f[k] /\ (News(n, g, k) <=> News(n, f, k))
      /\ Start(t, g) = n /\ g[Len(f) + 1] = m /\ DOMAIN g = 1..(Len(f) + 1)
  BY <1>1, <1>2, NewsAppend
<1>4. DOMAIN f = 1..Len(f) /\ Len(f) \in Nat
  BY MsgsType
<1> HIDE DEF g, n
<1> SUFFICES ASSUME t.conn = "open", NEW s \in Logged(Q), n < s
             PROVE  \E k \in DOMAIN g : News(n, g, k) /\ Placing(g[k]) /\ g[k].seq = s
  BY <1>3 DEF Covered, g
<1>5. CASE s <= R.hi
  <2>1. s \in Logged(R)
    BY <1>5, GrowsEntries
  <2>2. PICK k \in DOMAIN f : News(n, f, k) /\ Placing(f[k]) /\ f[k].seq = s
    BY <2>1 DEF Covered, n
  <2> QED BY <1>3, <2>2
<1>6. CASE ~(s <= R.hi)
  <2>1. s = R.hi + 1
    BY <1>1, <1>6, GrowsEntries
  <2> DEFINE k == Len(f) + 1
  <2>2. k \in DOMAIN g /\ g[k] = m /\ k - 1 = Len(f)
    BY <1>3, <1>4
  <2>3. ASSUME NEW j \in 1..(k - 1)
        PROVE  SeqOf(g[j]) < SeqOf(m)
    <3>1. j \in DOMAIN f /\ g[j] = f[j]
      BY <1>3, <1>4, <2>2
    <3>2. SeqOf(f[j]) <= R.hi /\ SeqOf(f[j]) \in Nat
      BY <3>1, MsgsType DEF Placed
    <3> QED BY <1>1, <1>2, <3>1, <3>2
  <2>4. News(n, g, k)
    BY <1>1, <1>2, <2>2, <2>3 DEF News
  <2> QED BY <2>1, <2>2, <2>4
<1> QED BY <1>5, <1>6

(* A kicked peer's queue gets no message for the entry.                    *)
LEMMA CoveredKick ==
    ASSUME NEW O, NEW R, IsOrder(O, R), NEW Q, IsOrder(O, Q), Grows(R, Q),
           NEW f \in Seq(DownMsg(O)), NEW t, NEW kicked, Covered(R, kicked, t, f), Placed(R, f)
    PROVE  Covered(Q, "kicked", t, f)
PROOF
<1> SUFFICES ASSUME t.conn = "open", NEW s \in Logged(Q), Start(t, f) < s
             PROVE  \/ \E k \in DOMAIN f : /\ News(Start(t, f), f, k) /\ Placing(f[k])
                                           /\ f[k].seq = s
                    \/ \A k \in DOMAIN f : SeqOf(f[k]) < s
  BY DEF Covered
<1>1. CASE s <= R.hi
  <2>1. s \in Logged(R)
    BY <1>1, GrowsEntries
  <2> QED BY <2>1 DEF Covered
<1>2. CASE ~(s <= R.hi)
  <2>1. \A k \in DOMAIN f : SeqOf(f[k]) \in Nat /\ SeqOf(f[k]) <= R.hi
    BY MsgsType DEF Placed
  <2>2. s \in Nat /\ R.hi \in Nat
    BY GrowsEntries
  <2> QED BY <1>2, <2>1, <2>2
<1> QED BY <1>1, <1>2

LEMMA AcksAppend ==
    ASSUME NEW O, NEW f \in Seq(DownMsg(O)), NEW m \in DownMsg(O), NEW t \in TabOf(O),
           m.t # "welcome", Acks(t, f), m.t # "ack"
    PROVE  Acks(t, Append(f, m))
PROOF
<1> DEFINE g == Append(f, m)
           n == Start(t, f)
<1>1. n \in Nat
  BY StartType
<1>2. /\ \A k \in DOMAIN f : k \in DOMAIN g /\ g[k] = f[k] /\ (News(n, g, k) <=> News(n, f, k))
      /\ \A k \in DOMAIN f : \A id : Settles(n, g, k, id) <=> Settles(n, f, k, id)
      /\ \A k \in DOMAIN g : k \in DOMAIN f \/ k = Len(f) + 1
      /\ Start(t, g) = n /\ g[Len(f) + 1] = m
  BY <1>1, NewsAppend
<1>3. DOMAIN f = 1..Len(f) /\ Len(f) \in Nat
  BY MsgsType
<1> HIDE DEF g, n
<1> SUFFICES ASSUME ~t.stray, NEW k \in DOMAIN g, g[k].t = "ack"
             PROVE  /\ Has(t.pending, g[k].id) =>
                         \E j \in 1..k : /\ News(n, g, j) /\ Placing(g[j])
                                         /\ g[j].seq = g[k].seq /\ IdOf(g[j]) = g[k].id
                    /\ News(n, g, k) =>
                         /\ Has(t.pending, g[k].id)
                         /\ \A j \in 1..(k - 1) : ~Settles(n, g, j, g[k].id)
  BY <1>2 DEF Acks, g
<1>4. k \in DOMAIN f /\ g[k] = f[k] /\ \A j \in 1..k : j \in DOMAIN f
  BY <1>2, <1>3
<1>5. \A j \in 1..(k - 1) : j \in DOMAIN f
  BY <1>3, <1>4
<1>6. /\ Has(t.pending, f[k].id) =>
                 \E j \in 1..k : /\ News(n, f, j) /\ Placing(f[j])
                                 /\ f[j].seq = f[k].seq /\ IdOf(f[j]) = f[k].id
      /\ News(n, f, k) =>
                 /\ Has(t.pending, f[k].id)
                 /\ \A j \in 1..(k - 1) : ~Settles(n, f, j, f[k].id)
  BY <1>4 DEF Acks, n
<1>7. ASSUME Has(t.pending, g[k].id)
      PROVE  \E j \in 1..k : /\ News(n, g, j) /\ Placing(g[j])
                             /\ g[j].seq = g[k].seq /\ IdOf(g[j]) = g[k].id
  <2>1. PICK j \in 1..k : /\ News(n, f, j) /\ Placing(f[j])
                          /\ f[j].seq = f[k].seq /\ IdOf(f[j]) = f[k].id
    BY <1>4, <1>6, <1>7
  <2>2. g[j] = f[j] /\ News(n, g, j)
    BY <1>2, <1>4, <2>1
  <2> QED BY <1>4, <2>1, <2>2
<1>8. ASSUME News(n, g, k)
      PROVE  /\ Has(t.pending, g[k].id)
             /\ \A j \in 1..(k - 1) : ~Settles(n, g, j, g[k].id)
  BY <1>2, <1>4, <1>5, <1>6, <1>8
<1> QED BY <1>7, <1>8

(* An ack, when its operation has been settled or is being settled by it.  *)
LEMMA AcksAppendAck ==
    ASSUME NEW O, NEW f \in Seq(DownMsg(O)), NEW m \in DownMsg(O), NEW t \in TabOf(O),
           m.t = "ack", Acks(t, f),
           LET n == Start(t, f)
               g == Append(f, m)
           IN  /\ Has(t.pending, m.id) =>
                    \/ News(n, g, Len(f) + 1)
                    \/ \E j \in DOMAIN f : /\ News(n, f, j) /\ Placing(f[j])
                                           /\ f[j].seq = m.seq /\ IdOf(f[j]) = m.id
               /\ News(n, g, Len(f) + 1) =>
                    /\ Has(t.pending, m.id)
                    /\ \A j \in DOMAIN f : ~Settles(n, f, j, m.id)
    PROVE  Acks(t, Append(f, m))
PROOF
<1> DEFINE g == Append(f, m)
           n == Start(t, f)
           l == Len(f) + 1
<1>1. n \in Nat
  BY StartType
<1>2. /\ \A k \in DOMAIN f : k \in DOMAIN g /\ g[k] = f[k] /\ (News(n, g, k) <=> News(n, f, k))
      /\ \A k \in DOMAIN f : \A id : Settles(n, g, k, id) <=> Settles(n, f, k, id)
      /\ \A k \in DOMAIN g : k \in DOMAIN f \/ k = l
      /\ Start(t, g) = n /\ g[l] = m
  BY <1>1, NewsAppend
<1>3. DOMAIN f = 1..Len(f) /\ Len(f) \in Nat /\ l \in Nat /\ DOMAIN f = 1..(l - 1)
  BY MsgsType
<1>4. /\ Has(t.pending, m.id) =>
           \/ News(n, g, l)
           \/ \E j \in DOMAIN f : /\ News(n, f, j) /\ Placing(f[j])
                                  /\ f[j].seq = m.seq /\ IdOf(f[j]) = m.id
      /\ News(n, g, l) => Has(t.pending, m.id) /\ \A j \in DOMAIN f : ~Settles(n, f, j, m.id)
  OBVIOUS
<1> HIDE DEF g, n, l
<1> SUFFICES ASSUME ~t.stray, NEW k \in DOMAIN g, g[k].t = "ack"
             PROVE  /\ Has(t.pending, g[k].id) =>
                         \E j \in 1..k : /\ News(n, g, j) /\ Placing(g[j])
                                         /\ g[j].seq = g[k].seq /\ IdOf(g[j]) = g[k].id
                    /\ News(n, g, k) =>
                         /\ Has(t.pending, g[k].id)
                         /\ \A j \in 1..(k - 1) : ~Settles(n, g, j, g[k].id)
  BY <1>2 DEF Acks, g
<1>5. CASE k \in DOMAIN f
  <2>1. g[k] = f[k] /\ \A j \in 1..k : j \in DOMAIN f
    BY <1>2, <1>3, <1>5
  <2>2. \A j \in 1..(k - 1) : j \in DOMAIN f
    BY <1>3, <1>5
  <2>3. /\ Has(t.pending, f[k].id) =>
                   \E j \in 1..k : /\ News(n, f, j) /\ Placing(f[j])
                                   /\ f[j].seq = f[k].seq /\ IdOf(f[j]) = f[k].id
        /\ News(n, f, k) =>
                   /\ Has(t.pending, f[k].id)
                   /\ \A j \in 1..(k - 1) : ~Settles(n, f, j, f[k].id)
    BY <1>5, <2>1 DEF Acks, n
  <2>4. ASSUME Has(t.pending, g[k].id)
        PROVE  \E j \in 1..k : /\ News(n, g, j) /\ Placing(g[j])
                               /\ g[j].seq = g[k].seq /\ IdOf(g[j]) = g[k].id
    <3>1. PICK j \in 1..k : /\ News(n, f, j) /\ Placing(f[j])
                            /\ f[j].seq = f[k].seq /\ IdOf(f[j]) = f[k].id
      BY <2>1, <2>3, <2>4
    <3>2. g[j] = f[j] /\ News(n, g, j)
      BY <1>2, <2>1, <3>1
    <3> QED BY <2>1, <3>1, <3>2
  <2>5. ASSUME News(n, g, k)
        PROVE  /\ Has(t.pending, g[k].id)
               /\ \A j \in 1..(k - 1) : ~Settles(n, g, j, g[k].id)
    BY <1>2, <1>5, <2>1, <2>2, <2>3, <2>5
  <2> QED BY <2>4, <2>5
<1>6. CASE k = l
  <2>1. g[k] = m
    BY <1>2, <1>6
  <2>2. ASSUME Has(t.pending, m.id)
        PROVE  \E j \in 1..k : /\ News(n, g, j) /\ Placing(g[j])
                               /\ g[j].seq = m.seq /\ IdOf(g[j]) = m.id
    <3>1. CASE News(n, g, l)
      <4>1. l \in 1..k /\ Placing(m) /\ IdOf(m) = m.id
        BY <1>3, <1>6 DEF Placing, IdOf
      <4> QED BY <1>6, <2>1, <3>1, <4>1
    <3>2. CASE \E j \in DOMAIN f : /\ News(n, f, j) /\ Placing(f[j])
                                   /\ f[j].seq = m.seq /\ IdOf(f[j]) = m.id
      <4>1. PICK j \in DOMAIN f : /\ News(n, f, j) /\ Placing(f[j])
                                  /\ f[j].seq = m.seq /\ IdOf(f[j]) = m.id
        BY <3>2
      <4>2. j \in 1..k
        BY <1>3, <1>6, <4>1
      <4> QED BY <1>2, <4>1, <4>2
    <3> QED BY <1>4, <2>2, <3>1, <3>2
  <2>3. ASSUME News(n, g, k)
        PROVE  /\ Has(t.pending, m.id)
               /\ \A j \in 1..(k - 1) : ~Settles(n, g, j, m.id)
    BY <1>2, <1>3, <1>4, <1>6, <2>3
  <2> QED BY <2>1, <2>2, <2>3
<1> QED BY <1>2, <1>5, <1>6

(* What remains on its way to the hub is not what the message answers.     *)
LEMMA SentAppend ==
    ASSUME NEW O, NEW R, NEW f \in Seq(DownMsg(O)), NEW m \in DownMsg(O), NEW t \in TabOf(O),
           m.t # "welcome", NEW u, Sent(R, t, f, u), NEW v,
           \A i \in DOMAIN v : v[i].t = "op" =>
               /\ \E j \in DOMAIN u : u[j] = v[i]
               /\ \/ ~Settles(Start(t, f), Append(f, m), Len(f) + 1, v[i].op.id)
                  \/ v[i].base <= R.hi /\ v[i].base < R.lo
                  \/ /\ v[i].base <= R.hi
                     /\ \E s \in Logged(R) : v[i].base < s /\ R.at[s].id = v[i].op.id
    PROVE  Sent(R, t, Append(f, m), v)
PROOF
<1> DEFINE g == Append(f, m)
           n == Start(t, f)
           l == Len(f) + 1
<1>1. n \in Nat
  BY StartType
<1>2. /\ \A k \in DOMAIN f : \A id : Settles(n, g, k, id) <=> Settles(n, f, k, id)
      /\ \A k \in DOMAIN g : k \in DOMAIN f \/ k = l
      /\ Start(t, g) = n
  BY <1>1, NewsAppend
<1> SUFFICES ASSUME ~t.stray, NEW i \in DOMAIN v, v[i].t = "op"
             PROVE  Unanswered(R, t, g, v[i])
  BY DEF Sent
<1>3. PICK j \in DOMAIN u : u[j] = v[i]
  OBVIOUS
<1>4. Unanswered(R, t, f, v[i])
  BY <1>3 DEF Sent
<1>5. \/ ~Settles(n, g, l, v[i].op.id)
      \/ v[i].base <= R.hi /\ v[i].base < R.lo
      \/ /\ v[i].base <= R.hi
         /\ \E s \in Logged(R) : v[i].base < s /\ R.at[s].id = v[i].op.id
  OBVIOUS
<1> HIDE DEF g, n, l
<1>6. CASE ~Settles(n, g, l, v[i].op.id)
  <2>1. (\A k \in DOMAIN f : ~Settles(n, f, k, v[i].op.id))
          => \A k \in DOMAIN g : ~Settles(n, g, k, v[i].op.id)
    BY <1>2, <1>6
  <2> QED BY <1>2, <1>4, <2>1 DEF Unanswered, n
<1> QED BY <1>5, <1>6 DEF Unanswered

-----------------------------------------------------------------------------
(* A tab reads the first message.  v is the tab afterwards: it is where    *)
(* the message took it, and has the same operations pending but for what   *)
(* the message settles.                                                    *)

Moves(e, t, f, v) ==
    /\ t.conn = "open" /\ v.conn = "open" /\ v.epoch = e
    /\ v.lastSeq = Max2(Start(t, f), SeqOf(f[1])) /\ ~Greeted(Tail(f))
    /\ t.stray => v.stray
    /\ ~v.stray =>
          \A id : Has(v.pending, id) <=> Has(t.pending, id) /\ ~Settles(Start(t, f), f, 1, id)

LEMMA MovesStart ==
    ASSUME NEW e, NEW t, NEW f, NEW v, Moves(e, t, f, v)
    PROVE  Start(v, Tail(f)) = Max2(Start(t, f), SeqOf(f[1])) /\ Start(v, Tail(f)) = v.lastSeq
BY DEF Moves, Start

LEMMA FlowTail ==
    ASSUME NEW O, NEW f \in Seq(DownMsg(O)), f # <<>>, NEW e \in Nat, NEW t, NEW v, NEW u, NEW w,
           Flow(e, t, f, u), v.conn = "open", v.epoch = e, t.synced => v.synced,
           f[1].t # "synced" => v.synced = t.synced,
           \A i \in DOMAIN w : w[i].t = "op" => v.synced
    PROVE  Flow(e, v, Tail(f), w) /\ ~Greeted(Tail(f))
PROOF
<1> DEFINE g == Tail(f)
<1>1. /\ g \in Seq(DownMsg(O)) /\ DOMAIN g = 1..(Len(f) - 1) /\ 1 \in DOMAIN f
      /\ \A k \in DOMAIN g : k + 1 \in DOMAIN f /\ g[k] = f[k + 1]
  BY 0 \in Nat, NewsTail
<1>2. Len(f) \in Nat
  BY MsgsType
<1>3. g = <<>> \/ 1 \in DOMAIN g
  <2>1. Len(g) \in Nat /\ DOMAIN g = 1..Len(g) /\ (g # <<>> => Len(g) # 0)
    BY <1>1, LenProperties, EmptySeq
  <2> HIDE DEF g
  <2> QED BY <2>1
<1> HIDE DEF g
<1>4. \A k \in DOMAIN g : k + 1 # 1 /\ k \in Nat
  BY <1>1, <1>2
<1>5. \A k \in DOMAIN g : g[k].t # "welcome"
  BY <1>1, <1>4 DEF Flow
<1>6. ~Greeted(g)
  BY <1>3, <1>5 DEF Greeted
<1>7. ASSUME NEW k \in DOMAIN g, g[k].t = "synced"
      PROVE  ~v.synced /\ \A j \in DOMAIN g : g[j].t = "synced" => j = k
  <2>1. k + 1 \in DOMAIN f /\ f[k + 1].t = "synced" /\ k + 1 # 1
    BY <1>1, <1>4, <1>7
  <2>2. ~t.synced /\ \A j \in DOMAIN f : f[j].t = "synced" => j = k + 1
    BY <2>1 DEF Flow
  <2>3. f[1].t # "synced"
    BY <1>1, <2>1, <2>2
  <2>4. \A j \in DOMAIN g : g[j].t = "synced" => j + 1 = k + 1
    BY <1>1, <2>2
  <2> QED BY <1>4, <2>2, <2>3, <2>4
<1>8. \A k \in DOMAIN g : g[k].t \in {"ack", "reject"} => v.synced
  BY <1>1 DEF Flow
<1>9. Flow(e, v, g, w)
  BY <1>5, <1>6, <1>7, <1>8 DEF Flow
<1> QED BY <1>6, <1>9 DEF g

LEMMA PlacedTail ==
    ASSUME NEW O, NEW f \in Seq(DownMsg(O)), f # <<>>, NEW R, Placed(R, f)
    PROVE  Placed(R, Tail(f))
PROOF
<1>1. \A k \in DOMAIN Tail(f) : k + 1 \in DOMAIN f /\ Tail(f)[k] = f[k + 1]
  BY 0 \in Nat, NewsTail
<1> QED BY <1>1 DEF Placed

LEMMA CoveredTail ==
    ASSUME NEW O, NEW R, IsOrder(O, R), NEW f \in Seq(DownMsg(O)), f # <<>>, NEW kicked, NEW e,
           NEW t \in TabOf(O), NEW v, Moves(e, t, f, v), Covered(R, kicked, t, f)
    PROVE  Covered(R, kicked, v, Tail(f))
PROOF
<1> DEFINE g == Tail(f)
           n == Start(t, f)
           n2 == Max2(n, SeqOf(f[1]))
<1>1. n \in Nat /\ Start(v, g) = n2
  BY StartType, MovesStart
<1>2. /\ f[1] \in DownMsg(O) /\ 1 \in DOMAIN f /\ n2 \in Nat
      /\ \A k \in DOMAIN g : k + 1 \in DOMAIN f /\ g[k] = f[k + 1]
      /\ \A k \in DOMAIN f : k # 1 => k - 1 \in DOMAIN g /\ g[k - 1] = f[k]
      /\ \A k \in DOMAIN g : News(n2, g, k) <=> News(n, f, k + 1)
  BY <1>1, NewsTail
<1>3. \A k \in DOMAIN f : k \in Nat /\ SeqOf(f[k]) \in Nat /\ k - 1 + 1 = k
  BY MsgsType
<1>4. n <= n2 /\ SeqOf(f[1]) <= n2
  <2>1. n \in Nat /\ SeqOf(f[1]) \in Nat
    BY <1>1, <1>2, <1>3
  <2> HIDE DEF n
  <2> QED BY <2>1 DEF Max2
<1> HIDE DEF g, n, n2
<1> SUFFICES ASSUME NEW s \in Logged(R), n2 < s
             PROVE  \/ \E k \in DOMAIN g : News(n2, g, k) /\ Placing(g[k]) /\ g[k].seq = s
                    \/ kicked = "kicked" /\ \A k \in DOMAIN g : SeqOf(g[k]) < s
  BY <1>1 DEF Covered, g
<1>5. s \in Nat /\ n < s /\ t.conn = "open"
  BY <1>1, <1>2, <1>4 DEF Logged, IsOrder, Moves
<1>6. CASE \E k \in DOMAIN f : News(n, f, k) /\ Placing(f[k]) /\ f[k].seq = s
  <2>1. PICK k \in DOMAIN f : News(n, f, k) /\ Placing(f[k]) /\ f[k].seq = s
    BY <1>6
  <2>2. SeqOf(f[k]) = s
    BY <2>1 DEF SeqOf, Placing
  <2>3. k # 1
    BY <1>2, <1>3, <1>4, <1>5, <2>2
  <2>4. k - 1 \in DOMAIN g /\ g[k - 1] = f[k] /\ News(n2, g, k - 1)
    BY <1>2, <1>3, <2>1, <2>3
  <2> QED BY <2>1, <2>4
<1>7. CASE kicked = "kicked" /\ \A k \in DOMAIN f : SeqOf(f[k]) < s
  BY <1>2, <1>7
<1> QED BY <1>5, <1>6, <1>7 DEF Covered, n

(* Where it is in the order the tab had the pending operations behind it   *)
(* settled.                                                                *)
LEMMA AheadTail ==
    ASSUME NEW O, NEW R, IsOrder(O, R), NEW f \in Seq(DownMsg(O)), f # <<>>, NEW kicked, NEW e,
           NEW u, NEW t \in TabOf(O), NEW v, Moves(e, t, f, v), Covered(R, kicked, t, f),
           Placed(R, f), Flow(e, t, f, u), Ahead(R, e, t)
    PROVE  Ahead(R, e, v)
PROOF
<1> DEFINE n == Start(t, f)
<1> SUFFICES ASSUME ~v.stray, NEW s \in Logged(R), Has(v.pending, R.at[s].id), ~(v.lastSeq < s)
             PROVE  FALSE
  BY DEF Ahead
<1>1. /\ n \in Nat /\ v.lastSeq = Max2(n, SeqOf(f[1])) /\ t.conn = "open" /\ ~t.stray
      /\ Has(t.pending, R.at[s].id) /\ ~Settles(n, f, 1, R.at[s].id)
  BY StartType DEF Moves
<1>2. /\ \A k \in DOMAIN f : k \in Nat /\ k >= 1 /\ SeqOf(f[k]) \in Nat
      /\ s \in Nat /\ s # 0 /\ R.lo < s /\ R.lo \in Nat
      /\ f[1] \in DownMsg(O) /\ 1 \in DOMAIN f
  <2>1. \A k \in DOMAIN f : k \in Nat /\ k >= 1 /\ SeqOf(f[k]) \in Nat
    BY MsgsType
  <2>2. s \in Nat /\ s # 0 /\ R.lo < s /\ R.lo \in Nat
    BY DEF Logged, IsOrder
  <2>3. f[1] \in DownMsg(O) /\ 1 \in DOMAIN f
    BY 0 \in Nat, NewsTail
  <2> QED BY <2>1, <2>2, <2>3
<1>3. CASE s <= n
  <2>1. n = t.lastSeq /\ t.epoch = e
    <3>1. ~(Greeted(f) /\ f[1].fresh)
      BY <1>2, <1>3 DEF Start
    <3>2. n = t.lastSeq
      BY <3>1 DEF Start
    <3>3. t.epoch = e
      BY <1>1, <1>2, <3>1 DEF Flow, Greeted
    <3> QED BY <3>2, <3>3
  <2>2. t.lastSeq < s
    BY <1>1, <2>1 DEF Ahead
  <2> QED BY <1>1, <1>2, <1>3, <2>1, <2>2
<1>4. CASE ~(s <= n)
  <2>1. n < s /\ s <= SeqOf(f[1]) /\ SeqOf(f[1]) \in Nat
    BY <1>1, <1>2, <1>4 DEF Max2
  <2>2. ~\A k \in DOMAIN f : SeqOf(f[k]) < s
    BY <1>2, <2>1
  <2>3. PICK k \in DOMAIN f : News(n, f, k) /\ Placing(f[k]) /\ f[k].seq = s
    BY <1>1, <2>1, <2>2 DEF Covered
  <2>4. SeqOf(f[k]) = s
    BY <2>3 DEF SeqOf, Placing
  <2>5. k = 1
    <3>1. ASSUME k # 1
          PROVE  FALSE
      <4>1. 1 \in 1..(k - 1)
        BY <1>2, <3>1
      <4>2. SeqOf(f[1]) < s
        BY <2>3, <2>4, <4>1 DEF News
      <4> QED BY <1>2, <2>1, <4>2
    <3> QED BY <3>1
  <2>6. R.at[s].id = IdOf(f[1])
    BY <1>2, <2>3, <2>5 DEF Placed
  <2>7. Settles(n, f, 1, R.at[s].id)
    BY <2>3, <2>5, <2>6 DEF Settles, IdOf, Placing
  <2> QED BY <1>1, <2>7
<1> QED BY <1>3, <1>4

LEMMA AcksTail ==
    ASSUME NEW O, NEW f \in Seq(DownMsg(O)), f # <<>>, NEW e,
           NEW t \in TabOf(O), NEW v, Moves(e, t, f, v), Acks(t, f)
    PROVE  Acks(v, Tail(f))
PROOF
<1> DEFINE g == Tail(f)
           n == Start(t, f)
           n2 == Max2(n, SeqOf(f[1]))
<1>1. n \in Nat /\ Start(v, g) = n2
  BY StartType, MovesStart
<1>2. /\ f[1] \in DownMsg(O) /\ 1 \in DOMAIN f /\ n2 \in Nat /\ DOMAIN g = 1..(Len(f) - 1)
      /\ \A k \in DOMAIN g : k + 1 \in DOMAIN f /\ g[k] = f[k + 1]
      /\ \A k \in DOMAIN f : k # 1 => k - 1 \in DOMAIN g /\ g[k - 1] = f[k]
      /\ \A k \in DOMAIN g : News(n2, g, k) <=> News(n, f, k + 1)
      /\ \A k \in DOMAIN g : \A id : Settles(n2, g, k, id) <=> Settles(n, f, k + 1, id)
  BY <1>1, NewsTail
<1>3. Len(f) \in Nat /\ DOMAIN f = 1..Len(f)
  BY MsgsType
<1> HIDE DEF g, n, n2
<1> SUFFICES ASSUME ~v.stray, NEW k \in DOMAIN g, g[k].t = "ack"
             PROVE  /\ Has(v.pending, g[k].id) =>
                         \E j \in 1..k : /\ News(n2, g, j) /\ Placing(g[j])
                                         /\ g[j].seq = g[k].seq /\ IdOf(g[j]) = g[k].id
                    /\ News(n2, g, k) =>
                         /\ Has(v.pending, g[k].id)
                         /\ \A j \in 1..(k - 1) : ~Settles(n2, g, j, g[k].id)
  BY <1>1 DEF Acks, g
<1>4. /\ k \in Nat /\ k + 1 \in DOMAIN f /\ g[k] = f[k + 1] /\ f[k + 1].t = "ack" /\ k + 1 - 1 = k
      /\ 1 \in 1..k
  BY <1>2, <1>3
<1>5. ~t.stray /\ \A id : Has(v.pending, id) <=> Has(t.pending, id) /\ ~Settles(n, f, 1, id)
  BY DEF Moves, n
<1>6. /\ Has(t.pending, f[k + 1].id) =>
                 \E j \in 1..(k + 1) : /\ News(n, f, j) /\ Placing(f[j])
                                 /\ f[j].seq = f[k + 1].seq /\ IdOf(f[j]) = f[k + 1].id
      /\ News(n, f, k + 1) =>
                 /\ Has(t.pending, f[k + 1].id)
                 /\ \A j \in 1..k : ~Settles(n, f, j, f[k + 1].id)
  BY <1>4, <1>5 DEF Acks, n
<1>7. ASSUME Has(v.pending, g[k].id)
      PROVE  \E j \in 1..k : /\ News(n2, g, j) /\ Placing(g[j])
                             /\ g[j].seq = g[k].seq /\ IdOf(g[j]) = g[k].id
  <2>1. Has(t.pending, f[k + 1].id) /\ ~Settles(n, f, 1, f[k + 1].id)
    BY <1>4, <1>5, <1>7
  <2>2. PICK j \in 1..(k + 1) : /\ News(n, f, j) /\ Placing(f[j])
                                /\ f[j].seq = f[k + 1].seq /\ IdOf(f[j]) = f[k + 1].id
    BY <1>6, <2>1
  <2>3. j # 1
    <3>1. ASSUME j = 1
          PROVE  Settles(n, f, 1, f[k + 1].id)
      BY <2>2, <3>1 DEF Settles, Placing, IdOf
    <3> QED BY <2>1, <3>1
  <2>4. j - 1 \in 1..k /\ j \in DOMAIN f /\ j - 1 + 1 = j
    BY <1>3, <1>4, <2>3
  <2>5. j - 1 \in DOMAIN g /\ g[j - 1] = f[j]
    BY <1>2, <2>3, <2>4
  <2>6. News(n2, g, j - 1)
    BY <1>2, <2>2, <2>4, <2>5
  <2> QED BY <1>4, <2>2, <2>4, <2>5, <2>6
<1>8. ASSUME News(n2, g, k)
      PROVE  /\ Has(v.pending, g[k].id)
             /\ \A j \in 1..(k - 1) : ~Settles(n2, g, j, g[k].id)
  <2>1. News(n, f, k + 1)
    BY <1>2, <1>8
  <2>2. Has(v.pending, g[k].id)
    BY <1>4, <1>5, <1>6, <2>1
  <2>3. ASSUME NEW j \in 1..(k - 1)
        PROVE  ~Settles(n2, g, j, g[k].id)
    <3>1. j \in DOMAIN g /\ j + 1 \in 1..k
      BY <1>2, <1>3, <1>4
    <3> QED BY <1>2, <1>4, <1>6, <2>1, <3>1
  <2> QED BY <2>2, <2>3
<1> QED BY <1>7, <1>8

LEMMA SentTail ==
    ASSUME NEW O, NEW R, NEW f \in Seq(DownMsg(O)), f # <<>>, NEW e,
           NEW t \in TabOf(O), NEW v, Moves(e, t, f, v), NEW u, Sent(R, t, f, u)
    PROVE  Sent(R, v, Tail(f), u)
PROOF
<1> DEFINE g == Tail(f)
           n == Start(t, f)
           n2 == Max2(n, SeqOf(f[1]))
<1>1. n \in Nat /\ Start(v, g) = n2
  BY StartType, MovesStart
<1>2. /\ 1 \in DOMAIN f
      /\ \A k \in DOMAIN g : k + 1 \in DOMAIN f /\ g[k] = f[k + 1]
      /\ \A k \in DOMAIN g : \A id : Settles(n2, g, k, id) <=> Settles(n, f, k + 1, id)
  BY <1>1, NewsTail
<1> HIDE DEF g, n, n2
<1> SUFFICES ASSUME ~v.stray, NEW i \in DOMAIN u, u[i].t = "op"
             PROVE  Unanswered(R, v, g, u[i])
  BY DEF Sent, g
<1>3. ~t.stray /\ \A id : Has(v.pending, id) <=> Has(t.pending, id) /\ ~Settles(n, f, 1, id)
  BY DEF Moves, n
<1>4. Unanswered(R, t, f, u[i])
  BY <1>3 DEF Sent
<1>5. (Has(t.pending, u[i].op.id) /\ \A k \in DOMAIN f : ~Settles(n, f, k, u[i].op.id))
        => Has(v.pending, u[i].op.id) /\ \A k \in DOMAIN g : ~Settles(n2, g, k, u[i].op.id)
  BY <1>2, <1>3
<1> QED BY <1>1, <1>4, <1>5 DEF Unanswered, n

-----------------------------------------------------------------------------
(* The order of a room, and how the hub changes it.                        *)

(* The entries are numbered on from b.                                     *)
Numbered(R, b, entries) ==
    /\ R.lo = b /\ R.hi = b + Len(entries)
    /\ \A i \in DOMAIN entries :
          \A s \in Nat : s = b + i => s \in Logged(R) /\ R.at[s] = entries[i]

LEMMA OrderOfType ==
    ASSUME NEW O, NEW b \in Nat, NEW entries \in Seq(O), NEW R, R = OrderOf(b, entries)
    PROVE  IsOrder(O, R) /\ Numbered(R, b, entries)
PROOF
<1>1. /\ Len(entries) \in Nat /\ DOMAIN entries = 1..Len(entries)
      /\ \A i \in DOMAIN entries : entries[i] \in O
  BY LenProperties, ElementOfSeq
<1>2. /\ R.lo = b /\ R.hi = b + Len(entries)
      /\ R.at = [s \in (b + 1)..(b + Len(entries)) |-> entries[s - b]]
  BY DEF OrderOf
<1>3. ASSUME NEW s \in Nat, NEW i \in DOMAIN entries, s = b + i
      PROVE  s \in Logged(R) /\ R.at[s] = entries[i]
  <2>1. s \in (b + 1)..(b + Len(entries)) /\ s - b = i
    BY <1>1, <1>3
  <2> QED BY <1>2, <2>1 DEF Logged
<1>4. ASSUME NEW s \in Logged(R)
      PROVE  \E i \in DOMAIN entries : s = b + i /\ R.at[s] = entries[i]
  <2>1. s \in Nat /\ s - b \in DOMAIN entries /\ s = b + (s - b)
    BY <1>1, <1>2 DEF Logged
  <2>2. PICK i \in DOMAIN entries : s = b + i
    BY <2>1
  <2> QED BY <1>3, <2>1, <2>2
<1>5. IsOrder(O, R)
  <2>1. R.lo \in Nat /\ R.hi \in Nat /\ R.lo <= R.hi
    BY <1>1, <1>2
  <2> QED BY <1>1, <1>4, <2>1 DEF IsOrder
<1> QED BY <1>2, <1>3, <1>5 DEF Numbered

LEMMA OrderTyped ==
    ASSUME NEW O, RoomTyped(O)
    PROVE  /\ IsOrder(O, Order) /\ Numbered(Order, base, log)
           /\ Order.lo = base /\ Order.hi = Seqno /\ Order.hi \in Nat
PROOF
<1>1. base \in Nat /\ log \in Seq(O)
  BY DEF RoomTyped
<1>2. Order = OrderOf(base, log) /\ Seqno = base + Len(log)
  BY DEF Order, Seqno
<1>3. IsOrder(O, Order) /\ Numbered(Order, base, log)
  BY <1>1, <1>2, OrderOfType
<1> QED BY <1>2, <1>3 DEF Numbered, IsOrder

(* Entries dropped from the front, the others under their old numbers.     *)
Dropped(b, entries, b2, left) ==
    /\ b <= b2 /\ b2 + Len(left) = b + Len(entries)
    /\ \A s \in (b2 + 1)..(b + Len(entries)) : left[s - b2] = entries[s - b]

LEMMA DroppedOrder ==
    ASSUME NEW O, NEW b \in Nat, NEW entries \in Seq(O), NEW b2 \in Nat, NEW left \in Seq(O),
           Dropped(b, entries, b2, left),
           NEW R, R = OrderOf(b, entries), NEW Q, Q = OrderOf(b2, left)
    PROVE  IsOrder(O, Q) /\ IsOrder(O, R) /\ Grows(R, Q) /\ Q.hi = R.hi
PROOF
<1>1. /\ b <= b2 /\ b2 + Len(left) = b + Len(entries)
      /\ \A s \in (b2 + 1)..(b + Len(entries)) : left[s - b2] = entries[s - b]
  BY DEF Dropped
<1>2. IsOrder(O, R) /\ Numbered(R, b, entries) /\ IsOrder(O, Q) /\ Numbered(Q, b2, left)
  BY OrderOfType
<1>3. /\ Len(entries) \in Nat /\ DOMAIN entries = 1..Len(entries)
      /\ Len(left) \in Nat /\ DOMAIN left = 1..Len(left)
  BY LenProperties
<1>4. /\ R.lo = b /\ R.hi = b + Len(entries) /\ Q.lo = b2 /\ Q.hi = b2 + Len(left)
  BY <1>2 DEF Numbered
<1>5. ASSUME NEW s \in Logged(Q)
      PROVE  Q.at[s] = R.at[s]
  <2>1. s \in (b2 + 1)..(b2 + Len(left))
    BY <1>4 DEF Logged
  <2>2. s \in Nat /\ s - b2 \in 1..Len(left) /\ s - b \in 1..Len(entries)
        /\ s = b2 + (s - b2) /\ s = b + (s - b) /\ s \in (b2 + 1)..(b + Len(entries))
    BY <1>1, <1>3, <2>1
  <2>3. Q.at[s] = left[s - b2]
    BY <1>2, <1>3, <2>2 DEF Numbered
  <2>4. R.at[s] = entries[s - b]
    BY <1>2, <1>3, <2>2 DEF Numbered
  <2> QED BY <1>1, <2>2, <2>3, <2>4
<1>6. Grows(R, Q) /\ Q.hi = R.hi
  BY <1>1, <1>3, <1>4, <1>5 DEF Grows
<1> QED BY <1>2, <1>6

LEMMA TrimOrder ==
    ASSUME NEW O, O \subseteq Op, RoomTyped(O), NEW entries \in Seq(O), NEW saved \in Nat,
           Trim(entries, saved), NEW R, R = OrderOf(base, entries)
    PROVE  IsOrder(O, Order') /\ IsOrder(O, R) /\ Grows(R, Order') /\ Order'.hi = R.hi
PROOF
<1>1. base \in Nat /\ trimmed \in Deck
  BY DEF RoomTyped
<1>2. log' \in Seq(O) /\ base' \in Nat /\ Dropped(base, entries, base', log')
  BY <1>1, TrimEffect DEF Dropped
<1>3. Order' = OrderOf(base', log')
  BY DEF Order
<1> QED BY <1>1, <1>2, <1>3, DroppedOrder

(* Saving and restoring add no entry.                                      *)
LEMMA SavedOrder ==
    ASSUME NEW O, O \subseteq Op, RoomTyped(O), NEW m \in UpMsg(O), Saved(m)
    PROVE  IsOrder(O, Order') /\ Grows(Order, Order') /\ Order'.hi = Order.hi
PROOF
<1>1. /\ savedSeq' = Max2(savedSeq, Min2(m.seq, Seqno)) /\ Trim(log, savedSeq')
      /\ m \in [t : {"saved"}, seq : Nat]
  BY DEF Saved, UpMsg
<1>2. savedSeq \in Nat /\ Seqno \in Nat /\ log \in Seq(O)
  BY LenProperties DEF RoomTyped, Seqno
<1>3. savedSeq' \in Nat
  BY <1>1, <1>2 DEF Max2, Min2
<1>4. Order = OrderOf(base, log)
  BY DEF Order
<1> QED BY <1>1, <1>2, <1>3, <1>4, TrimOrder

LEMMA RestoredOrder ==
    ASSUME NEW O, RoomTyped(O), log' = <<>>, base' = Seqno + 1
    PROVE  /\ IsOrder(O, Order') /\ Grows(Order, Order') /\ Logged(Order') = {}
           /\ Order'.lo = Order.hi + 1
PROOF
<1>1. /\ IsOrder(O, Order) /\ Order.hi = Seqno /\ Order.hi \in Nat
  BY OrderTyped
<1>2. log' \in Seq(O) /\ base' \in Nat /\ Len(log') = 0
  BY <1>1, EmptySeq
<1>3. Order' = OrderOf(base', log')
  BY DEF Order
<1>4. IsOrder(O, Order') /\ Order'.lo = base' /\ Order'.hi = base' + Len(log')
  <2>1. IsOrder(O, Order') /\ Numbered(Order', base', log')
    BY <1>2, <1>3, OrderOfType
  <2> QED BY <2>1 DEF Numbered
<1>5. Logged(Order') = {}
  BY <1>2, <1>4 DEF Logged
<1>6. Grows(Order, Order')
  BY <1>1, <1>2, <1>4, <1>5 DEF Grows, IsOrder
<1> QED BY <1>1, <1>4, <1>5, <1>6

(* Stamping adds one entry, if it is not trimmed at once.                  *)
LEMMA StampOrder ==
    ASSUME NEW O, O \subseteq Op, RoomTyped(O), NEW o \in O, Trim(Append(log, o), savedSeq)
    PROVE  /\ IsOrder(O, Order') /\ Grows(Order, Order') /\ Order'.hi = Order.hi + 1
           /\ \A s \in Logged(Order') : s = Order.hi + 1 => Order'.at[s] = o
PROOF
<1>1. base \in Nat /\ log \in Seq(O) /\ savedSeq \in Nat
  BY DEF RoomTyped
<1>2. PICK more : more = Append(log, o)
  OBVIOUS
<1>3. PICK R : R = OrderOf(base, more)
  OBVIOUS
<1>4. /\ more \in Seq(O) /\ Len(more) = Len(log) + 1 /\ Len(log) \in Nat
      /\ DOMAIN log = 1..Len(log) /\ DOMAIN more = 1..(Len(log) + 1)
      /\ \A i \in DOMAIN log : more[i] = log[i]
      /\ more[Len(log) + 1] = o
  <2>1. /\ more \in Seq(O) /\ Len(more) = Len(log) + 1
        /\ \A i \in 1..Len(log) : more[i] = log[i]
        /\ more[Len(log) + 1] = o
    BY <1>1, <1>2, AppendProperties
  <2> QED BY <1>1, <2>1, LenProperties
<1>5. /\ IsOrder(O, R) /\ R.lo = base /\ R.hi = base + Len(more)
      /\ Numbered(R, base, more)
  <2>1. IsOrder(O, R) /\ Numbered(R, base, more)
    BY <1>1, <1>3, <1>4, OrderOfType
  <2> QED BY <2>1 DEF Numbered
<1>6. /\ IsOrder(O, Order) /\ Order.lo = base /\ Order.hi = base + Len(log) /\ Order.hi \in Nat
      /\ Numbered(Order, base, log)
  BY OrderTyped DEF Seqno
<1>7. IsOrder(O, Order') /\ Grows(R, Order') /\ Order'.hi = R.hi
  BY <1>1, <1>2, <1>3, <1>4, TrimOrder
<1>8. Order'.hi = Order.hi + 1
  BY <1>1, <1>4, <1>5, <1>6, <1>7
<1>9. \A s \in Logged(Order') : s \in Logged(R) /\ Order'.at[s] = R.at[s] /\ s \in Nat
  BY <1>5, <1>7, GrowsEntries
<1>10. ASSUME NEW s \in Logged(Order')
       PROVE  /\ s <= Order.hi => Order'.at[s] = Order.at[s]
              /\ s = Order.hi + 1 => Order'.at[s] = o
  <2>1. s \in Nat /\ s - base \in DOMAIN more /\ s = base + (s - base)
    BY <1>1, <1>4, <1>5, <1>9 DEF Logged
  <2>2. PICK i \in DOMAIN more : s = base + i /\ R.at[s] = more[i]
    BY <1>5, <2>1 DEF Numbered
  <2>3. CASE i \in DOMAIN log
    <3>1. s \in Logged(Order) /\ Order.at[s] = log[i] /\ s # Order.hi + 1
      BY <1>1, <1>4, <1>6, <1>9, <2>2, <2>3 DEF Numbered
    <3> QED BY <1>4, <1>9, <2>2, <2>3, <3>1
  <2>4. CASE i \notin DOMAIN log
    <3>1. i = Len(log) + 1 /\ ~(s <= Order.hi)
      BY <1>1, <1>4, <1>6, <2>2, <2>4
    <3> QED BY <1>4, <1>9, <2>2, <3>1
  <2> QED BY <2>3, <2>4
<1>11. Order.lo <= Order'.lo
  BY <1>5, <1>6, <1>7 DEF Grows
<1>12. Grows(Order, Order')
  BY <1>6, <1>8, <1>10, <1>11 DEF Grows
<1> QED BY <1>7, <1>8, <1>10, <1>12

-----------------------------------------------------------------------------
(* How a tab stands to the order after each change the hub makes.          *)

LEMMA TailEntries ==
    ASSUME NEW S, NEW q \in Seq(S), q # <<>>
    PROVE  /\ Tail(q) \in Seq(S) /\ Head(q) = q[1] /\ q[1] \in S /\ 1 \in DOMAIN q
           /\ \A i \in DOMAIN Tail(q) : i + 1 \in DOMAIN q /\ i + 1 # 1 /\ Tail(q)[i] = q[i + 1]
PROOF
<1> DEFINE g == Tail(q)
<1>1. g \in Seq(S) /\ Len(g) = Len(q) - 1 /\ \A i \in 1..Len(g) : g[i] = q[i + 1]
  BY HeadTailProperties
<1>2. DOMAIN q = 1..Len(q) /\ Len(q) \in Nat /\ Len(q) # 0
  BY LenProperties, EmptySeq
<1>3. DOMAIN g = 1..Len(g)
  BY <1>1, LenProperties
<1>4. Head(q) = q[1]
  OBVIOUS
<1> HIDE DEF g
<1>5. \A i \in DOMAIN g : i + 1 \in DOMAIN q /\ i + 1 # 1 /\ g[i] = q[i + 1]
  BY <1>1, <1>2, <1>3
<1>6. 1 \in DOMAIN q /\ q[1] \in S
  BY <1>2, ElementOfSeq
<1> QED BY <1>1, <1>4, <1>5, <1>6 DEF g

LEMMA GreetedFirst ==
    ASSUME NEW O, NEW f \in Seq(DownMsg(O)), Greeted(f)
    PROVE  1 \in DOMAIN f /\ f[1].t = "welcome"
BY TailEntries DEF Greeted

(* A tab with a socket that is open knows its room, or is about to.        *)
LEMMA StartBounded ==
    ASSUME NEW O, NEW R, IsOrder(O, R), NEW e, NEW t \in TabOf(O), NEW f \in Seq(DownMsg(O)),
           NEW u, Flow(e, t, f, u), Based(R, e, t), t.conn = "open"
    PROVE  Start(t, f) <= R.hi /\ Start(t, f) \in Nat
PROOF
<1>1. Start(t, f) \in Nat /\ R.hi \in Nat
  BY StartType DEF IsOrder
<1>2. CASE Greeted(f) /\ f[1].fresh
  BY <1>1, <1>2 DEF Start
<1>3. CASE ~(Greeted(f) /\ f[1].fresh)
  <2>1. t.epoch = e
    BY <1>3, GreetedFirst DEF Flow
  <2>2. Start(t, f) = t.lastSeq
    BY <1>3 DEF Start
  <2> QED BY <1>1, <2>1, <2>2 DEF Based
<1> QED BY <1>2, <1>3

(* The hub has read the first message.                                     *)
Fewer(u, v) == v = u \/ (u # <<>> /\ v = Tail(u))

LEMMA FewerEntries ==
    ASSUME NEW O, NEW u \in Seq(UpMsg(O)), NEW v, Fewer(u, v)
    PROVE  /\ v \in Seq(UpMsg(O))
           /\ \A i \in DOMAIN v : \E j \in DOMAIN u : v[i] = u[j]
           /\ u = <<>> => v = <<>>
PROOF
<1>1. CASE v = u
  BY <1>1
<1>2. CASE u # <<>> /\ v = Tail(u)
  BY <1>2, TailEntries
<1> QED BY <1>1, <1>2 DEF Fewer

LEMMA StandsFewer ==
    ASSUME NEW O, NEW R, NEW e, NEW kicked, NEW t, NEW f,
           NEW u \in Seq(UpMsg(O)), NEW v, Fewer(u, v), NEW l \in Seq(UpMsg(O)), NEW k, Fewer(l, k),
           Stands(R, e, kicked, t, f, u, l)
    PROVE  Stands(R, e, kicked, t, f, v, k)
PROOF
<1>1. /\ \A i \in DOMAIN v : \E j \in DOMAIN u : v[i] = u[j]
      /\ u = <<>> => v = <<>>
      /\ \A i \in DOMAIN k : \E j \in DOMAIN l : k[i] = l[j]
  BY FewerEntries
<1>2. Flow(e, t, f, v)
  BY <1>1 DEF Stands, Flow
<1>3. Distinct(t, v)
  <2>1. Distinct(t, u)
    BY DEF Stands
  <2>2. CASE v = u
    BY <2>1, <2>2
  <2>3. CASE u # <<>> /\ v = Tail(u)
    <3>1. \A i \in DOMAIN v : i + 1 \in DOMAIN u /\ v[i] = u[i + 1] /\ i \in Nat
      <4>1. \A i \in DOMAIN v : i + 1 \in DOMAIN u /\ v[i] = u[i + 1]
        BY <2>3, TailEntries
      <4>2. v \in Seq(UpMsg(O))
        BY FewerEntries
      <4> QED BY <4>1, <4>2, LenProperties
    <3>2. ASSUME NEW i \in DOMAIN v, NEW j \in DOMAIN v,
                 v[i].t = "op", v[j].t = "op", v[i].op.id = v[j].op.id
          PROVE  i = j
      <4>1. i + 1 = j + 1
        BY <2>1, <3>1, <3>2 DEF Distinct
      <4> QED BY <3>1, <4>1
    <3> QED BY <2>1, <3>2 DEF Distinct
  <2> QED BY <2>2, <2>3 DEF Fewer
<1>4. Sent(R, t, f, v)
  BY <1>1 DEF Stands, Sent
<1>5. SawAll(R, v) /\ SawAll(R, k)
  BY <1>1 DEF Stands, SawAll
<1> QED BY <1>2, <1>3, <1>4, <1>5 DEF Stands

(* The order grows but the tab is not told: no entry is added, or the peer *)
(* has been kicked.                                                        *)
LEMMA StandsUntold ==
    ASSUME NEW O, NEW R, IsOrder(O, R), NEW Q, IsOrder(O, Q), Grows(R, Q),
           NEW e, NEW kicked, NEW t \in TabOf(O), NEW f \in Seq(DownMsg(O)),
           NEW u \in Seq(UpMsg(O)), NEW l \in Seq(UpMsg(O)), Stands(R, e, kicked, t, f, u, l),
           NEW now, Covered(Q, now, t, f)
    PROVE  Stands(Q, e, now, t, f, u, l)
PROOF
<1>1. Based(R, e, t) /\ Ahead(R, e, t) /\ Held(R, e, t) /\ Seen(R, e, t)
  BY DEF Stands
<1>2. Based(Q, e, t) /\ Ahead(Q, e, t) /\ Held(Q, e, t) /\ Seen(Q, e, t)
  BY <1>1, TabGrows
<1>3. Placed(Q, f)
  BY PlacedGrows DEF Stands
<1>4. Sent(Q, t, f, u)
  BY SentGrows DEF Stands
<1>5. SawAll(Q, u) /\ SawAll(Q, l)
  BY SawAllGrows DEF Stands
<1> QED BY <1>2, <1>3, <1>4, <1>5 DEF Stands

LEMMA StandsGrows ==
    ASSUME NEW O, NEW R, IsOrder(O, R), NEW Q, IsOrder(O, Q), Grows(R, Q),
           \A s \in Logged(Q) : s <= R.hi,
           NEW e, NEW kicked, NEW t \in TabOf(O), NEW f \in Seq(DownMsg(O)),
           NEW u \in Seq(UpMsg(O)), NEW l \in Seq(UpMsg(O)), Stands(R, e, kicked, t, f, u, l)
    PROVE  Stands(Q, e, kicked, t, f, u, l) /\ Stands(Q, e, "kicked", t, f, u, l)
PROOF
<1>1. Covered(R, kicked, t, f)
  BY DEF Stands
<1>2. Covered(Q, kicked, t, f)
  BY <1>1, CoveredTrimmed
<1>3. Covered(Q, "kicked", t, f)
  BY <1>2 DEF Covered
<1> QED BY <1>2, <1>3, StandsUntold

LEMMA StandsKicked ==
    ASSUME NEW O, NEW R, IsOrder(O, R), NEW Q, IsOrder(O, Q), Grows(R, Q),
           NEW e, NEW kicked, NEW t \in TabOf(O), NEW f \in Seq(DownMsg(O)),
           NEW u \in Seq(UpMsg(O)), NEW l \in Seq(UpMsg(O)), Stands(R, e, kicked, t, f, u, l)
    PROVE  Stands(Q, e, "kicked", t, f, u, l)
PROOF
<1>1. Covered(R, kicked, t, f) /\ Placed(R, f)
  BY DEF Stands
<1>2. Covered(Q, "kicked", t, f)
  BY <1>1, CoveredKick
<1> QED BY <1>2, StandsUntold

(* A peer that is not kicked is told, as far as the queue is concerned.    *)
LEMMA StandsTold ==
    ASSUME NEW O, NEW R, IsOrder(O, R), NEW e, NEW kicked, NEW t \in TabOf(O),
           NEW f \in Seq(DownMsg(O)), NEW m \in DownMsg(O),
           NEW u, NEW l, Stands(R, e, kicked, t, f, u, l),
           t.conn # "closed",
           m.t \in {"stamped", "restored"} \/ (m.t \in {"ack", "reject"} /\ t.synced),
           SeqOf(m) <= R.hi, Placing(m) /\ R.lo < m.seq => R.at[m.seq].id = IdOf(m),
           Covered(R, "served", t, Append(f, m)), Acks(t, Append(f, m)),
           Sent(R, t, Append(f, m), u)
    PROVE  Stands(R, e, "served", t, Append(f, m), u, l)
PROOF
<1>1. Flow(e, t, f, u) /\ Placed(R, f)
  BY DEF Stands
<1>2. Flow(e, t, Append(f, m), u)
  BY <1>1, FlowAppend
<1>3. Placed(R, Append(f, m))
  BY <1>1, PlacedAppend
<1> QED BY <1>2, <1>3 DEF Stands

(* No entry is added to the order, and the message is not an ack.          *)
LEMMA StandsReplied ==
    ASSUME NEW O, NEW R, IsOrder(O, R), NEW e, NEW t \in TabOf(O),
           NEW f \in Seq(DownMsg(O)), NEW m \in DownMsg(O),
           NEW u, NEW l, Stands(R, e, "served", t, f, u, l),
           t.conn # "closed",
           m.t = "restored" \/ (m.t = "reject" /\ t.synced),
           m.t = "reject" => \A i \in DOMAIN u : u[i].t = "op" => u[i].op.id # m.id
    PROVE  Stands(R, e, "served", t, Append(f, m), u, l)
PROOF
<1>1. /\ SeqOf(m) = 0 /\ ~Placing(m) /\ m.t # "welcome" /\ m.t # "ack"
      /\ R.hi \in Nat /\ SeqOf(m) <= R.hi
  BY DEF SeqOf, Placing, IsOrder
<1>2. Covered(R, "served", t, Append(f, m))
  BY <1>1, CoveredAppend DEF Stands
<1>3. Acks(t, Append(f, m))
  BY <1>1, AcksAppend DEF Stands
<1>4. Append(f, m)[Len(f) + 1] = m
  BY <1>1, NewsAppend, 0 \in Nat
<1>5. \A i \in DOMAIN u : u[i].t = "op" =>
         ~Settles(Start(t, f), Append(f, m), Len(f) + 1, u[i].op.id)
  BY <1>4 DEF Settles
<1>6. Sent(R, t, f, u)
  BY DEF Stands
<1>7. Sent(R, t, Append(f, m), u)
  BY <1>1, <1>5, <1>6, SentAppend
<1> QED BY <1>1, <1>2, <1>3, <1>7, StandsTold

(* An operation that has its place already is acked again.                 *)
LEMMA StandsAckedAgain ==
    ASSUME NEW O, NEW R, IsOrder(O, R), NEW e, NEW t \in TabOf(O),
           NEW f \in Seq(DownMsg(O)), NEW m \in DownMsg(O),
           NEW u, NEW l, Stands(R, e, "served", t, f, u, l), t.synced,
           m.t = "ack", m.seq \in Logged(R), R.at[m.seq].id = m.id,
           \A i \in DOMAIN u : u[i].t = "op" => u[i].op.id # m.id
    PROVE  Stands(R, e, "served", t, Append(f, m), u, l)
PROOF
<1> DEFINE g == Append(f, m)
           n == Start(t, f)
<1>1. /\ Flow(e, t, f, u) /\ Based(R, e, t) /\ Placed(R, f) /\ Covered(R, "served", t, f)
      /\ Ahead(R, e, t) /\ Acks(t, f) /\ Sent(R, t, f, u)
  BY DEF Stands
<1>2. /\ t.conn = "open" /\ t.epoch = e /\ n = t.lastSeq
  <2>1. t.conn = "open"
    BY <1>1 DEF Flow
  <2>2. ~Greeted(f)
    BY <1>1, GreetedFirst DEF Flow
  <2> QED BY <1>1, <2>1, <2>2 DEF Flow, Start
<1>3. /\ SeqOf(m) = m.seq /\ Placing(m) /\ m.t # "welcome" /\ IdOf(m) = m.id
      /\ m.seq \in Nat /\ R.lo < m.seq /\ m.seq <= R.hi /\ n \in Nat
  <2>1. R.lo \in Nat /\ R.hi \in Nat /\ n \in Nat
    BY StartType DEF IsOrder
  <2> QED BY <2>1 DEF SeqOf, Placing, IdOf, Logged
<1>4. n < m.seq => \E k \in DOMAIN f : /\ News(n, f, k) /\ Placing(f[k])
                                       /\ f[k].seq = m.seq /\ IdOf(f[k]) = m.id
  <2> SUFFICES ASSUME n < m.seq
               PROVE \E k \in DOMAIN f : /\ News(n, f, k) /\ Placing(f[k])
                                         /\ f[k].seq = m.seq /\ IdOf(f[k]) = m.id
    OBVIOUS
  <2>1. PICK k \in DOMAIN f : News(n, f, k) /\ Placing(f[k]) /\ f[k].seq = m.seq
    BY <1>1, <1>2 DEF Covered
  <2>2. IdOf(f[k]) = m.id
    BY <1>1, <1>3, <2>1 DEF Placed
  <2> QED BY <2>1, <2>2
<1>5. /\ g[Len(f) + 1] = m /\ \A k \in DOMAIN f : g[k] = f[k]
      /\ DOMAIN f = 1..Len(f) /\ Len(f) \in Nat
  BY <1>3, NewsAppend, MsgsType
<1>6. ~News(n, g, Len(f) + 1)
  <2>1. CASE n < m.seq
    <3>1. PICK k \in DOMAIN f : Placing(f[k]) /\ f[k].seq = m.seq
      BY <1>4, <2>1
    <3>2. SeqOf(g[k]) = m.seq /\ k \in 1..((Len(f) + 1) - 1)
      BY <1>5, <3>1 DEF Placing, SeqOf
    <3>3. ~(SeqOf(g[k]) < SeqOf(g[Len(f) + 1]))
      BY <1>3, <1>5, <3>2
    <3> QED BY <3>2, <3>3 DEF News
  <2>2. CASE ~(n < m.seq)
    BY <1>3, <1>5, <2>2 DEF News
  <2> QED BY <2>1, <2>2
<1>7. Acks(t, g)
  <2>1. CASE t.stray
    BY <2>1 DEF Acks
  <2>2. CASE ~t.stray
    <3>1. Has(t.pending, m.id) => n < m.seq
      BY <1>1, <1>2, <2>2 DEF Ahead
    <3> QED BY <1>1, <1>4, <1>6, <3>1, AcksAppendAck
  <2> QED BY <2>1, <2>2
<1>8. \A i \in DOMAIN u : u[i].t = "op" => ~Settles(n, g, Len(f) + 1, u[i].op.id)
  BY <1>5 DEF Settles
<1>9. Sent(R, t, g, u)
  BY <1>1, <1>3, <1>8, SentAppend
<1>10. Covered(R, "served", t, g)
  BY <1>1, <1>3, CoveredAppend
<1> QED BY <1>2, <1>3, <1>7, <1>9, <1>10, StandsTold

(* An operation takes its place, and the others are told.                  *)
LEMMA StandsStamped ==
    ASSUME NEW O, NEW R, IsOrder(O, R), NEW Q, IsOrder(O, Q), Grows(R, Q), Q.hi = R.hi + 1,
           NEW o, \A s \in Logged(Q) : s = R.hi + 1 => Q.at[s] = o,
           NEW e, NEW t \in TabOf(O),
           NEW f \in Seq(DownMsg(O)), NEW m \in DownMsg(O),
           NEW u \in Seq(UpMsg(O)), NEW l \in Seq(UpMsg(O)), Stands(R, e, "served", t, f, u, l),
           t.conn # "closed", m.t = "stamped", m.op = o, m.seq = R.hi + 1
    PROVE  Stands(Q, e, "served", t, Append(f, m), u, l)
PROOF
<1> DEFINE g == Append(f, m)
           n == Start(t, f)
<1>1. /\ Flow(e, t, f, u) /\ Based(R, e, t) /\ Placed(R, f) /\ Covered(R, "served", t, f)
      /\ Acks(t, f) /\ Sent(R, t, f, u)
  BY DEF Stands
<1>2. Stands(Q, e, "kicked", t, f, u, l)
  BY StandsKicked
<1>3. /\ R.lo \in Nat /\ R.hi \in Nat /\ Q.lo \in Nat /\ Q.hi \in Nat /\ R.lo <= Q.lo
      /\ SeqOf(m) = m.seq /\ Placing(m) /\ m.t # "welcome" /\ IdOf(m) = o.id
  BY GrowsEntries DEF SeqOf, Placing, IdOf
<1>4. Q.lo < R.hi + 1 => R.hi + 1 \in Logged(Q) /\ Q.at[R.hi + 1] = o
  <2>1. Q.lo < R.hi + 1 => R.hi + 1 \in Logged(Q)
    BY <1>3 DEF Logged
  <2> QED BY <2>1
<1>5. SeqOf(m) <= Q.hi /\ (Q.lo < m.seq => Q.at[m.seq].id = IdOf(m))
  <2>1. SeqOf(m) <= Q.hi
    BY <1>3
  <2> QED BY <1>3, <1>4, <2>1
<1>6. Covered(Q, "served", t, g)
  <2>1. CASE t.conn = "open"
    <3>1. n <= R.hi
      BY <1>1, <2>1, StartBounded
    <3> QED BY <1>1, <1>3, <3>1, CoveredStamp
  <2>2. CASE t.conn # "open"
    BY <2>2 DEF Covered
  <2> QED BY <2>1, <2>2
<1>7. Acks(t, g)
  BY <1>1, <1>3, AcksAppend
<1>8. g[Len(f) + 1] = m
  BY <1>3, NewsAppend, 0 \in Nat
<1>9. Sent(Q, t, g, u)
  <2>1. CASE t.stray
    BY <2>1 DEF Sent
  <2>2. CASE ~t.stray
    <3>1. ASSUME NEW i \in DOMAIN u, u[i].t = "op"
          PROVE  \/ ~Settles(n, g, Len(f) + 1, u[i].op.id)
                 \/ u[i].base <= Q.hi /\ u[i].base < Q.lo
                 \/ /\ u[i].base <= Q.hi
                    /\ \E s \in Logged(Q) : u[i].base < s /\ Q.at[s].id = u[i].op.id
      <4>1. u[i].base <= R.hi
        BY <1>1, <2>2, <3>1 DEF Sent, Unanswered
      <4>2. u[i].base \in Nat
        <5>1. u[i] \in UpMsg(O)
          BY ElementOfSeq
        <5> QED BY <3>1, <5>1 DEF UpMsg
      <4>3. CASE ~Settles(n, g, Len(f) + 1, u[i].op.id)
        BY <4>3
      <4>4. CASE Settles(n, g, Len(f) + 1, u[i].op.id)
        <5>1. u[i].op.id = o.id
          BY <1>8, <4>4 DEF Settles
        <5>2. u[i].base <= Q.hi /\ u[i].base < R.hi + 1
          BY <1>3, <4>1, <4>2
        <5>3. CASE Q.lo < R.hi + 1
          BY <1>4, <5>1, <5>2, <5>3
        <5>4. CASE ~(Q.lo < R.hi + 1)
          <6>1. u[i].base < Q.lo
            BY <1>3, <4>2, <5>2, <5>4
          <6> QED BY <5>2, <6>1
        <5> QED BY <5>3, <5>4
      <4> QED BY <4>3, <4>4
    <3>2. Sent(Q, t, f, u)
      BY <1>2 DEF Stands
    <3>3. \A i \in DOMAIN u : \E j \in DOMAIN u : u[j] = u[i]
      OBVIOUS
    <3> HIDE DEF g, n
    <3>4. \A i \in DOMAIN u : u[i].t = "op" =>
            /\ \E j \in DOMAIN u : u[j] = u[i]
            /\ \/ ~Settles(n, g, Len(f) + 1, u[i].op.id)
               \/ u[i].base <= Q.hi /\ u[i].base < Q.lo
               \/ /\ u[i].base <= Q.hi
                  /\ \E s \in Logged(Q) : u[i].base < s /\ Q.at[s].id = u[i].op.id
      BY <3>1, <3>3
    <3> QED BY <1>3, <3>2, <3>4, SentAppend DEF g, n
  <2> QED BY <2>1, <2>2
<1> QED BY <1>2, <1>3, <1>5, <1>6, <1>7, <1>9, StandsTold

(* An operation takes its place, and its author is told.                   *)
LEMMA StandsOwnStamped ==
    ASSUME NEW O, NEW R, IsOrder(O, R), NEW Q, IsOrder(O, Q), Grows(R, Q), Q.hi = R.hi + 1,
           NEW o, \A s \in Logged(Q) : s = R.hi + 1 => Q.at[s] = o,
           NEW e, NEW t \in TabOf(O),
           NEW f \in Seq(DownMsg(O)), NEW m \in DownMsg(O),
           NEW u \in Seq(UpMsg(O)), NEW l \in Seq(UpMsg(O)), Stands(R, e, "served", t, f, u, l),
           t.synced, m.t = "ack", m.id = o.id, m.seq = R.hi + 1,
           \A i \in DOMAIN u : u[i].t = "op" => u[i].op.id # o.id,
           ~t.stray => /\ Has(t.pending, o.id)
                       /\ \A k \in DOMAIN f : ~Settles(Start(t, f), f, k, o.id)
    PROVE  Stands(Q, e, "served", t, Append(f, m), u, l)
PROOF
<1> DEFINE g == Append(f, m)
           n == Start(t, f)
<1>1. /\ Flow(e, t, f, u) /\ Based(R, e, t) /\ Placed(R, f) /\ Covered(R, "served", t, f)
      /\ Acks(t, f)
  BY DEF Stands
<1>2. Stands(Q, e, "kicked", t, f, u, l)
  BY StandsKicked
<1>3. /\ R.lo \in Nat /\ R.hi \in Nat /\ Q.lo \in Nat /\ Q.hi \in Nat /\ R.lo <= Q.lo
      /\ SeqOf(m) = m.seq /\ Placing(m) /\ m.t # "welcome" /\ IdOf(m) = o.id
  BY GrowsEntries DEF SeqOf, Placing, IdOf
<1>4. Q.lo < R.hi + 1 => R.hi + 1 \in Logged(Q) /\ Q.at[R.hi + 1] = o
  <2>1. Q.lo < R.hi + 1 => R.hi + 1 \in Logged(Q)
    BY <1>3 DEF Logged
  <2> QED BY <2>1
<1>5. SeqOf(m) <= Q.hi /\ (Q.lo < m.seq => Q.at[m.seq].id = IdOf(m))
  <2>1. SeqOf(m) <= Q.hi
    BY <1>3
  <2> QED BY <1>3, <1>4, <2>1
<1>6. t.conn = "open" /\ n <= R.hi /\ n \in Nat
  <2>1. t.conn = "open"
    BY <1>1 DEF Flow
  <2> QED BY <1>1, <2>1, StartBounded
<1>7. Covered(Q, "served", t, g)
  BY <1>1, <1>3, <1>6, CoveredStamp
<1>8. /\ g[Len(f) + 1] = m /\ \A k \in DOMAIN f : g[k] = f[k]
      /\ DOMAIN f = 1..Len(f) /\ Len(f) \in Nat
  BY <1>3, NewsAppend, MsgsType
<1>9. News(n, g, Len(f) + 1)
  <2>1. n < SeqOf(m)
    BY <1>3, <1>6
  <2>2. ASSUME NEW j \in 1..((Len(f) + 1) - 1)
        PROVE  SeqOf(g[j]) < SeqOf(m)
    <3>1. j \in DOMAIN f /\ g[j] = f[j]
      BY <1>8
    <3>2. SeqOf(f[j]) <= R.hi /\ SeqOf(f[j]) \in Nat
      BY <1>1, <3>1, MsgsType DEF Placed
    <3> QED BY <1>3, <3>1, <3>2
  <2> QED BY <1>8, <2>1, <2>2 DEF News
<1>10. Acks(t, g)
  <2>1. CASE t.stray
    BY <2>1 DEF Acks
  <2>2. CASE ~t.stray
    <3>1. Has(t.pending, m.id) /\ \A k \in DOMAIN f : ~Settles(n, f, k, m.id)
      BY <2>2
    <3> QED BY <1>1, <1>9, <3>1, AcksAppendAck
  <2> QED BY <2>1, <2>2
<1>11. \A i \in DOMAIN u : u[i].t = "op" => ~Settles(n, g, Len(f) + 1, u[i].op.id)
  BY <1>8 DEF Settles
<1>12. Sent(Q, t, f, u)
  BY <1>2 DEF Stands
<1>13. Sent(Q, t, g, u)
  BY <1>3, <1>11, <1>12, SentAppend
<1> QED BY <1>2, <1>3, <1>5, <1>6, <1>7, <1>10, <1>13, StandsTold

(* What is not stale does not overwrite what its author had not seen.      *)
LEMMA OrderlyStamp ==
    ASSUME NEW O, NEW R, IsOrder(O, R), NEW Q, IsOrder(O, Q), Grows(R, Q), Q.hi = R.hi + 1,
           NEW o, \A s \in Logged(Q) : s = R.hi + 1 => Q.at[s] = o,
           NEW b \in Nat, SawOk(R, o, b), Orderly(R),
           \A s \in Logged(R) : b < s => R.at[s].by = o.by \/ o.cells \cap R.at[s].cells = {}
    PROVE  Orderly(Q)
PROOF
<1>1. /\ R.lo \in Nat /\ R.hi \in Nat /\ Q.lo \in Nat /\ Q.hi \in Nat
      /\ \A s \in Logged(Q) : s \in Nat /\ R.lo < s /\ s <= Q.hi
  BY GrowsEntries
<1>2. SUFFICES ASSUME NEW s \in Logged(Q), Q.at[s].saw # NoDeck, NEW x \in Q.at[s].cells,
                      NEW r \in Logged(Q), LastWrite(Q, r, s - 1, x)
               PROVE  Q.at[r].by = Q.at[s].by \/ Q.at[r].id = Q.at[s].saw[x]
  BY DEF Orderly
<1>3. s - 1 \in Nat /\ s - 1 <= R.hi
  BY <1>1
<1>4. LastWrite(R, r, s - 1, x) /\ r \in Logged(R) /\ Q.at[r] = R.at[r]
  BY <1>2, <1>3, LastWriteGrows
<1>5. CASE s <= R.hi
  <2>1. s \in Logged(R) /\ Q.at[s] = R.at[s]
    BY <1>5, GrowsEntries
  <2> QED BY <1>2, <1>4, <2>1 DEF Orderly
<1>6. CASE ~(s <= R.hi)
  <2>1. s = R.hi + 1 /\ s - 1 = R.hi
    BY <1>1, <1>6
  <2>2. Q.at[s] = o
    BY <2>1
  <2>3. r \in Nat
    BY <1>1
  <2>4. CASE b < r
    <3>1. x \in R.at[r].cells
      BY <1>4 DEF LastWrite
    <3> QED BY <1>2, <1>4, <2>2, <2>4, <3>1
  <2>5. CASE ~(b < r)
    <3>1. b <= R.hi /\ o.saw # NoDeck
      BY <1>2, <2>2 DEF SawOk
    <3>2. \A q \in Logged(R) : q \in Nat /\ q <= R.hi
      BY <1>1 DEF Logged
    <3>3. LastWrite(R, r, b, x)
      <4>1. r <= b
        BY <2>3, <2>5
      <4>2. \A q \in Logged(R) : q <= b => q <= s - 1
        BY <1>1, <2>1, <3>1, <3>2
      <4> QED BY <1>4, <4>1, <4>2 DEF LastWrite
    <3> QED BY <1>2, <1>4, <2>2, <3>1, <3>3 DEF SawOk
  <2> QED BY <2>4, <2>5
<1> QED BY <1>5, <1>6

-----------------------------------------------------------------------------
(* The hub.                                                                *)

LEMMA ClientTyped ==
    ASSUME NEW O, TypeInv(O), NEW d \in Clients
    PROVE  /\ O \subseteq Op /\ NetTyped(O) /\ RoomTyped(O) /\ epoch \in Nat
           /\ IsOrder(O, Order) /\ Order.hi = Seqno /\ Order.lo = base
           /\ tab[d] \in TabOf(O) /\ up[d] \in Seq(UpMsg(O)) /\ late[d] \in Seq(UpMsg(O))
           /\ catchUp[d] \in Seq(DownMsg(O)) /\ out[d] \in Seq(DownMsg(O))
           /\ Msgs(d) \in Seq(DownMsg(O))
           /\ d \in peers <=> tab[d].conn # "closed"
           /\ Loading(tab[d], fetch[d])
           /\ Kicked(d) \in {"kicked", "served"}
PROOF
<1>1. O \subseteq Op /\ NetTyped(O) /\ RoomTyped(O) /\ TabsTyped(O) /\ Sockets
  BY DEF TypeInv
<1>2. IsOrder(O, Order) /\ Order.hi = Seqno /\ Order.lo = base
  BY <1>1, OrderTyped
<1>3. /\ up[d] \in Seq(UpMsg(O)) /\ late[d] \in Seq(UpMsg(O))
      /\ catchUp[d] \in Seq(DownMsg(O)) /\ out[d] \in Seq(DownMsg(O))
  BY <1>1 DEF NetTyped
<1>4. Msgs(d) \in Seq(DownMsg(O))
  BY <1>3, ConcatProperties DEF Msgs
<1>5. tab[d] \in TabOf(O) /\ epoch \in Nat
  BY <1>1 DEF TabsTyped, RoomTyped
<1>6. (d \in peers <=> tab[d].conn # "closed") /\ Loading(tab[d], fetch[d])
  BY <1>1 DEF Sockets
<1>7. Kicked(d) \in {"kicked", "served"}
  BY DEF Kicked
<1> QED BY <1>1, <1>2, <1>3, <1>4, <1>5, <1>6, <1>7

Line(p, q) == p \o q

LEMMA LineAppend ==
    ASSUME NEW O, NEW p \in Seq(DownMsg(O)), NEW q \in Seq(DownMsg(O)), NEW m \in DownMsg(O)
    PROVE  Line(p, Append(q, m)) = Append(Line(p, q), m)
BY DEF Line

(* A message of an enqueue arrives, or its peer is kicked.                 *)
LEMMA Delivered ==
    ASSUME NEW O, TypeInv(O), NEW msgs, DOMAIN msgs \subseteq peers,
           \A d \in DOMAIN msgs : msgs[d] \in DownMsg(O), Enqueue(msgs), catchUp' = catchUp,
           NEW d \in Clients
    PROVE  \/ /\ Msgs(d)' = Msgs(d) /\ Kicked(d)' \in {Kicked(d), "kicked"}
              /\ d \in DOMAIN msgs => Kicked(d)' = "kicked"
           \/ /\ d \in DOMAIN msgs /\ Kicked(d) = "served" /\ Kicked(d)' = "served"
              /\ Msgs(d)' = Append(Msgs(d), msgs[d])
PROOF
<1>1. NetTyped(O) /\ catchUp[d] \in Seq(DownMsg(O)) /\ out[d] \in Seq(DownMsg(O))
  BY ClientTyped
<1>2. cut \subseteq cut'
  BY <1>1, EnqueueEffect
<1>3. \/ out'[d] = out[d] /\ (d \in DOMAIN msgs => d \in cut')
      \/ d \in DOMAIN msgs /\ d \notin cut' /\ out'[d] = Append(out[d], msgs[d])
  BY <1>1, EnqueueEffect
<1>4. CASE out'[d] = out[d] /\ (d \in DOMAIN msgs => d \in cut')
  <2>1. Msgs(d)' = Msgs(d)
    BY <1>4 DEF Msgs
  <2>2. Kicked(d)' \in {Kicked(d), "kicked"} /\ (d \in DOMAIN msgs => Kicked(d)' = "kicked")
    BY <1>2, <1>4 DEF Kicked
  <2> QED BY <2>1, <2>2
<1>5. CASE d \in DOMAIN msgs /\ d \notin cut' /\ out'[d] = Append(out[d], msgs[d])
  <2>1. Kicked(d) = "served" /\ Kicked(d)' = "served"
    BY <1>2, <1>5 DEF Kicked
  <2>2. msgs[d] \in DownMsg(O)
    BY <1>5
  <2>3. Line(catchUp[d], Append(out[d], msgs[d])) = Append(Line(catchUp[d], out[d]), msgs[d])
    <3>1. \A p, q \in Seq(DownMsg(O)) : \A m \in DownMsg(O) :
             Line(p, Append(q, m)) = Append(Line(p, q), m)
      BY LineAppend
    <3>2. catchUp[d] \in Seq(DownMsg(O)) /\ out[d] \in Seq(DownMsg(O))
      BY <1>1
    <3> QED BY <2>2, <3>1, <3>2
  <2>4. Msgs(d) = Line(catchUp[d], out[d]) /\ Msgs(d)' = Line(catchUp[d], out'[d])
    BY DEF Msgs, Line
  <2>5. Msgs(d)' = Append(Msgs(d), msgs[d])
    BY <1>5, <2>3, <2>4, Zenon
  <2> QED BY <1>5, <2>1, <2>5
<1> QED BY <1>3, <1>4, <1>5

(* What the sender's tab and the rest of its messages are when the hub     *)
(* reads m of it: v is what it has yet to read from the socket.            *)
Sender(R, t, f, m, v) ==
    m.t = "op" =>
        /\ t.synced
        /\ \A i \in DOMAIN v : v[i].t = "op" => v[i].op.id # m.op.id
        /\ ~t.stray => Unanswered(R, t, f, m)

LEMMA SavedStands ==
    ASSUME NEW O, TypeInv(O), NEW m \in UpMsg(O), Saved(m), catchUp' = catchUp,
           NEW d \in Clients, NEW v \in Seq(UpMsg(O)), NEW l \in Seq(UpMsg(O)),
           Stands(Order, epoch, Kicked(d), tab[d], Msgs(d), v, l)
    PROVE  Stands(Order', epoch, Kicked(d)', tab[d], Msgs(d)', v, l)
PROOF
<1>1. O \subseteq Op /\ RoomTyped(O) /\ IsOrder(O, Order)
      /\ tab[d] \in TabOf(O) /\ Msgs(d) \in Seq(DownMsg(O))
  BY ClientTyped
<1>2. IsOrder(O, Order') /\ Grows(Order, Order') /\ Order'.hi = Order.hi
  BY <1>1, SavedOrder
<1>3. \A s \in Logged(Order') : s <= Order.hi
  BY <1>1, <1>2, GrowsEntries
<1>4. Stands(Order', epoch, Kicked(d), tab[d], Msgs(d), v, l)
  BY <1>1, <1>2, <1>3, StandsGrows
<1>5. Kicked(d)' = Kicked(d) /\ Msgs(d)' = Msgs(d)
  BY DEF Saved, Kicked, Msgs
<1> QED BY <1>4, <1>5

LEMMA RestoredStands ==
    ASSUME NEW O, TypeInv(O), NEW self \in SUBSET peers, NEW m \in UpMsg(O), Restored(self, m),
           catchUp' = catchUp,
           NEW d \in Clients, NEW v \in Seq(UpMsg(O)), NEW l \in Seq(UpMsg(O)),
           Stands(Order, epoch, Kicked(d), tab[d], Msgs(d), v, l)
    PROVE  Stands(Order', epoch, Kicked(d)', tab[d], Msgs(d)', v, l)
PROOF
<1>1. /\ O \subseteq Op /\ RoomTyped(O) /\ IsOrder(O, Order)
      /\ tab[d] \in TabOf(O) /\ Msgs(d) \in Seq(DownMsg(O))
      /\ d \in peers => tab[d].conn # "closed"
  BY ClientTyped
<1>2. log' = <<>> /\ base' = Seqno + 1 /\ m.t = "restored" /\ Enqueue([c \in peers \ self |-> m])
  BY DEF Restored
<1>3. IsOrder(O, Order') /\ Grows(Order, Order') /\ Logged(Order') = {}
  BY <1>1, <1>2, RestoredOrder
<1>4. \A s \in Logged(Order') : s <= Order.hi
  BY <1>3
<1>5. /\ Stands(Order', epoch, Kicked(d), tab[d], Msgs(d), v, l)
      /\ Stands(Order', epoch, "kicked", tab[d], Msgs(d), v, l)
  BY <1>1, <1>3, <1>4, StandsGrows
<1>6. m \in DownMsg(O)
  <2>1. m = [t |-> "restored"]
    BY <1>2 DEF UpMsg
  <2> QED BY <2>1 DEF DownMsg
<1>7. \/ Msgs(d)' = Msgs(d) /\ Kicked(d)' \in {Kicked(d), "kicked"}
      \/ /\ d \in peers /\ Kicked(d) = "served" /\ Kicked(d)' = "served"
         /\ Msgs(d)' = Append(Msgs(d), m)
  <2> DEFINE msgs == [c \in peers \ self |-> m]
  <2>1. DOMAIN msgs = peers \ self /\ \A c \in DOMAIN msgs : msgs[c] = m
    OBVIOUS
  <2> HIDE DEF msgs
  <2> QED BY <1>2, <1>6, <2>1, Delivered DEF msgs
<1>8. CASE Msgs(d)' = Msgs(d) /\ Kicked(d)' \in {Kicked(d), "kicked"}
  BY <1>5, <1>8
<1>9. CASE /\ d \in peers /\ Kicked(d) = "served" /\ Kicked(d)' = "served"
           /\ Msgs(d)' = Append(Msgs(d), m)
  <2>1. Stands(Order', epoch, "served", tab[d], Append(Msgs(d), m), v, l)
    BY <1>1, <1>2, <1>3, <1>5, <1>6, <1>9, StandsReplied
  <2> QED BY <1>9, <2>1
<1> QED BY <1>7, <1>8, <1>9

LEMMA SameOrder ==
    ASSUME UNCHANGED room
    PROVE  Order' = Order /\ epoch' = epoch
BY DEF room, Order

(* A reply to the sender, with the order as it was.                        *)
LEMMA RepliedStands ==
    ASSUME NEW O, TypeInv(O), NEW self \in SUBSET peers, NEW m,
           NEW reply \in DownMsg(O), Enqueue([c \in self |-> reply]), UNCHANGED room,
           \/ reply.t = "reject" /\ reply.id = m.op.id
           \/ /\ reply.t = "ack" /\ reply.id = m.op.id /\ reply.seq \in Logged(Order)
              /\ Order.at[reply.seq].id = m.op.id,
           catchUp' = catchUp, m.t = "op",
           NEW d \in Clients, NEW v \in Seq(UpMsg(O)), NEW l \in Seq(UpMsg(O)),
           Stands(Order, epoch, Kicked(d), tab[d], Msgs(d), v, l),
           d \in self => Sender(Order, tab[d], Msgs(d), m, v)
    PROVE  Stands(Order', epoch, Kicked(d)', tab[d], Msgs(d)', v, l)
PROOF
<1>1. /\ IsOrder(O, Order) /\ tab[d] \in TabOf(O) /\ Msgs(d) \in Seq(DownMsg(O))
      /\ d \in peers => tab[d].conn # "closed"
  BY ClientTyped
<1>2. Order' = Order
  BY SameOrder
<1>3. \/ Msgs(d)' = Msgs(d) /\ Kicked(d)' \in {Kicked(d), "kicked"}
      \/ /\ d \in self /\ Kicked(d) = "served" /\ Kicked(d)' = "served"
         /\ Msgs(d)' = Append(Msgs(d), reply)
  <2> DEFINE msgs == [c \in self |-> reply]
  <2>1. DOMAIN msgs = self /\ \A c \in DOMAIN msgs : msgs[c] = reply
    OBVIOUS
  <2> HIDE DEF msgs
  <2> QED BY <2>1, Delivered DEF msgs
<1>4. CASE Msgs(d)' = Msgs(d) /\ Kicked(d)' \in {Kicked(d), "kicked"}
  <2>1. Stands(Order, epoch, "kicked", tab[d], Msgs(d), v, l)
    BY <1>1, GrowsItself, StandsKicked
  <2> QED BY <1>2, <1>4, <2>1
<1>5. CASE /\ d \in self /\ Kicked(d) = "served" /\ Kicked(d)' = "served"
           /\ Msgs(d)' = Append(Msgs(d), reply)
  <2>1. /\ tab[d].synced /\ tab[d].conn # "closed"
        /\ \A i \in DOMAIN v : v[i].t = "op" => v[i].op.id # reply.id
    BY <1>1, <1>5 DEF Sender
  <2>2. Stands(Order, epoch, "served", tab[d], Append(Msgs(d), reply), v, l)
    <3>1. Stands(Order, epoch, "served", tab[d], Msgs(d), v, l)
      BY <1>5
    <3>2. CASE reply.t = "reject"
      BY <1>1, <2>1, <3>1, <3>2, StandsReplied
    <3>3. CASE reply.t = "ack"
      BY <1>1, <2>1, <3>1, <3>3, StandsAckedAgain
    <3> QED BY <3>2, <3>3
  <2> QED BY <1>2, <1>5, <2>2
<1> QED BY <1>3, <1>4, <1>5

LEMMA EntryOf ==
    ASSUME NEW O, NEW b \in Nat, NEW entries \in Seq(O), NEW R, R = OrderOf(b, entries),
           NEW s \in Logged(R)
    PROVE  \E i \in DOMAIN entries : s = b + i /\ R.at[s] = entries[i]
PROOF
<1>1. Len(entries) \in Nat /\ DOMAIN entries = 1..Len(entries)
  BY LenProperties
<1>2. s \in (b + 1)..(b + Len(entries)) /\ R.at[s] = entries[s - b]
  BY DEF OrderOf, Logged
<1>3. s - b \in DOMAIN entries /\ s = b + (s - b)
  BY <1>1, <1>2
<1> QED BY <1>2, <1>3

(* An operation that is neither resent nor stale.                          *)
LEMMA FitToStamp ==
    ASSUME NEW O, TypeInv(O), NEW m \in UpMsg(O), m.t = "op", ~Resent(m), ~Stale(m)
    PROVE  /\ m.op \in O /\ m.base \in Nat /\ Order.lo <= m.base
           /\ \A s \in Logged(Order) :
                 /\ Order.at[s].id # m.op.id
                 /\ m.base < s => Order.at[s].by = m.op.by \/ m.op.cells \cap Order.at[s].cells = {}
PROOF
<1>1. base \in Nat /\ log \in Seq(O)
  BY DEF TypeInv, RoomTyped
<1>2. m.op \in O /\ m.base \in Nat
  BY DEF UpMsg
<1>3. Order.lo = base /\ Order = OrderOf(base, log)
  BY DEF Order, OrderOf
<1>4. base <= m.base
  BY <1>1, <1>2 DEF Stale
<1>5. ASSUME NEW s \in Logged(Order)
      PROVE  /\ Order.at[s].id # m.op.id
             /\ m.base < s => Order.at[s].by = m.op.by \/ m.op.cells \cap Order.at[s].cells = {}
  <2>1. \E i \in DOMAIN log : s = base + i /\ Order.at[s] = log[i]
    BY <1>1, <1>3, EntryOf
  <2>2. PICK i \in DOMAIN log : s = base + i /\ Order.at[s] = log[i]
    BY <2>1
  <2>3. log[i].id # m.op.id
    BY DEF Resent
  <2>4. i \in Nat
    BY <1>1, LenProperties
  <2>5. m.base < base + i => base + i > m.base
    BY <1>1, <1>2, <2>4
  <2>6. m.base < s => log[i].by = m.op.by \/ m.op.cells \cap log[i].cells = {}
    BY <2>2, <2>5 DEF Stale, Overlap
  <2> QED BY <2>2, <2>3, <2>6
<1> QED BY <1>2, <1>3, <1>4, <1>5

LEMMA StampStands ==
    ASSUME NEW O, TypeInv(O), NEW self \in SUBSET peers, NEW m \in UpMsg(O), Stamp(self, m),
           catchUp' = catchUp,
           NEW d \in Clients, NEW v \in Seq(UpMsg(O)), NEW l \in Seq(UpMsg(O)),
           Stands(Order, epoch, Kicked(d), tab[d], Msgs(d), v, l),
           d \in self => Sender(Order, tab[d], Msgs(d), m, v)
    PROVE  Stands(Order', epoch, Kicked(d)', tab[d], Msgs(d)', v, l)
PROOF
<1> DEFINE ack == [t |-> "ack", id |-> m.op.id, seq |-> Seqno + 1]
           news == [t |-> "stamped", op |-> m.op, seq |-> Seqno + 1]
           msgs == [c \in peers |-> IF c \in self THEN ack ELSE news]
<1>1. /\ O \subseteq Op /\ RoomTyped(O) /\ IsOrder(O, Order) /\ Order.hi = Seqno /\ Order.lo = base
      /\ tab[d] \in TabOf(O) /\ Msgs(d) \in Seq(DownMsg(O))
      /\ d \in peers => tab[d].conn # "closed"
  BY ClientTyped
<1>2. /\ m.t = "op" /\ ~Resent(m) /\ ~Stale(m)
      /\ Trim(Append(log, m.op), savedSeq) /\ Enqueue(msgs)
  BY DEF Stamp
<1>3. /\ m.op \in O /\ m.base \in Nat /\ Order.lo <= m.base
      /\ \A s \in Logged(Order) : Order.at[s].id # m.op.id
  BY <1>2, FitToStamp
<1>4. /\ IsOrder(O, Order') /\ Grows(Order, Order') /\ Order'.hi = Order.hi + 1
      /\ \A s \in Logged(Order') : s = Order.hi + 1 => Order'.at[s] = m.op
  BY <1>1, <1>2, <1>3, StampOrder
<1>5. ack \in DownMsg(O) /\ news \in DownMsg(O)
  <2>1. Seqno + 1 \in Nat /\ m.op.id \in Ids(O)
    <3>1. Seqno \in Nat
      BY <1>1 DEF IsOrder
    <3> QED BY <1>3, <3>1 DEF Ids
  <2> QED BY <1>3, <2>1 DEF DownMsg
<1>6. /\ ack.t = "ack" /\ ack.id = m.op.id /\ ack.seq = Order.hi + 1
      /\ news.t = "stamped" /\ news.op = m.op /\ news.seq = Order.hi + 1
  BY <1>1
<1>7. /\ DOMAIN msgs = peers
      /\ \A c \in peers : msgs[c] = IF c \in self THEN ack ELSE news
  OBVIOUS
<1> HIDE DEF ack, news, msgs
<1>8. \A c \in DOMAIN msgs : msgs[c] \in DownMsg(O)
  BY <1>5, <1>7
<1>9. \/ /\ Msgs(d)' = Msgs(d) /\ Kicked(d)' \in {Kicked(d), "kicked"}
         /\ d \in peers => Kicked(d)' = "kicked"
      \/ /\ d \in peers /\ Kicked(d) = "served" /\ Kicked(d)' = "served"
         /\ Msgs(d)' = Append(Msgs(d), msgs[d])
  BY <1>2, <1>7, <1>8, Delivered
<1>10. CASE /\ Msgs(d)' = Msgs(d) /\ Kicked(d)' \in {Kicked(d), "kicked"}
            /\ d \in peers => Kicked(d)' = "kicked"
  <2>1. Stands(Order', epoch, "kicked", tab[d], Msgs(d), v, l)
    BY <1>1, <1>4, StandsKicked
  <2>2. CASE d \in peers
    BY <1>10, <2>1, <2>2
  <2>3. CASE d \notin peers
    <3>1. tab[d].conn = "closed"
      BY <2>3, ClientTyped
    <3>2. \A k : Stands(Order', epoch, "kicked", tab[d], Msgs(d), v, l)
                  => Stands(Order', epoch, k, tab[d], Msgs(d), v, l)
      BY <3>1 DEF Stands, Covered
    <3> QED BY <1>10, <2>1, <3>2
  <2> QED BY <2>2, <2>3
<1>11. CASE /\ d \in peers /\ Kicked(d) = "served" /\ Kicked(d)' = "served"
            /\ Msgs(d)' = Append(Msgs(d), msgs[d])
  <2>1. Stands(Order, epoch, "served", tab[d], Msgs(d), v, l)
    BY <1>11
  <2>2. CASE d \notin self
    <3>1. msgs[d] = news
      BY <1>7, <1>11, <2>2
    <3>2. Stands(Order', epoch, "served", tab[d], Append(Msgs(d), news), v, l)
      BY <1>1, <1>4, <1>5, <1>6, <1>11, <2>1, StandsStamped
    <3> QED BY <1>11, <3>1, <3>2
  <2>3. CASE d \in self
    <3>1. msgs[d] = ack
      BY <1>7, <1>11, <2>3
    <3>2. /\ tab[d].synced
          /\ \A i \in DOMAIN v : v[i].t = "op" => v[i].op.id # m.op.id
          /\ ~tab[d].stray => Unanswered(Order, tab[d], Msgs(d), m)
      BY <1>2, <2>3 DEF Sender
    <3>3. ~tab[d].stray =>
            /\ Has(tab[d].pending, m.op.id)
            /\ \A k \in DOMAIN Msgs(d) : ~Settles(Start(tab[d], Msgs(d)), Msgs(d), k, m.op.id)
      <4>1. ~(m.base < Order.lo)
        BY <1>1, <1>3 DEF IsOrder
      <4> QED BY <1>3, <3>2, <4>1 DEF Unanswered
    <3>4. Stands(Order', epoch, "served", tab[d], Append(Msgs(d), ack), v, l)
      BY <1>1, <1>4, <1>5, <1>6, <2>1, <3>2, <3>3, StandsOwnStamped
    <3> QED BY <1>11, <3>1, <3>4
  <2> QED BY <2>2, <2>3
<1> QED BY <1>9, <1>10, <1>11

LEMMA RouteStands ==
    ASSUME NEW O, TypeInv(O), NEW self \in SUBSET peers, NEW m \in UpMsg(O), Route(self, m),
           catchUp' = catchUp,
           NEW d \in Clients, NEW v \in Seq(UpMsg(O)), NEW l \in Seq(UpMsg(O)),
           Stands(Order, epoch, Kicked(d), tab[d], Msgs(d), v, l),
           d \in self => Sender(Order, tab[d], Msgs(d), m, v)
    PROVE  Stands(Order', epoch', Kicked(d)', tab[d], Msgs(d)', v, l)
PROOF
<1>1. CASE Saved(m)
  <2>1. Stands(Order', epoch, Kicked(d)', tab[d], Msgs(d)', v, l)
    BY <1>1, SavedStands
  <2> QED BY <1>1, <2>1 DEF Saved
<1>2. CASE Restored(self, m)
  <2>1. Stands(Order', epoch, Kicked(d)', tab[d], Msgs(d)', v, l)
    BY <1>2, RestoredStands
  <2> QED BY <1>2, <2>1 DEF Restored
<1>3. CASE AckAgain(self, m)
  <2>1. PICK i \in DOMAIN log :
           /\ log[i].id = m.op.id
           /\ Enqueue([c \in self |-> [t |-> "ack", id |-> m.op.id, seq |-> base + i]])
    BY <1>3 DEF AckAgain
  <2> DEFINE reply == [t |-> "ack", id |-> m.op.id, seq |-> base + i]
  <2>2. m.t = "op" /\ m.op \in O /\ UNCHANGED room
    BY <1>3 DEF AckAgain, Resent, UpMsg
  <2>3. base + i \in Nat /\ base + i \in Logged(Order) /\ Order.at[base + i].id = m.op.id
    <3>1. RoomTyped(O)
      BY ClientTyped
    <3>2. base + i \in Nat
      <4>1. i \in Nat /\ base \in Nat
        BY <3>1, LenProperties DEF RoomTyped
      <4> QED BY <4>1
    <3>3. Numbered(Order, base, log)
      BY <3>1, OrderTyped
    <3> QED BY <2>1, <3>2, <3>3 DEF Numbered
  <2>4. /\ reply \in DownMsg(O) /\ reply.t = "ack" /\ reply.id = m.op.id
        /\ reply.seq \in Logged(Order) /\ Order.at[reply.seq].id = m.op.id
    <3>1. m.op.id \in Ids(O)
      BY <2>2 DEF Ids
    <3> QED BY <2>3, <3>1 DEF DownMsg
  <2>5. Enqueue([c \in self |-> reply])
    BY <2>1
  <2> HIDE DEF reply
  <2>6. Stands(Order', epoch, Kicked(d)', tab[d], Msgs(d)', v, l)
    BY <2>2, <2>4, <2>5, RepliedStands
  <2> QED BY <2>2, <2>6 DEF room
<1>4. CASE Reject(self, m)
  <2> DEFINE reply == [t |-> "reject", id |-> m.op.id]
  <2>1. m.t = "op" /\ m.op \in O /\ UNCHANGED room /\ Enqueue([c \in self |-> reply])
    BY <1>4 DEF Reject, UpMsg
  <2>2. reply \in DownMsg(O) /\ reply.t = "reject" /\ reply.id = m.op.id
    <3>1. m.op.id \in Ids(O)
      BY <2>1 DEF Ids
    <3> QED BY <3>1 DEF DownMsg
  <2> HIDE DEF reply
  <2>3. Stands(Order', epoch, Kicked(d)', tab[d], Msgs(d)', v, l)
    BY <2>1, <2>2, RepliedStands
  <2> QED BY <2>1, <2>3 DEF room
<1>5. CASE Stamp(self, m)
  <2>1. Stands(Order', epoch, Kicked(d)', tab[d], Msgs(d)', v, l)
    BY <1>5, StampStands
  <2> QED BY <1>5, <2>1 DEF Stamp
<1> QED BY <1>1, <1>2, <1>3, <1>4, <1>5 DEF Route

LEMMA OrderlyGrows ==
    ASSUME NEW O, NEW R, IsOrder(O, R), NEW Q, IsOrder(O, Q), Grows(R, Q),
           \A s \in Logged(Q) : s <= R.hi, Orderly(R)
    PROVE  Orderly(Q)
PROOF
<1>1. SUFFICES ASSUME NEW s \in Logged(Q), Q.at[s].saw # NoDeck, NEW x \in Q.at[s].cells,
                      NEW r \in Logged(Q), LastWrite(Q, r, s - 1, x)
               PROVE  Q.at[r].by = Q.at[s].by \/ Q.at[r].id = Q.at[s].saw[x]
  BY DEF Orderly
<1>2. s \in Logged(R) /\ Q.at[s] = R.at[s]
  BY GrowsEntries
<1>3. s - 1 \in Nat /\ s - 1 <= R.hi
  <2>1. s \in Nat /\ R.lo \in Nat /\ R.lo < s /\ s <= R.hi /\ R.hi \in Nat
    BY GrowsEntries
  <2> QED BY <2>1
<1>4. LastWrite(R, r, s - 1, x) /\ r \in Logged(R) /\ Q.at[r] = R.at[r]
  BY <1>1, <1>3, LastWriteGrows
<1> QED BY <1>1, <1>2, <1>4 DEF Orderly

LEMMA RouteOrderly ==
    ASSUME NEW O, TypeInv(O), NEW self, NEW m \in UpMsg(O), Route(self, m), Orderly(Order),
           m.t = "op" => SawOk(Order, m.op, m.base)
    PROVE  Orderly(Order')
PROOF
<1>1. O \subseteq Op /\ RoomTyped(O) /\ IsOrder(O, Order)
  <2>1. O \subseteq Op /\ RoomTyped(O)
    BY DEF TypeInv
  <2> QED BY <2>1, OrderTyped
<1>2. CASE Saved(m)
  <2>1. IsOrder(O, Order') /\ Grows(Order, Order') /\ Order'.hi = Order.hi
    BY <1>1, <1>2, SavedOrder
  <2>2. \A s \in Logged(Order') : s <= Order.hi
    BY <1>1, <2>1, GrowsEntries
  <2> QED BY <1>1, <2>1, <2>2, OrderlyGrows
<1>3. CASE Restored(self, m)
  <2>1. Logged(Order') = {}
    BY <1>1, <1>3, RestoredOrder DEF Restored
  <2> QED BY <2>1 DEF Orderly
<1>4. CASE AckAgain(self, m) \/ Reject(self, m)
  BY <1>4, SameOrder DEF AckAgain, Reject
<1>5. CASE Stamp(self, m)
  <2>1. m.t = "op" /\ ~Resent(m) /\ ~Stale(m) /\ Trim(Append(log, m.op), savedSeq)
    BY <1>5 DEF Stamp
  <2>2. /\ m.op \in O /\ m.base \in Nat
        /\ \A s \in Logged(Order) : m.base < s =>
              Order.at[s].by = m.op.by \/ m.op.cells \cap Order.at[s].cells = {}
    BY <2>1, FitToStamp
  <2>3. /\ IsOrder(O, Order') /\ Grows(Order, Order') /\ Order'.hi = Order.hi + 1
        /\ \A s \in Logged(Order') : s = Order.hi + 1 => Order'.at[s] = m.op
    BY <1>1, <2>1, <2>2, StampOrder
  <2> QED BY <1>1, <2>1, <2>2, <2>3, OrderlyStamp
<1> QED BY <1>2, <1>3, <1>4, <1>5 DEF Route

-----------------------------------------------------------------------------
(* The steps.                                                              *)

LEMMA OrderGiven ==
    ASSUME InOrder, NEW d \in Clients
    PROVE  /\ Orderly(Order) /\ Quiet(d)
           /\ Stands(Order, epoch, Kicked(d), tab[d], Msgs(d), up[d], late[d])
BY DEF InOrder, Follows

LEMMA OrderMade ==
    ASSUME Orderly(Order'),
           \A d \in Clients : Quiet(d)',
           \A d \in Clients :
              Stands(Order', epoch', Kicked(d)', tab'[d], Msgs(d)', up'[d], late'[d])
    PROVE  InOrder'
BY DEF InOrder, Follows

LEMMA ReadInOrder ==
    ASSUME NEW O, TypeInv(O), InOrder, NEW c \in Clients, Read(c)
    PROVE  InOrder'
PROOF
<1> DEFINE m == Head(up[c])
<1>1. /\ up[c] # <<>> /\ Route({c}, m) /\ up' = [up EXCEPT ![c] = Tail(@)]
      /\ UNCHANGED <<peers, ghosts, late, catchUp, tab>> /\ tab[c].conn # "closed"
  BY DEF Read
<1>2. NetTyped(O) /\ {c} \in SUBSET peers /\ up[c] \in Seq(UpMsg(O))
  BY <1>1, ClientTyped
<1>3. /\ m = up[c][1] /\ m \in UpMsg(O) /\ 1 \in DOMAIN up[c]
      /\ \A i \in DOMAIN Tail(up[c]) :
            i + 1 \in DOMAIN up[c] /\ i + 1 # 1 /\ Tail(up[c])[i] = up[c][i + 1]
  BY <1>1, <1>2, TailEntries
<1>4. Stands(Order, epoch, Kicked(c), tab[c], Msgs(c), up[c], late[c]) /\ Orderly(Order)
  BY OrderGiven
<1>5. up'[c] = Tail(up[c]) /\ \A d \in Clients \ {c} : up'[d] = up[d]
  BY <1>1, <1>2 DEF NetTyped
<1> HIDE DEF m
<1>6. m.t = "op" => SawOk(Order, m.op, m.base)
  BY <1>3, <1>4 DEF Stands, SawAll
<1>7. Orderly(Order')
  BY <1>1, <1>3, <1>4, <1>6, RouteOrderly
<1>8. Sender(Order, tab[c], Msgs(c), m, Tail(up[c]))
  <2>1. SUFFICES ASSUME m.t = "op"
                 PROVE  /\ tab[c].synced
                        /\ \A i \in DOMAIN Tail(up[c]) :
                              Tail(up[c])[i].t = "op" => Tail(up[c])[i].op.id # m.op.id
                        /\ ~tab[c].stray => Unanswered(Order, tab[c], Msgs(c), m)
    BY DEF Sender
  <2>2. tab[c].synced
    BY <1>3, <1>4, <2>1 DEF Stands, Flow
  <2>3. ASSUME NEW i \in DOMAIN Tail(up[c]), Tail(up[c])[i].t = "op"
        PROVE  Tail(up[c])[i].op.id # m.op.id
    BY <1>3, <1>4, <2>1, <2>3 DEF Stands, Distinct
  <2>4. ~tab[c].stray => Unanswered(Order, tab[c], Msgs(c), m)
    BY <1>3, <1>4, <2>1 DEF Stands, Sent
  <2> QED BY <2>2, <2>3, <2>4
<1>9. ASSUME NEW d \in Clients
      PROVE  /\ Quiet(d)'
             /\ Stands(Order', epoch', Kicked(d)', tab'[d], Msgs(d)', up'[d], late'[d])
  <2>1. Quiet(d)'
    BY <1>1, OrderGiven DEF Quiet
  <2>2. up[d] \in Seq(UpMsg(O)) /\ late[d] \in Seq(UpMsg(O))
    BY ClientTyped
  <2>3. Fewer(up[d], up'[d]) /\ Fewer(late[d], late[d])
    BY <1>1, <1>5 DEF Fewer
  <2>4. up'[d] \in Seq(UpMsg(O))
    BY <2>2, <2>3, FewerEntries
  <2>5. Stands(Order, epoch, Kicked(d), tab[d], Msgs(d), up[d], late[d])
    BY OrderGiven
  <2>6. Stands(Order, epoch, Kicked(d), tab[d], Msgs(d), up'[d], late[d])
    BY <2>2, <2>3, <2>5, StandsFewer
  <2>7. d \in {c} => Sender(Order, tab[d], Msgs(d), m, up'[d])
    BY <1>5, <1>8
  <2>8. Stands(Order', epoch', Kicked(d)', tab[d], Msgs(d)', up'[d], late[d])
    BY <1>1, <1>2, <1>3, <2>2, <2>4, <2>6, <2>7, RouteStands
  <2> QED BY <1>1, <2>1, <2>8
<1> QED BY <1>7, <1>9, OrderMade

LEMMA ReadLateInOrder ==
    ASSUME NEW O, TypeInv(O), InOrder, NEW c \in Clients, ReadLate(c)
    PROVE  InOrder'
PROOF
<1> DEFINE m == Head(late[c])
<1>1. /\ c \in ghosts /\ late[c] # <<>> /\ Route({}, m) /\ late' = [late EXCEPT ![c] = Tail(@)]
      /\ UNCHANGED <<peers, ghosts, up, catchUp, tab>>
  BY DEF ReadLate
<1>2. NetTyped(O) /\ {} \in SUBSET peers /\ late[c] \in Seq(UpMsg(O))
  BY <1>1, ClientTyped
<1>3. /\ m = late[c][1] /\ m \in UpMsg(O) /\ 1 \in DOMAIN late[c]
  BY <1>1, <1>2, TailEntries
<1>4. Stands(Order, epoch, Kicked(c), tab[c], Msgs(c), up[c], late[c]) /\ Orderly(Order)
  BY OrderGiven
<1>5. late'[c] = Tail(late[c]) /\ \A d \in Clients \ {c} : late'[d] = late[d]
  BY <1>1, <1>2 DEF NetTyped
<1> HIDE DEF m
<1>6. m.t = "op" => SawOk(Order, m.op, m.base)
  BY <1>3, <1>4 DEF Stands, SawAll
<1>7. Orderly(Order')
  BY <1>1, <1>3, <1>4, <1>6, RouteOrderly
<1>9. ASSUME NEW d \in Clients
      PROVE  /\ Quiet(d)'
             /\ Stands(Order', epoch', Kicked(d)', tab'[d], Msgs(d)', up'[d], late'[d])
  <2>1. Quiet(d)'
    <3>1. Quiet(d)
      BY OrderGiven
    <3> QED BY <1>1, <1>5, <3>1 DEF Quiet
  <2>2. up[d] \in Seq(UpMsg(O)) /\ late[d] \in Seq(UpMsg(O))
    BY ClientTyped
  <2>3. Fewer(late[d], late'[d]) /\ Fewer(up[d], up[d])
    BY <1>1, <1>5 DEF Fewer
  <2>4. late'[d] \in Seq(UpMsg(O))
    BY <2>2, <2>3, FewerEntries
  <2>5. Stands(Order, epoch, Kicked(d), tab[d], Msgs(d), up[d], late[d])
    BY OrderGiven
  <2>6. Stands(Order, epoch, Kicked(d), tab[d], Msgs(d), up[d], late'[d])
    BY <2>2, <2>3, <2>5, StandsFewer
  <2>7. d \in {} => Sender(Order, tab[d], Msgs(d), m, up[d])
    OBVIOUS
  <2>8. Stands(Order', epoch', Kicked(d)', tab[d], Msgs(d)', up[d], late'[d])
    BY <1>1, <1>2, <1>3, <2>2, <2>4, <2>6, <2>7, RouteStands
  <2> QED BY <1>1, <2>1, <2>8
<1> QED BY <1>7, <1>9, OrderMade

(* A step that concerns one client only, and not the order.                *)
LEMMA OneMoves ==
    ASSUME NEW O, TypeInv(O), InOrder, UNCHANGED <<epoch, log, base>>, NEW c \in Clients,
           \A d \in Clients \ {c} :
              /\ tab'[d] = tab[d] /\ catchUp'[d] = catchUp[d] /\ out'[d] = out[d]
              /\ up'[d] = up[d] /\ late'[d] = late[d]
              /\ d \in cut' <=> d \in cut
              /\ d \in ghosts' <=> d \in ghosts,
           Quiet(c)',
           Stands(Order, epoch, Kicked(c)', tab'[c], Msgs(c)', up'[c], late'[c])
    PROVE  InOrder'
PROOF
<1>1. Order' = Order /\ epoch' = epoch
  BY DEF Order
<1>2. Orderly(Order')
  BY <1>1 DEF InOrder
<1>3. ASSUME NEW d \in Clients \ {c}
      PROVE  /\ Quiet(d)'
             /\ Stands(Order', epoch', Kicked(d)', tab'[d], Msgs(d)', up'[d], late'[d])
  <2>1. Quiet(d) /\ Stands(Order, epoch, Kicked(d), tab[d], Msgs(d), up[d], late[d])
    BY OrderGiven
  <2>2. Quiet(d)'
    BY <2>1 DEF Quiet
  <2>3. Kicked(d)' = Kicked(d) /\ Msgs(d)' = Msgs(d)
    BY DEF Kicked, Msgs
  <2>4. tab'[d] = tab[d] /\ up'[d] = up[d] /\ late'[d] = late[d]
    OBVIOUS
  <2> QED BY <1>1, <2>1, <2>2, <2>3, <2>4
<1>4. Stands(Order', epoch', Kicked(c)', tab'[c], Msgs(c)', up'[c], late'[c])
  BY <1>1
<1>5. \A d \in Clients : Quiet(d)'
  BY <1>3
<1>6. \A d \in Clients :
         Stands(Order', epoch', Kicked(d)', tab'[d], Msgs(d)', up'[d], late'[d])
  BY <1>3, <1>4
<1> QED BY <1>2, <1>5, <1>6, OrderMade

LEMMA NobodyMoves ==
    ASSUME InOrder, UNCHANGED <<epoch, log, base, tab, catchUp, out, up, late, cut, ghosts>>
    PROVE  InOrder'
PROOF
<1>1. Order' = Order /\ epoch' = epoch
  BY DEF Order
<1>2. Orderly(Order')
  BY <1>1 DEF InOrder
<1>3. ASSUME NEW d \in Clients
      PROVE  /\ Quiet(d)'
             /\ Stands(Order', epoch', Kicked(d)', tab'[d], Msgs(d)', up'[d], late'[d])
  <2>1. Quiet(d) /\ Stands(Order, epoch, Kicked(d), tab[d], Msgs(d), up[d], late[d])
    BY OrderGiven
  <2>2. Quiet(d)'
    BY <2>1 DEF Quiet
  <2>3. Kicked(d)' = Kicked(d) /\ Msgs(d)' = Msgs(d)
    BY DEF Kicked, Msgs
  <2> QED BY <1>1, <2>1, <2>2, <2>3
<1> QED BY <1>2, <1>3, OrderMade

LEMMA RemoveInOrder ==
    ASSUME NEW O, TypeInv(O), InOrder, NEW c \in Clients, Remove(c)
    PROVE  InOrder'
PROOF
<1>1. /\ ghosts' = ghosts \ {c} /\ late' = [late EXCEPT ![c] = <<>>]
      /\ UNCHANGED <<epoch, log, base>> /\ UNCHANGED <<catchUp, out, cut, up, tab>>
  BY DEF Remove, room
<1>2. late'[c] = <<>> /\ \A d \in Clients \ {c} : late'[d] = late[d]
  BY <1>1 DEF TypeInv, NetTyped
<1>3. Quiet(c) /\ Stands(Order, epoch, Kicked(c), tab[c], Msgs(c), up[c], late[c])
  BY OrderGiven
<1>4. Quiet(c)'
  BY <1>1, <1>2, <1>3 DEF Quiet
<1>5. SawAll(Order, late'[c])
  BY <1>2 DEF SawAll
<1>6. Kicked(c)' = Kicked(c) /\ Msgs(c)' = Msgs(c)
  BY <1>1 DEF Kicked, Msgs
<1>7. Stands(Order, epoch, Kicked(c)', tab'[c], Msgs(c)', up'[c], late'[c])
  BY <1>1, <1>3, <1>5, <1>6 DEF Stands
<1> QED BY <1>1, <1>2, <1>4, <1>7, OneMoves

(* A message that is not an operation goes up.                             *)
LEMMA StandsReporting ==
    ASSUME NEW O, NEW R, NEW e, NEW kicked, NEW t, NEW f, NEW u \in Seq(UpMsg(O)),
           NEW l, NEW m \in UpMsg(O), m.t # "op", t.conn # "closed",
           Stands(R, e, kicked, t, f, u, l)
    PROVE  Stands(R, e, kicked, t, f, Append(u, m), l)
PROOF
<1> DEFINE v == Append(u, m)
<1>1. /\ DOMAIN v = 1..(Len(u) + 1) /\ Len(u) \in Nat /\ DOMAIN u = 1..Len(u)
      /\ v[Len(u) + 1] = m /\ \A i \in DOMAIN u : v[i] = u[i]
  BY AppendProperties, LenProperties
<1>2. \A i \in DOMAIN v : v[i].t = "op" => i \in DOMAIN u /\ v[i] = u[i]
  <2>1. \A i \in DOMAIN v : i \in DOMAIN u \/ i = Len(u) + 1
    BY <1>1
  <2> QED BY <1>1, <2>1
<1> HIDE DEF v
<1>3. Flow(e, t, f, v)
  BY <1>2 DEF Stands, Flow
<1>4. Distinct(t, v)
  BY <1>2 DEF Stands, Distinct
<1>5. Sent(R, t, f, v)
  BY <1>2 DEF Stands, Sent
<1>6. SawAll(R, v)
  BY <1>2 DEF Stands, SawAll
<1> QED BY <1>3, <1>4, <1>5, <1>6 DEF Stands, v

LEMMA SaveDoneInOrder ==
    ASSUME NEW O, TypeInv(O), InOrder, NEW c \in Clients, SaveDone(c)
    PROVE  InOrder'
PROOF
<1> DEFINE m == [t |-> "saved", seq |-> saving[c].seq]
<1>1. /\ UNCHANGED <<epoch, log, base>> /\ UNCHANGED <<catchUp, out, cut, tab, late, ghosts>>
      /\ \/ up' = up
         \/ tab[c].conn # "closed" /\ up' = [up EXCEPT ![c] = Append(@, m)]
  BY DEF SaveDone, room
<1>2. m \in UpMsg(O) /\ m.t # "op"
  BY DEF TypeInv, TabsTyped, UpMsg
<1> HIDE DEF m
<1>3. CASE up' = up
  BY <1>1, <1>3, NobodyMoves
<1>4. CASE tab[c].conn # "closed" /\ up' = [up EXCEPT ![c] = Append(@, m)]
  <2>1. up'[c] = Append(up[c], m) /\ \A d \in Clients \ {c} : up'[d] = up[d]
    BY <1>4 DEF TypeInv, NetTyped
  <2>2. Quiet(c) /\ Stands(Order, epoch, Kicked(c), tab[c], Msgs(c), up[c], late[c])
    BY OrderGiven
  <2>3. up[c] \in Seq(UpMsg(O))
    BY ClientTyped
  <2>4. Stands(Order, epoch, Kicked(c), tab[c], Msgs(c), up'[c], late[c])
    BY <1>2, <1>4, <2>1, <2>2, <2>3, StandsReporting
  <2>5. Kicked(c)' = Kicked(c) /\ Msgs(c)' = Msgs(c)
    BY <1>1 DEF Kicked, Msgs
  <2>6. Quiet(c)'
    BY <1>1, <2>2 DEF Quiet
  <2>7. Stands(Order, epoch, Kicked(c)', tab'[c], Msgs(c)', up'[c], late'[c])
    BY <1>1, <2>4, <2>5
  <2> QED BY <1>1, <2>1, <2>6, <2>7, OneMoves
<1> QED BY <1>1, <1>3, <1>4

(* A lost socket: what was sent on it is read late, or not at all.         *)
ClosedTab(t) == [t EXCEPT !.conn = "closed", !.synced = FALSE]

LEMMA StandsClosed ==
    ASSUME NEW O, NEW R, NEW e, NEW kicked, NEW t \in TabOf(O), NEW f, NEW u, NEW l,
           Stands(R, e, kicked, t, f, u, l),
           NEW v, v = ClosedTab(t), NEW k, SawAll(R, k), NEW now
    PROVE  Stands(R, e, now, v, <<>>, <<>>, k)
PROOF
<1>1. /\ v.conn = "closed" /\ ~v.synced /\ v.epoch = t.epoch /\ v.lastSeq = t.lastSeq
      /\ v.fresh = t.fresh /\ v.stray = t.stray /\ v.pending = t.pending
      /\ v.confirmed = t.confirmed /\ v.buffered = t.buffered
  BY DEF TabOf, ClosedTab
<1>2. Flow(e, v, <<>>, <<>>)
  BY <1>1 DEF Stands, Flow, Greeted
<1>3. Distinct(v, <<>>) /\ Based(R, e, v) /\ Ahead(R, e, v)
  BY <1>1 DEF Stands, Distinct, Based, Ahead
<1>4. Held(R, e, v) /\ Seen(R, e, v)
  BY <1>1 DEF Stands, Held, View, Seen
<1>5. /\ Placed(R, <<>>) /\ Covered(R, now, v, <<>>) /\ Acks(v, <<>>) /\ Sent(R, v, <<>>, <<>>)
      /\ SawAll(R, <<>>)
  BY <1>1 DEF Placed, Covered, Acks, Sent, SawAll
<1> QED BY <1>2, <1>3, <1>4, <1>5 DEF Stands

(* A tab that has just been loaded holds nothing.                          *)
LEMMA StandsNew ==
    ASSUME NEW R, R.hi \in Nat, NEW e \in Nat, NEW born, NEW ids, NEW now, NEW l, SawAll(R, l),
           NEW v, v = NewTab(born, ids),
           \A s \in Logged(R) : s \in Nat /\ 0 < s
    PROVE  Stands(R, e, now, v, <<>>, <<>>, l)
PROOF
<1>1. /\ v.conn = "closed" /\ ~v.synced /\ v.epoch = 0 /\ v.lastSeq = 0
      /\ v.pending = <<>> /\ v.buffered = <<>>
  BY DEF NewTab
<1>2. Flow(e, v, <<>>, <<>>)
  BY <1>1 DEF Flow, Greeted
<1>3. Distinct(v, <<>>) /\ Based(R, e, v) /\ Ahead(R, e, v) /\ Seen(R, e, v)
  BY <1>1 DEF Distinct, Based, Ahead, Seen, Has
<1>4. Held(R, e, v)
  <2>1. \A s \in Logged(R), x \in Cells : ~LastWrite(R, s, 0, x)
    BY DEF LastWrite
  <2> QED BY <1>1, <2>1 DEF Held
<1>5. /\ Placed(R, <<>>) /\ Covered(R, now, v, <<>>) /\ Acks(v, <<>>) /\ Sent(R, v, <<>>, <<>>)
      /\ SawAll(R, <<>>)
  BY <1>1 DEF Placed, Covered, Acks, Sent, SawAll
<1> QED BY <1>2, <1>3, <1>4, <1>5 DEF Stands

LEMMA PositiveSeqs ==
    ASSUME NEW O, NEW R, IsOrder(O, R)
    PROVE  R.hi \in Nat /\ \A s \in Logged(R) : s \in Nat /\ 0 < s
BY DEF IsOrder, Logged

LEMMA LoseEffect ==
    ASSUME NEW O, TypeInv(O), InOrder, NEW c \in Clients, NEW sent, Lose(c, sent),
           SawAll(Order, sent)
    PROVE  /\ Msgs(c)' = <<>> /\ up'[c] = <<>> /\ catchUp'[c] = <<>>
           /\ SawAll(Order, late'[c])
           /\ c \notin ghosts' => late'[c] = <<>>
           /\ \A d \in Clients \ {c} :
                 /\ catchUp'[d] = catchUp[d] /\ out'[d] = out[d]
                 /\ up'[d] = up[d] /\ late'[d] = late[d]
                 /\ d \in cut' <=> d \in cut
                 /\ d \in ghosts' <=> d \in ghosts
PROOF
<1>1. /\ late \in [Clients -> Seq(UpMsg(O))] /\ up \in [Clients -> Seq(UpMsg(O))]
      /\ catchUp \in [Clients -> Seq(DownMsg(O))] /\ out \in [Clients -> Seq(DownMsg(O))]
  BY DEF TypeInv, NetTyped
<1>2. /\ up'[c] = <<>> /\ catchUp'[c] = <<>> /\ out'[c] = <<>>
      /\ \A d \in Clients \ {c} :
            catchUp'[d] = catchUp[d] /\ out'[d] = out[d] /\ up'[d] = up[d]
  BY <1>1 DEF Lose
<1>3. Msgs(c)' = <<>>
  <2>1. <<>> \o <<>> = <<>>
    OBVIOUS
  <2>2. Msgs(c)' = catchUp'[c] \o out'[c]
    BY DEF Msgs
  <2> QED BY <1>2, <2>1, <2>2
<1>4. Quiet(c) /\ SawAll(Order, late[c])
  BY OrderGiven DEF Stands
<1>5. /\ SawAll(Order, late'[c]) /\ (c \notin ghosts' => late'[c] = <<>>)
      /\ \A d \in Clients \ {c} : late'[d] = late[d]
  <2>1. CASE c \in peers
    BY <1>1, <2>1 DEF Lose
  <2>2. CASE c \notin peers
    BY <1>4, <2>2 DEF Lose, Quiet
  <2> QED BY <2>1, <2>2
<1>6. \A d \in Clients \ {c} : (d \in cut' <=> d \in cut) /\ (d \in ghosts' <=> d \in ghosts)
  BY DEF Lose
<1> QED BY <1>2, <1>3, <1>5, <1>6

LEMMA CloseInOrder ==
    ASSUME NEW O, TypeInv(O), InOrder, NEW c \in Clients, Close(c)
    PROVE  InOrder'
PROOF
<1>1. /\ Lose(c, up[c]) /\ UNCHANGED <<epoch, log, base>>
      /\ tab' = [tab EXCEPT ![c].conn = "closed", ![c].synced = FALSE]
  BY DEF Close, room
<1>2. tab[c] \in TabOf(O) /\ tab \in [Clients -> TabOf(O)]
  BY ClientTyped DEF TypeInv, TabsTyped
<1>3. /\ tab'[c] = ClosedTab(tab[c])
      /\ \A d \in Clients \ {c} : tab'[d] = tab[d]
  BY <1>1, <1>2 DEF ClosedTab
<1>4. Stands(Order, epoch, Kicked(c), tab[c], Msgs(c), up[c], late[c])
  BY OrderGiven
<1>5. SawAll(Order, up[c])
  BY <1>4 DEF Stands
<1>6. /\ Msgs(c)' = <<>> /\ up'[c] = <<>> /\ catchUp'[c] = <<>>
      /\ SawAll(Order, late'[c])
      /\ c \notin ghosts' => late'[c] = <<>>
      /\ \A d \in Clients \ {c} :
            /\ catchUp'[d] = catchUp[d] /\ out'[d] = out[d]
            /\ up'[d] = up[d] /\ late'[d] = late[d]
            /\ d \in cut' <=> d \in cut
            /\ d \in ghosts' <=> d \in ghosts
  BY <1>1, <1>5, LoseEffect
<1>7. Stands(Order, epoch, Kicked(c)', tab'[c], <<>>, <<>>, late'[c])
  BY <1>2, <1>3, <1>4, <1>6, StandsClosed
<1>8. Quiet(c)'
  BY <1>6 DEF Quiet
<1> QED BY <1>1, <1>3, <1>6, <1>7, <1>8, OneMoves

LEMMA ReloadInOrder ==
    ASSUME NEW O, TypeInv(O), InOrder, NEW c \in Clients, NEW sent, Reload(c, sent),
           SawAll(Order, sent), UNCHANGED room
    PROVE  InOrder'
PROOF
<1>1. /\ Lose(c, sent) /\ UNCHANGED <<epoch, log, base>>
      /\ tab' = [tab EXCEPT ![c] = NewTab(@.born + 1, @.settled \cup PendingIds(@.pending))]
  BY DEF Reload, room
<1>2. tab \in [Clients -> TabOf(O)] /\ IsOrder(O, Order) /\ epoch \in Nat
  BY ClientTyped DEF TypeInv, TabsTyped
<1>3. /\ tab'[c] = NewTab(tab[c].born + 1, tab[c].settled \cup PendingIds(tab[c].pending))
      /\ \A d \in Clients \ {c} : tab'[d] = tab[d]
  BY <1>1, <1>2
<1>4. /\ Msgs(c)' = <<>> /\ up'[c] = <<>> /\ catchUp'[c] = <<>>
      /\ SawAll(Order, late'[c])
      /\ c \notin ghosts' => late'[c] = <<>>
      /\ \A d \in Clients \ {c} :
            /\ catchUp'[d] = catchUp[d] /\ out'[d] = out[d]
            /\ up'[d] = up[d] /\ late'[d] = late[d]
            /\ d \in cut' <=> d \in cut
            /\ d \in ghosts' <=> d \in ghosts
  BY <1>1, LoseEffect
<1>5. Order.hi \in Nat /\ \A s \in Logged(Order) : s \in Nat /\ 0 < s
  BY <1>2, PositiveSeqs
<1>6. Stands(Order, epoch, Kicked(c)', tab'[c], <<>>, <<>>, late'[c])
  BY <1>2, <1>3, <1>4, <1>5, StandsNew
<1>7. Quiet(c)'
  BY <1>4 DEF Quiet
<1> QED BY <1>1, <1>3, <1>4, <1>6, <1>7, OneMoves

LEMMA RestoreInOrder ==
    ASSUME NEW O, TypeInv(O), InOrder, NEW c \in Clients, Restore(c)
    PROVE  InOrder'
PROOF
<1> DEFINE m == [t |-> "restored"]
<1>1. /\ UNCHANGED room
      /\ Reload(c, IF tab[c].conn = "closed" THEN up[c] ELSE Append(up[c], m))
  BY DEF Restore
<1>2. up[c] \in Seq(UpMsg(O)) /\ m \in UpMsg(O) /\ m.t # "op"
  BY ClientTyped DEF UpMsg
<1> HIDE DEF m
<1>3. Stands(Order, epoch, Kicked(c), tab[c], Msgs(c), up[c], late[c])
  BY OrderGiven
<1>4. SawAll(Order, up[c])
  BY <1>3 DEF Stands
<1>5. CASE tab[c].conn = "closed"
  BY <1>1, <1>4, <1>5, ReloadInOrder
<1>6. CASE tab[c].conn # "closed"
  <2>1. Stands(Order, epoch, Kicked(c), tab[c], Msgs(c), Append(up[c], m), late[c])
    BY <1>2, <1>3, <1>6, StandsReporting
  <2>2. SawAll(Order, Append(up[c], m))
    BY <2>1 DEF Stands
  <2>3. Reload(c, Append(up[c], m))
    BY <1>1, <1>6
  <2> QED BY <1>1, <2>2, <2>3, ReloadInOrder
<1> QED BY <1>5, <1>6

LEMMA ReceiveRestoredInOrder ==
    ASSUME NEW O, TypeInv(O), InOrder, NEW c \in Clients, ReceiveRestored(c)
    PROVE  InOrder'
PROOF
<1>1. UNCHANGED room /\ Reload(c, up[c])
  BY DEF ReceiveRestored
<1>2. SawAll(Order, up[c])
  BY OrderGiven DEF Stands
<1> QED BY <1>1, <1>2, ReloadInOrder

(* A socket dialed.                                                        *)
AddedTab(t) == [t EXCEPT !.conn = "added"]

LEMMA StandsAdded ==
    ASSUME NEW O, NEW R, NEW e, NEW kicked, NEW t \in TabOf(O), NEW f, NEW u, NEW l,
           Stands(R, e, kicked, t, f, u, l), t.conn = "closed", NEW now
    PROVE  Stands(R, e, now, AddedTab(t), f, u, l)
PROOF
<1> DEFINE v == AddedTab(t)
<1>1. /\ v.conn = "added" /\ v.synced = t.synced /\ v.epoch = t.epoch /\ v.lastSeq = t.lastSeq
      /\ v.fresh = t.fresh /\ v.stray = t.stray /\ v.pending = t.pending
      /\ v.confirmed = t.confirmed /\ v.buffered = t.buffered
  BY DEF TabOf, AddedTab
<1> HIDE DEF v
<1>2. f = <<>> /\ u = <<>> /\ ~t.synced /\ t.epoch <= e
  BY DEF Stands, Flow
<1>3. Flow(e, v, f, u)
  BY <1>1, <1>2 DEF Flow, Greeted
<1>4. Distinct(v, u) /\ Based(R, e, v) /\ Ahead(R, e, v)
  BY <1>1 DEF Stands, Distinct, Based, Ahead
<1>5. Held(R, e, v) /\ Seen(R, e, v)
  BY <1>1 DEF Stands, Held, View, Seen
<1>6. Covered(R, now, v, f) /\ Acks(v, f) /\ Sent(R, v, f, u)
  BY <1>1, <1>2 DEF Covered, Acks, Sent
<1> QED BY <1>3, <1>4, <1>5, <1>6 DEF Stands, v

(* A new room, which no tab knows yet.                                     *)
LEMMA StandsNewRoom ==
    ASSUME NEW O, NEW R, NEW e \in Nat, NEW kicked, NEW t \in TabOf(O), NEW f, NEW u, NEW l,
           Stands(R, e, kicked, t, f, u, l), t.conn = "closed", l = <<>>,
           NEW Q, NEW now
    PROVE  Stands(Q, e + 1, now, t, f, u, l)
PROOF
<1>1. f = <<>> /\ u = <<>> /\ ~t.synced /\ t.epoch <= e /\ Distinct(t, u)
  BY DEF Stands, Flow
<1>2. t.epoch \in Nat
  BY DEF TabOf
<1>3. t.epoch <= e + 1 /\ t.epoch # e + 1
  BY <1>1, <1>2
<1>4. Flow(e + 1, t, f, u)
  BY <1>1, <1>3 DEF Flow, Greeted
<1>5. Based(Q, e + 1, t) /\ Ahead(Q, e + 1, t) /\ Held(Q, e + 1, t) /\ Seen(Q, e + 1, t)
  BY <1>3 DEF Based, Ahead, Held, Seen
<1>6. /\ Placed(Q, f) /\ Covered(Q, now, t, f) /\ Acks(t, f) /\ Sent(Q, t, f, u)
      /\ SawAll(Q, u) /\ SawAll(Q, l)
  BY <1>1 DEF Placed, Covered, Acks, Sent, SawAll
<1> QED BY <1>1, <1>4, <1>5, <1>6 DEF Stands

LEMMA EmptyOrder ==
    ASSUME NEW R, R = OrderOf(0, <<>>)
    PROVE  Orderly(R)
PROOF
<1>1. R.lo = 0 /\ R.hi = 0
  BY EmptySeq DEF OrderOf
<1>2. Logged(R) = {}
  BY <1>1 DEF Logged
<1> QED BY <1>2 DEF Orderly

LEMMA DialInOrder ==
    ASSUME NEW O, TypeInv(O), InOrder, NEW c \in Clients, Dial(c)
    PROVE  InOrder'
PROOF
<1>1. /\ tab[c].conn = "closed" /\ tab' = [tab EXCEPT ![c].conn = "added"]
      /\ UNCHANGED <<ghosts, late, catchUp, out, cut, up>>
  BY DEF Dial
<1>2. tab \in [Clients -> TabOf(O)] /\ tab[c] \in TabOf(O)
  BY ClientTyped DEF TypeInv, TabsTyped
<1>3. tab'[c] = AddedTab(tab[c]) /\ \A d \in Clients \ {c} : tab'[d] = tab[d]
  BY <1>1, <1>2 DEF AddedTab
<1>4. CASE peers \cup ghosts = {}
  <2>1. epoch' = epoch + 1 /\ log' = <<>> /\ base' = 0
    BY <1>4 DEF Dial
  <2>2. Orderly(Order')
    <3>1. Order' = OrderOf(0, <<>>)
      BY <2>1 DEF Order
    <3> QED BY <3>1, EmptyOrder
  <2>3. ASSUME NEW d \in Clients
        PROVE  /\ Quiet(d)'
               /\ Stands(Order', epoch', Kicked(d)', tab'[d], Msgs(d)', up'[d], late'[d])
    <3>1. Quiet(d) /\ Stands(Order, epoch, Kicked(d), tab[d], Msgs(d), up[d], late[d])
      BY OrderGiven
    <3>2. /\ tab[d] \in TabOf(O) /\ epoch \in Nat
          /\ d \in peers <=> tab[d].conn # "closed"
      BY ClientTyped
    <3>3. d \notin peers /\ d \notin ghosts
      BY <1>4
    <3>4. tab[d].conn = "closed" /\ late[d] = <<>> /\ catchUp[d] = <<>>
      BY <3>1, <3>2, <3>3 DEF Quiet
    <3>5. Quiet(d)'
      BY <1>1, <3>4 DEF Quiet
    <3>6. Msgs(d)' = Msgs(d)
      BY <1>1 DEF Msgs
    <3>7. Stands(Order', epoch', "served", tab[d], Msgs(d), up[d], late[d])
      BY <2>1, <3>1, <3>2, <3>4, StandsNewRoom
    <3>8. \A now : Stands(Order', epoch', now, tab[d], Msgs(d), up[d], late[d])
      BY <2>1, <3>1, <3>2, <3>4, StandsNewRoom
    <3>9. \A now : Stands(Order', epoch', now, tab'[d], Msgs(d), up[d], late[d])
      <4>1. CASE d = c
        <5>1. \A now : Stands(Order', epoch', now, AddedTab(tab[d]), Msgs(d), up[d], late[d])
          BY <3>2, <3>4, <3>7, StandsAdded
        <5> QED BY <1>3, <4>1, <5>1
      <4>2. CASE d # c
        BY <1>3, <3>8, <4>2
      <4> QED BY <4>1, <4>2
    <3> QED BY <1>1, <3>5, <3>6, <3>9
  <2> QED BY <2>2, <2>3, OrderMade
<1>5. CASE ~(peers \cup ghosts = {})
  <2>1. UNCHANGED <<epoch, log, base>>
    BY <1>5 DEF Dial, room
  <2>2. Quiet(c) /\ Stands(Order, epoch, Kicked(c), tab[c], Msgs(c), up[c], late[c])
    BY OrderGiven
  <2>3. Quiet(c)'
    BY <1>1, <2>2 DEF Quiet
  <2>4. Stands(Order, epoch, Kicked(c)', tab'[c], Msgs(c), up[c], late[c])
    BY <1>1, <1>2, <1>3, <2>2, StandsAdded
  <2>5. Msgs(c)' = Msgs(c)
    BY <1>1 DEF Msgs
  <2>6. Stands(Order, epoch, Kicked(c)', tab'[c], Msgs(c)', up'[c], late'[c])
    BY <1>1, <2>4, <2>5
  <2> QED BY <1>1, <1>3, <2>1, <2>3, <2>6, OneMoves
<1> QED BY <1>4, <1>5

(* The entries of the order after the b-th.                                *)
Replays(R, b, missed, n) ==
    \A i \in 1..n : missed[i] = [t |-> "stamped", op |-> R.at[b + i], seq |-> b + i]

(* What a socket gets after a join: the catch-up, then what the hub has    *)
(* queued for it already.                                                  *)
Joins(g, w, n, missed, s, f) ==
    /\ Len(g) = n + 2 + Len(f) /\ g[1] = w /\ g[n + 2] = s
    /\ \A k \in 2..(n + 1) : g[k] = missed[k - 1]
    /\ \A k \in 1..Len(f) : g[k + (n + 2)] = f[k]

LEMMA JoinsLine ==
    ASSUME NEW O, NEW w \in DownMsg(O), NEW n \in Nat,
           NEW missed \in [1..n -> DownMsg(O)], NEW s \in DownMsg(O), NEW f \in Seq(DownMsg(O))
    PROVE  LET g == (<<w>> \o missed \o <<s>>) \o f IN
             g \in Seq(DownMsg(O)) /\ Joins(g, w, n, missed, s, f)
PROOF
<1> DEFINE q == <<w>> \o missed \o <<s>>
           g == q \o f
<1>1. /\ q \in Seq(DownMsg(O)) /\ Len(q) = n + 2
      /\ q[1] = w /\ q[n + 2] = s /\ \A k \in 2..(n + 1) : q[k] = missed[k - 1]
  <2>1. q \in Seq(DownMsg(O)) /\ CaughtUp(q, w, n, missed, s)
    BY CatchUpType
  <2> QED BY <2>1 DEF CaughtUp
<1> HIDE DEF q
<1>2. Len(f) \in Nat
  BY LenProperties
<1>3. /\ g \in Seq(DownMsg(O)) /\ Len(g) = n + 2 + Len(f)
      /\ \A k \in 1..(n + 2 + Len(f)) : g[k] = IF k <= n + 2 THEN q[k] ELSE f[k - (n + 2)]
  <2>1. /\ g \in Seq(DownMsg(O)) /\ Len(g) = Len(q) + Len(f)
        /\ \A k \in 1..(Len(q) + Len(f)) : g[k] = IF k <= Len(q) THEN q[k] ELSE f[k - Len(q)]
    BY <1>1, ConcatProperties
  <2> QED BY <1>1, <2>1
<1> HIDE DEF g
<1>4. g[1] = w /\ g[n + 2] = s
  BY <1>1, <1>2, <1>3
<1>5. ASSUME NEW k \in 2..(n + 1)
      PROVE  g[k] = missed[k - 1]
  BY <1>1, <1>2, <1>3
<1>6. ASSUME NEW k \in 1..Len(f)
      PROVE  g[k + (n + 2)] = f[k]
  <2>1. k + (n + 2) \in 1..(n + 2 + Len(f)) /\ ~(k + (n + 2) <= n + 2) /\ (k + (n + 2)) - (n + 2) = k
    BY <1>2
  <2> QED BY <1>3, <2>1
<1> QED BY <1>3, <1>4, <1>5, <1>6 DEF Joins, g, q

(* That is: a welcome, every entry after the b-th, a synced (the z-th      *)
(* message), and what was queued; the entries are news to a tab that       *)
(* starts before them.                                                     *)
Replayed(R, b, w, z, s, f, g, start) ==
    /\ 1 \in DOMAIN g /\ g[1] = w
    /\ \A k \in DOMAIN g : k # 1 =>
          \/ /\ g[k].t = "stamped" /\ g[k].seq \in Logged(R)
             /\ g[k].op = R.at[g[k].seq]
          \/ k = z /\ g[k] = s
          \/ \E j \in DOMAIN f : g[k] = f[j]
    /\ \A r \in Logged(R) : b < r =>
          \E k \in DOMAIN g : News(start, g, k) /\ Placing(g[k]) /\ g[k].seq = r

LEMMA CaughtUpLine ==
    ASSUME NEW O, NEW R, IsOrder(O, R), NEW w \in DownMsg(O), NEW n \in Nat,
           NEW missed, NEW s \in DownMsg(O),
           NEW b \in Nat, R.lo <= b, b + n = R.hi, Replays(R, b, missed, n),
           w.t = "welcome", NEW f \in Seq(DownMsg(O)),
           NEW g \in Seq(DownMsg(O)), Joins(g, w, n, missed, s, f),
           NEW start \in Nat, start <= b, NEW z, z = n + 2
    PROVE  Replayed(R, b, w, z, s, f, g, start)
PROOF
<1>1. /\ Len(g) = n + 2 + Len(f) /\ g[1] = w /\ g[n + 2] = s
      /\ \A k \in 2..(n + 1) : g[k] = missed[k - 1]
      /\ \A k \in 1..Len(f) : g[k + (n + 2)] = f[k]
  BY DEF Joins
<1>2. Len(f) \in Nat /\ DOMAIN f = 1..Len(f)
  BY LenProperties
<1>4. DOMAIN g = 1..(n + 2 + Len(f))
  BY <1>1, LenProperties
<1>5. 1 \in DOMAIN g /\ g[1] = w
  BY <1>1, <1>2, <1>4
<1>6. R.lo \in Nat /\ R.hi \in Nat
  BY DEF IsOrder
<1>7. ASSUME NEW k \in 2..(n + 1)
      PROVE  /\ k \in DOMAIN g /\ g[k].t = "stamped" /\ g[k].seq = b + (k - 1)
             /\ g[k].op = R.at[g[k].seq] /\ g[k].seq \in Logged(R)
             /\ SeqOf(g[k]) = b + (k - 1) /\ Placing(g[k])
  <2>1. k \in 1..(n + 2 + Len(f)) /\ k <= n + 2 /\ k - 1 \in 1..n
    BY <1>2
  <2>2. g[k] = missed[k - 1]
    BY <1>1
  <2>3. g[k] = [t |-> "stamped", op |-> R.at[b + (k - 1)], seq |-> b + (k - 1)]
    BY <2>1, <2>2 DEF Replays
  <2>4. b + (k - 1) \in Logged(R)
    BY <1>6 DEF Logged
  <2> QED BY <1>4, <2>1, <2>3, <2>4 DEF SeqOf, Placing
<1>8. ASSUME NEW k \in DOMAIN g, k # 1
      PROVE  \/ /\ g[k].t = "stamped" /\ g[k].seq \in Logged(R)
                /\ g[k].op = R.at[g[k].seq]
             \/ k = z /\ g[k] = s
             \/ \E j \in DOMAIN f : g[k] = f[j]
  <2>1. k \in Nat /\ 1 <= k /\ k <= n + 2 + Len(f)
    BY <1>2, <1>4
  <2>2. CASE k <= n + 1
    <3>1. k \in 2..(n + 1)
      BY <1>8, <2>1, <2>2
    <3> QED BY <1>7, <3>1
  <2>3. CASE k = n + 2
    BY <1>1, <2>3
  <2>4. CASE k > n + 2
    <3>1. PICK j \in 1..Len(f) : k = j + (n + 2)
      <4>1. k - (n + 2) \in 1..Len(f) /\ k = (k - (n + 2)) + (n + 2)
        BY <1>2, <2>1, <2>4
      <4> QED BY <4>1
    <3>2. g[k] = f[j] /\ j \in DOMAIN f
      BY <1>1, <1>2, <3>1
    <3> QED BY <3>2
  <2> QED BY <2>1, <2>2, <2>3, <2>4
<1>9. ASSUME NEW r \in Logged(R), b < r
      PROVE  \E k \in DOMAIN g : News(start, g, k) /\ Placing(g[k]) /\ g[k].seq = r
  <2> DEFINE k == r - b + 1
  <2>1. r \in Nat /\ r <= R.hi
    BY <1>6 DEF Logged
  <2>2. k \in 2..(n + 1) /\ b + (k - 1) = r
    BY <1>6, <1>9, <2>1
  <2> HIDE DEF k
  <2>3. k \in DOMAIN g /\ g[k].seq = r /\ SeqOf(g[k]) = r /\ Placing(g[k])
    BY <1>7, <2>2
  <2>4. ASSUME NEW j \in 1..(k - 1)
        PROVE  SeqOf(g[j]) < r
    <3>1. CASE j = 1
      <4>1. SeqOf(g[j]) = 0
        BY <1>5, <3>1 DEF SeqOf
      <4> QED BY <1>9, <2>1, <4>1
    <3>2. CASE j # 1
      <4>1. j \in 2..(n + 1) /\ b + (j - 1) < b + (k - 1)
        BY <2>2, <3>2
      <4>2. SeqOf(g[j]) = b + (j - 1)
        BY <1>7, <4>1
      <4> QED BY <2>2, <4>1, <4>2
    <3> QED BY <3>1, <3>2
  <2>5. start < r
    BY <1>9, <2>1
  <2>6. News(start, g, k)
    BY <2>3, <2>4, <2>5 DEF News
  <2> QED BY <2>3, <2>6
<1> QED BY <1>5, <1>8, <1>9 DEF Replayed

OpenTab(t) == [t EXCEPT !.conn = "open"]

LEMMA StandsJoined ==
    ASSUME NEW O, NEW R, IsOrder(O, R), NEW e, NEW kicked, NEW t \in TabOf(O),
           NEW f \in Seq(DownMsg(O)), NEW u, NEW l, Stands(R, e, kicked, t, f, u, l),
           t.conn = "added",
           NEW w \in DownMsg(O), w.t = "welcome", w.epoch = e,
           ~w.fresh => t.epoch = e,
           NEW n \in Nat, NEW missed, NEW s \in DownMsg(O), s.t = "synced", s.seq = R.hi,
           NEW b \in Nat, R.lo <= b, b + n = R.hi, Replays(R, b, missed, n),
           b = IF w.fresh THEN R.lo ELSE t.lastSeq,
           NEW g \in Seq(DownMsg(O)), Joins(g, w, n, missed, s, f)
    PROVE  Stands(R, e, kicked, OpenTab(t), g, u, l)
PROOF
<1> DEFINE v == OpenTab(t)
<1>1. /\ v.conn = "open" /\ v.synced = t.synced /\ v.epoch = t.epoch /\ v.lastSeq = t.lastSeq
      /\ v.fresh = t.fresh /\ v.stray = t.stray /\ v.pending = t.pending
      /\ v.confirmed = t.confirmed /\ v.buffered = t.buffered
  BY DEF TabOf, OpenTab
<1> HIDE DEF v
<1>2. w.fresh \in BOOLEAN /\ t.lastSeq \in Nat /\ R.lo \in Nat /\ R.hi \in Nat
  BY MsgKinds, TabEntries DEF IsOrder
<1> DEFINE start == IF w.fresh THEN 0 ELSE t.lastSeq
           z == n + 2
<1>3. start \in Nat /\ start <= b
  BY <1>2
<1>4. /\ 1 \in DOMAIN g /\ g[1] = w
      /\ \A k \in DOMAIN g : k # 1 =>
            \/ /\ g[k].t = "stamped" /\ g[k].seq \in Logged(R)
               /\ g[k].op = R.at[g[k].seq]
            \/ k = z /\ g[k] = s
            \/ \E j \in DOMAIN f : g[k] = f[j]
      /\ \A r \in Logged(R) : b < r =>
            \E k \in DOMAIN g : News(start, g, k) /\ Placing(g[k]) /\ g[k].seq = r
  <2> HIDE DEF start, z
  <2>1. z = n + 2
    BY DEF z
  <2>2. Replayed(R, b, w, z, s, f, g, start)
    BY <1>3, <2>1, CaughtUpLine
  <2> QED BY <2>2 DEF Replayed
<1> HIDE DEF z
<1>5. Greeted(g) /\ Start(v, g) = IF w.fresh THEN 0 ELSE t.lastSeq
  <2>1. g # <<>>
    BY <1>4
  <2>2. Greeted(g)
    BY <1>4, <2>1 DEF Greeted
  <2> QED BY <1>1, <1>4, <2>2 DEF Start
<1>6. /\ ~t.synced /\ t.epoch <= e
      /\ \A j \in DOMAIN f : f[j].t \notin {"welcome", "synced", "ack", "reject"}
      /\ \A i \in DOMAIN u : u[i].t # "op"
  BY DEF Stands, Flow
<1>7. \A k \in DOMAIN g : k # 1 =>
         /\ g[k].t \notin {"welcome", "ack", "reject"}
         /\ g[k].t = "synced" => k = z
  BY <1>4, <1>6
<1>8. g[1].t = "welcome"
  BY <1>4
<1>9. Flow(e, v, g, u)
  <2>1. \A k \in DOMAIN g : g[k].t = "welcome" =>
           k = 1 /\ g[k].epoch = e /\ (~g[k].fresh => v.epoch = e)
    BY <1>1, <1>4, <1>7
  <2>2. \A k \in DOMAIN g : g[k].t = "synced" =>
           \A j \in DOMAIN g : g[j].t = "synced" => j = k
    BY <1>7, <1>8
  <2>3. \A k \in DOMAIN g : g[k].t \notin {"ack", "reject"}
    BY <1>7, <1>8
  <2> QED BY <1>1, <1>5, <1>6, <2>1, <2>2, <2>3 DEF Flow
<1>10. Distinct(v, u) /\ Based(R, e, v) /\ Ahead(R, e, v)
  BY <1>1 DEF Stands, Distinct, Based, Ahead
<1>11. Held(R, e, v) /\ Seen(R, e, v)
  BY <1>1 DEF Stands, Held, View, Seen
<1>12. Placed(R, g)
  <2>1. SUFFICES ASSUME NEW k \in DOMAIN g
                 PROVE  /\ SeqOf(g[k]) <= R.hi
                        /\ Placing(g[k]) /\ R.lo < g[k].seq => R.at[g[k].seq].id = IdOf(g[k])
    BY DEF Placed
  <2>2. CASE k = 1
    BY <1>2, <1>8, <2>2 DEF SeqOf, Placing
  <2>3. CASE g[k].t = "stamped" /\ g[k].seq \in Logged(R) /\ g[k].op = R.at[g[k].seq]
    BY <1>2, <2>3 DEF SeqOf, IdOf, Logged
  <2>4. CASE g[k] = s
    BY <1>2, <2>4 DEF SeqOf, Placing
  <2>5. CASE \E j \in DOMAIN f : g[k] = f[j]
    <3>1. Placed(R, f)
      BY DEF Stands
    <3> QED BY <2>5, <3>1 DEF Placed
  <2> QED BY <1>4, <2>2, <2>3, <2>4, <2>5
<1>13. Covered(R, kicked, v, g)
  <2>1. SUFFICES ASSUME NEW r \in Logged(R), Start(v, g) < r
                 PROVE  \E k \in DOMAIN g :
                           News(Start(v, g), g, k) /\ Placing(g[k]) /\ g[k].seq = r
    BY DEF Covered
  <2>2. b < r
    <3>1. CASE w.fresh
      BY <1>2, <3>1 DEF Logged
    <3>2. CASE ~w.fresh
      BY <1>5, <2>1, <3>2
    <3> QED BY <3>1, <3>2
  <2> QED BY <1>4, <1>5, <2>2
<1>14. Acks(v, g)
  BY <1>7, <1>8 DEF Acks
<1>15. Sent(R, v, g, u)
  BY <1>6 DEF Sent
<1> QED BY <1>9, <1>10, <1>11, <1>12, <1>13, <1>14, <1>15 DEF Stands, v

Missed(b, entries, from, n) ==
    [i \in 1..n |-> [t |-> "stamped", op |-> entries[from + i], seq |-> b + from + i]]

(* The n messages stand for what comes after the d-th entry.               *)
Spans(O, R, d, n, missed) ==
    /\ n \in Nat /\ d \in Nat /\ R.lo <= d /\ d + n = R.hi
    /\ missed \in [1..n -> DownMsg(O)] /\ Replays(R, d, missed, n)

LEMMA MissedReplays ==
    ASSUME NEW O, NEW b \in Nat, NEW entries \in Seq(O), NEW R, R = OrderOf(b, entries),
           NEW from \in Nat, from <= Len(entries), NEW n, n = Len(entries) - from,
           NEW d, d = b + from
    PROVE  Spans(O, R, d, n, Missed(b, entries, from, n))
PROOF
<1> DEFINE missed == Missed(b, entries, from, n)
<1>1. Len(entries) \in Nat /\ DOMAIN entries = 1..Len(entries)
  BY LenProperties
<1>2. n \in Nat /\ d \in Nat
  BY <1>1
<1>3. IsOrder(O, R) /\ Numbered(R, b, entries)
  BY OrderOfType
<1>4. R.lo <= d /\ d + n = R.hi
  <2>1. R.lo = b /\ R.hi = b + Len(entries)
    BY <1>3 DEF Numbered
  <2> QED BY <1>1, <2>1
<1>5. ASSUME NEW i \in 1..n
      PROVE  /\ missed[i] = [t |-> "stamped", op |-> R.at[d + i], seq |-> d + i]
             /\ [t |-> "stamped", op |-> entries[from + i], seq |-> b + from + i] \in DownMsg(O)
  <2>1. from + i \in DOMAIN entries /\ d + i \in Nat /\ d + i = b + (from + i)
        /\ b + from + i = d + i
    BY <1>1, <1>2
  <2>2. R.at[d + i] = entries[from + i]
    BY <1>3, <2>1 DEF Numbered
  <2>3. entries[from + i] \in O
    BY <1>1, <2>1, ElementOfSeq
  <2>4. [t |-> "stamped", op |-> entries[from + i], seq |-> b + from + i] \in DownMsg(O)
    BY <2>1, <2>3 DEF DownMsg
  <2>5. missed[i] = [t |-> "stamped", op |-> entries[from + i], seq |-> b + from + i]
    BY DEF Missed
  <2> QED BY <2>1, <2>2, <2>4, <2>5
<1>6. missed \in [1..n -> DownMsg(O)]
  BY <1>5 DEF Missed
<1>7. Replays(R, d, missed, n)
  BY <1>5 DEF Replays
<1> QED BY <1>2, <1>4, <1>6, <1>7 DEF Spans

LEMMA JoinInOrder ==
    ASSUME NEW O, TypeInv(O), InOrder, NEW c \in Clients, Join(c)
    PROVE  InOrder'
PROOF
<1> DEFINE since == tab[c].lastSeq
           fresh == tab[c].epoch # epoch \/ since < base \/ since > Seqno
           from == IF fresh THEN 0 ELSE since - base
           n == Len(log) - from
           missed == Missed(base, log, from, n)
           w == [t |-> "welcome", epoch |-> epoch, fresh |-> fresh]
           s == [t |-> "synced", seq |-> Seqno]
           q == <<w>> \o missed \o <<s>>
           g == q \o out[c]
           b == base + from
<1>1. /\ catchUp' = [catchUp EXCEPT ![c] = q]
      /\ tab' = [tab EXCEPT ![c].conn = "open"] /\ tab[c].conn = "added"
      /\ UNCHANGED <<epoch, log, base>> /\ UNCHANGED <<ghosts, late, out, cut, up>>
  BY DEF Join, room, Missed
<1>2. /\ TabsTyped(O) /\ NetTyped(O) /\ RoomTyped(O) /\ tab[c] \in TabOf(O)
      /\ IsOrder(O, Order) /\ out[c] \in Seq(DownMsg(O)) /\ Order.hi = Seqno /\ Order.lo = base
  BY ClientTyped DEF TypeInv
<1>3. log \in Seq(O) /\ base \in Nat /\ epoch \in Nat /\ Order = OrderOf(base, log)
  BY <1>2 DEF RoomTyped, Order
<1>4. since \in Nat /\ Len(log) \in Nat /\ Seqno = base + Len(log) /\ Seqno \in Nat
  BY <1>2, <1>3, LenProperties DEF TabOf, Seqno
<1>5. from \in Nat /\ from <= Len(log)
  BY <1>3, <1>4
<1>6. w \in DownMsg(O) /\ s \in DownMsg(O)
  BY <1>3, <1>4 DEF DownMsg
<1>7. /\ w.t = "welcome" /\ w.epoch = epoch /\ (~w.fresh => tab[c].epoch = epoch)
      /\ s.t = "synced" /\ s.seq = Order.hi
      /\ b = IF w.fresh THEN Order.lo ELSE tab[c].lastSeq
  <2>1. w.t = "welcome" /\ w.epoch = epoch /\ w.fresh = fresh /\ s.t = "synced" /\ s.seq = Seqno
    OBVIOUS
  <2>2. fresh \in BOOLEAN
    OBVIOUS
  <2> HIDE DEF w, s, g, q, missed, n
  <2>3. CASE fresh
    <3>1. from = 0
      BY <2>3
    <3>2. b = base
      BY <1>3, <3>1
    <3> QED BY <1>2, <2>1, <2>3, <3>2
  <2>4. CASE ~fresh
    <3>1. from = since - base /\ tab[c].epoch = epoch
      BY <2>4
    <3>2. b = tab[c].lastSeq
      BY <1>3, <1>4, <3>1
    <3> QED BY <1>2, <2>1, <2>4, <3>1, <3>2
  <2> QED BY <2>2, <2>3, <2>4
<1> HIDE DEF from, n, missed, w, s
<1>8. /\ n \in Nat /\ b \in Nat /\ Order.lo <= b /\ b + n = Order.hi
      /\ missed \in [1..n -> DownMsg(O)] /\ Replays(Order, b, missed, n)
  <2> HIDE DEF b
  <2>1. n = Len(log) - from /\ b = base + from
    BY DEF n, b
  <2>2. Spans(O, Order, b, n, missed)
    BY <1>3, <1>5, <2>1, MissedReplays DEF missed
  <2> QED BY <2>2 DEF Spans
<1>9. g \in Seq(DownMsg(O)) /\ Joins(g, w, n, missed, s, out[c])
  BY <1>2, <1>6, <1>8, JoinsLine
<1>10. Quiet(c) /\ Stands(Order, epoch, Kicked(c), tab[c], Msgs(c), up[c], late[c])
  BY OrderGiven
<1>11. Msgs(c) = out[c]
  <2>1. catchUp[c] = <<>>
    BY <1>1, <1>10 DEF Quiet
  <2>2. <<>> \o out[c] = out[c]
    BY <1>2, ConcatEmptySeq
  <2> QED BY <2>1, <2>2 DEF Msgs
<1> HIDE DEF b, g, q
<1>12. Stands(Order, epoch, Kicked(c), OpenTab(tab[c]), g, up[c], late[c])
  BY <1>1, <1>2, <1>6, <1>7, <1>8, <1>9, <1>10, <1>11, StandsJoined
<1>13. tab'[c] = OpenTab(tab[c]) /\ \A d \in Clients \ {c} : tab'[d] = tab[d]
  BY <1>1, <1>2 DEF OpenTab, TabsTyped
<1>14. catchUp'[c] = q /\ \A d \in Clients \ {c} : catchUp'[d] = catchUp[d]
  BY <1>1, <1>2 DEF NetTyped
<1>15. Msgs(c)' = g
  BY <1>1, <1>14 DEF Msgs, g
<1>16. Quiet(c)'
  <2>1. tab'[c].conn = "open"
    BY <1>2, <1>13 DEF OpenTab, TabOf
  <2> QED BY <1>1, <1>10, <2>1 DEF Quiet
<1>17. Kicked(c)' = Kicked(c)
  BY <1>1 DEF Kicked
<1>18. Stands(Order, epoch, Kicked(c)', tab'[c], Msgs(c)', up'[c], late'[c])
  BY <1>1, <1>12, <1>13, <1>15, <1>17
<1> QED BY <1>1, <1>13, <1>14, <1>16, <1>18, OneMoves

LEMMA SaveStartInOrder ==
    ASSUME InOrder, NEW c \in Clients, SaveStart(c) \/ GetDeck(c)
    PROVE  InOrder'
BY NobodyMoves DEF SaveStart, GetDeck, room, net

(* The deck has arrived.                                                   *)
LEMMA StandsLoaded ==
    ASSUME NEW O, O \subseteq Op, NEW R, IsOrder(O, R), NEW e, NEW kicked, NEW t \in TabOf(O),
           NEW f, NEW u, NEW l, Stands(R, e, kicked, t, f, u, l),
           t.confirmed = NoDeck, NEW deck \in Deck, NEW v \in TabOf(O),
           v.conn = t.conn /\ v.synced = t.synced /\ v.epoch = t.epoch /\ v.lastSeq = t.lastSeq,
           v.fresh = t.fresh /\ v.stray = t.stray /\ v.pending = t.pending,
           v.confirmed = Apply(deck, t.buffered) /\ v.buffered = <<>>
    PROVE  Stands(R, e, kicked, v, f, u, l)
PROOF
<1>1. Flow(e, v, f, u) /\ Distinct(v, u) /\ Based(R, e, v) /\ Ahead(R, e, v) /\ Seen(R, e, v)
  BY DEF Stands, Flow, Distinct, Based, Ahead, Seen
<1>2. Start(v, f) = Start(t, f)
  BY DEF Start
<1>3. Covered(R, kicked, v, f) /\ Acks(v, f) /\ Sent(R, v, f, u)
  BY <1>2 DEF Stands, Covered, Acks, Sent, Unanswered
<1>4. t.buffered \in Seq(Op) /\ v.confirmed \in Deck /\ NoDeck \notin Deck
  <2>1. t.buffered \in Seq(Op)
    BY SeqMonotonic DEF TabOf
  <2>2. NoDeck \notin Deck
    BY SlidesAssumption DEF Deck
  <2> QED BY <2>1, <2>2, ApplyType
<1>5. Held(R, e, v)
  <2>1. SUFFICES ASSUME v.epoch = e, ~v.stray, NEW x \in Cells, NEW s \in Logged(R),
                        LastWrite(R, s, v.lastSeq, x)
                 PROVE  View(v)[x] = R.at[s].id
    BY DEF Held
  <2>2. View(t)[x] = R.at[s].id /\ View(t) = Apply(FirstDeck, t.buffered)
    BY <2>1 DEF Stands, Held, View
  <2>3. View(v) = Apply(deck, t.buffered)
    BY <1>4, ApplyNothing DEF View
  <2>4. R.at[s].id # 0 /\ FirstDeck[x] = 0
    BY DEF IsOrder, Op, FirstDeck
  <2>5. \E i \in DOMAIN t.buffered : x \in t.buffered[i].cells
    BY <1>4, <2>2, <2>4, ApplyWrites
  <2>6. PICK i \in DOMAIN t.buffered :
           /\ x \in t.buffered[i].cells
           /\ \A j \in DOMAIN t.buffered : x \in t.buffered[j].cells => j <= i
    BY <1>4, <2>5, ApplyWrites
  <2>7. /\ Apply(FirstDeck, t.buffered)[x] = t.buffered[i].id
        /\ Apply(deck, t.buffered)[x] = t.buffered[i].id
    BY <1>4, <2>6, ApplyWrites
  <2> QED BY <2>2, <2>3, <2>7
<1> QED BY <1>1, <1>3, <1>5 DEF Stands

LEMMA LoadedInOrder ==
    ASSUME NEW O, TypeInv(O), InOrder, NEW c \in Clients, Loaded(c)
    PROVE  InOrder'
PROOF
<1> DEFINE t == [tab[c] EXCEPT !.confirmed = Apply(fetch[c].deck, tab[c].buffered),
                               !.buffered = <<>>]
           v == [t EXCEPT !.shown = Local(t)]
<1>1. /\ fetch[c].deck # NoDeck /\ tab' = [tab EXCEPT ![c] = v]
      /\ UNCHANGED <<epoch, log, base>> /\ UNCHANGED <<ghosts, late, catchUp, out, cut, up>>
  BY DEF Loaded, room, net
<1>2. /\ O \subseteq Op /\ TabsTyped(O) /\ tab[c] \in TabOf(O) /\ Loading(tab[c], fetch[c])
      /\ IsOrder(O, Order)
  BY ClientTyped DEF TypeInv
<1>3. fetch[c].deck \in Deck
  BY <1>1, <1>2 DEF TabsTyped
<1>4. tab[c].confirmed = NoDeck
  BY <1>1, <1>2 DEF Loading, NotAsked
<1>5. /\ v.conn = tab[c].conn /\ v.synced = tab[c].synced /\ v.epoch = tab[c].epoch
      /\ v.lastSeq = tab[c].lastSeq /\ v.fresh = tab[c].fresh /\ v.stray = tab[c].stray
      /\ v.pending = tab[c].pending
      /\ v.confirmed = Apply(fetch[c].deck, tab[c].buffered) /\ v.buffered = <<>>
  <2>1. /\ t.conn = tab[c].conn /\ t.synced = tab[c].synced /\ t.epoch = tab[c].epoch
        /\ t.lastSeq = tab[c].lastSeq /\ t.fresh = tab[c].fresh /\ t.stray = tab[c].stray
        /\ t.pending = tab[c].pending
        /\ t.confirmed = Apply(fetch[c].deck, tab[c].buffered) /\ t.buffered = <<>>
        /\ DOMAIN t = DOMAIN tab[c]
    BY <1>2 DEF TabOf
  <2> HIDE DEF t
  <2> QED BY <1>2, <2>1 DEF TabOf
<1>6. v \in TabOf(O)
  <2>1. TypeInv(O)'
    BY LoadedTyped
  <2>2. tab'[c] = v
    BY <1>1, <1>2 DEF TabsTyped
  <2>3. tab'[c] \in TabOf(O)
    BY <2>1 DEF TypeInv, TabsTyped
  <2> QED BY <2>2, <2>3
<1> HIDE DEF v
<1>7. tab'[c] = v /\ \A d \in Clients \ {c} : tab'[d] = tab[d]
  BY <1>1, <1>2 DEF TabsTyped
<1>8. Quiet(c) /\ Stands(Order, epoch, Kicked(c), tab[c], Msgs(c), up[c], late[c])
  BY OrderGiven
<1>9. Stands(Order, epoch, Kicked(c), v, Msgs(c), up[c], late[c])
  BY <1>2, <1>3, <1>4, <1>5, <1>6, <1>8, StandsLoaded
<1>10. Kicked(c)' = Kicked(c) /\ Msgs(c)' = Msgs(c)
  BY <1>1 DEF Kicked, Msgs
<1>11. Quiet(c)'
  BY <1>1, <1>5, <1>7, <1>8 DEF Quiet
<1>12. Stands(Order, epoch, Kicked(c)', tab'[c], Msgs(c)', up'[c], late'[c])
  BY <1>1, <1>7, <1>9, <1>10
<1> QED BY <1>1, <1>7, <1>11, <1>12, OneMoves

(* An edit: its operation, p with its base, is new, and has to do with no  *)
(* message that is on its way.                                             *)
LEMMA StandsEdited ==
    ASSUME NEW O, NEW R, IsOrder(O, R), NEW n \in Nat,
           \A o \in O : o.id \in Nat /\ o.id <= n,
           NEW e, NEW kicked, NEW t \in TabOf(O), NEW f \in Seq(DownMsg(O)),
           NEW u \in Seq(UpMsg(O)), NEW l, Stands(R, e, kicked, t, f, u, l),
           NEW p, p.op.id = n + 1, p.base = t.lastSeq,
           p.op.cells \subseteq Cells,
           p.op.saw # NoDeck =>
              t.confirmed # NoDeck /\ ~t.stray /\ p.op.saw = t.confirmed /\ t.buffered = <<>>,
           NEW v,
           v.conn = t.conn /\ v.synced = t.synced /\ v.epoch = t.epoch /\ v.lastSeq = t.lastSeq,
           v.fresh = t.fresh /\ v.stray = t.stray,
           v.confirmed = t.confirmed /\ v.buffered = t.buffered,
           v.pending = Append(t.pending, p),
           NEW w, w = IF t.synced THEN Append(u, Wire(p)) ELSE u
    PROVE  Stands(R, e, kicked, v, f, w, l)
PROOF
<1>1. /\ Flow(e, t, f, u) /\ Distinct(t, u) /\ Based(R, e, t) /\ Ahead(R, e, t)
      /\ Covered(R, kicked, t, f) /\ Acks(t, f) /\ Sent(R, t, f, u)
      /\ Held(R, e, t) /\ Seen(R, e, t) /\ SawAll(R, u)
  BY DEF Stands
<1>2. /\ DOMAIN v.pending = 1..(Len(t.pending) + 1) /\ Len(t.pending) \in Nat
      /\ DOMAIN t.pending = 1..Len(t.pending)
      /\ v.pending[Len(t.pending) + 1] = p
      /\ \A i \in DOMAIN t.pending : v.pending[i] = t.pending[i]
  BY AppendProperties, TabEntries DEF TabOf
<1>3. /\ \A i \in DOMAIN t.pending :
            /\ i \in DOMAIN v.pending /\ v.pending[i] = t.pending[i]
            /\ t.pending[i].op.id \in Nat /\ t.pending[i].op.id <= n
      /\ \A i \in DOMAIN v.pending : i \in DOMAIN t.pending \/ (i = Len(t.pending) + 1 /\ v.pending[i] = p)
      /\ Len(t.pending) + 1 \in DOMAIN v.pending
  <2>1. \A i \in DOMAIN t.pending : t.pending[i].op \in O
    BY TabEntries
  <2>2. \A i \in DOMAIN t.pending : i \in DOMAIN v.pending
    BY <1>2
  <2>3. \A i \in DOMAIN v.pending : i \in DOMAIN t.pending \/ i = Len(t.pending) + 1
    BY <1>2
  <2>4. Len(t.pending) + 1 \in DOMAIN v.pending
    BY <1>2
  <2> QED BY <1>2, <2>1, <2>2, <2>3, <2>4
<1>4. \A id : Has(v.pending, id) <=> Has(t.pending, id) \/ id = n + 1
  BY <1>3 DEF Has
<1>5. \A id \in Ids(O) : id # n + 1 /\ (Has(v.pending, id) <=> Has(t.pending, id))
  <2>1. \A id \in Ids(O) : id # n + 1
    BY DEF Ids
  <2> QED BY <1>4, <2>1
<1>6. Start(v, f) = Start(t, f)
  BY DEF Start
<1>7. \A k \in DOMAIN f : ~Settles(Start(t, f), f, k, n + 1)
  <2>1. ASSUME NEW k \in DOMAIN f
        PROVE  /\ f[k].t \in {"ack", "reject"} => f[k].id \in Ids(O)
               /\ f[k].t = "stamped" => f[k].op.id \in Ids(O)
    <3>1. f[k] \in DownMsg(O)
      BY MsgsType
    <3> QED BY <3>1, MsgKinds DEF Ids
  <2> QED BY <1>5, <2>1 DEF Settles
<1>8. t.synced => t.conn = "open" /\ t.epoch = e /\ t.lastSeq <= R.hi /\ t.lastSeq \in Nat
  <2> SUFFICES ASSUME t.synced
               PROVE  t.conn = "open" /\ t.epoch = e /\ t.lastSeq <= R.hi /\ t.lastSeq \in Nat
    OBVIOUS
  <2>1. t.conn = "open" /\ ~Greeted(f)
    BY <1>1, GreetedFirst DEF Flow
  <2>2. t.epoch = e
    BY <1>1, <2>1 DEF Flow
  <2> QED BY <1>1, <2>1, <2>2, TabEntries DEF Based
<1>9. /\ \A i \in DOMAIN u : /\ i \in DOMAIN w /\ w[i] = u[i]
                             /\ u[i].t = "op" => u[i].op.id \in Ids(O) /\ u[i].op.id # n + 1
      /\ \A i \in DOMAIN w : \/ i \in DOMAIN u /\ w[i] = u[i]
                             \/ i = Len(u) + 1 /\ w[i] = Wire(p) /\ t.synced
  <2>1. \A i \in DOMAIN u : u[i].t = "op" => u[i].op.id \in Ids(O) /\ u[i].op.id # n + 1
    <3>1. \A i \in DOMAIN u : u[i].t = "op" => u[i].op \in O
      <4>1. \A i \in DOMAIN u : u[i] \in UpMsg(O)
        BY ElementOfSeq
      <4> QED BY <4>1 DEF UpMsg
    <3> QED BY <1>5, <3>1 DEF Ids
  <2>2. CASE ~t.synced
    BY <2>1, <2>2
  <2>3. CASE t.synced
    <3>1. w = Append(u, Wire(p))
      BY <2>3
    <3>2. /\ DOMAIN w = 1..(Len(u) + 1) /\ Len(u) \in Nat
          /\ DOMAIN u = 1..Len(u)
          /\ w[Len(u) + 1] = Wire(p)
          /\ \A i \in DOMAIN u : w[i] = u[i]
      BY <3>1, AppendProperties, LenProperties
    <3>3. \A i \in DOMAIN u : i \in DOMAIN w
      BY <3>2
    <3>4. \A i \in DOMAIN w : i \in DOMAIN u \/ i = Len(u) + 1
      BY <3>2
    <3> QED BY <2>1, <2>3, <3>2, <3>3, <3>4
  <2> QED BY <2>2, <2>3
<1>10. Wire(p).t = "op" /\ Wire(p).op = p.op /\ Wire(p).base = p.base
  BY DEF Wire
<1>11. t.epoch = e => SawOk(R, p.op, t.lastSeq)
  <2> SUFFICES ASSUME t.epoch = e, p.op.saw # NoDeck
               PROVE  /\ t.lastSeq <= R.hi
                      /\ \A x \in p.op.cells, s \in Logged(R) :
                            LastWrite(R, s, t.lastSeq, x) => p.op.saw[x] = R.at[s].id
    BY DEF SawOk
  <2>1. t.lastSeq <= R.hi
    BY <1>1 DEF Based
  <2>2. t.confirmed \in Deck
    BY DEF TabOf
  <2>3. View(t) = t.confirmed
    BY <2>2, ApplyNothing DEF View
  <2> QED BY <1>1, <2>1, <2>3 DEF Held
<1>12. Flow(e, v, f, w)
  <2>1. \A i \in DOMAIN w : w[i].t = "op" => t.synced
    BY <1>1, <1>9 DEF Flow
  <2>2. t.conn = "closed" => f = <<>> /\ w = <<>>
    BY <1>1 DEF Flow
  <2> QED BY <1>1, <2>1, <2>2 DEF Flow
<1>13. Distinct(v, w)
  <2>1. ASSUME NEW i \in DOMAIN v.pending, NEW j \in DOMAIN v.pending,
               v.pending[i].op.id = v.pending[j].op.id
        PROVE  i = j
    <3>1. \A k \in DOMAIN t.pending : v.pending[k].op.id # n + 1
      BY <1>3
    <3>2. CASE i \in DOMAIN t.pending /\ j \in DOMAIN t.pending
      BY <1>1, <1>3, <2>1, <3>2 DEF Distinct
    <3>3. CASE i \notin DOMAIN t.pending \/ j \notin DOMAIN t.pending
      BY <1>3, <2>1, <3>1, <3>3
    <3> QED BY <3>2, <3>3
  <2>2. ASSUME NEW i \in DOMAIN w, NEW j \in DOMAIN w,
               w[i].t = "op", w[j].t = "op", w[i].op.id = w[j].op.id
        PROVE  i = j
    <3>1. CASE i \in DOMAIN u /\ j \in DOMAIN u
      BY <1>1, <1>9, <2>2, <3>1 DEF Distinct
    <3>2. CASE i \notin DOMAIN u \/ j \notin DOMAIN u
      BY <1>9, <1>10, <2>2, <3>2
    <3> QED BY <3>1, <3>2
  <2> QED BY <2>1, <2>2 DEF Distinct
<1>14. Based(R, e, v)
  <2>1. t.lastSeq \in Nat
    BY TabEntries
  <2> QED BY <1>1, <1>3, <2>1 DEF Based
<1>15. Ahead(R, e, v)
  <2>1. \A s \in Logged(R) : R.at[s].id \in Ids(O)
    BY DEF IsOrder, Ids
  <2> QED BY <1>1, <1>5, <2>1 DEF Ahead
<1>16. Covered(R, kicked, v, f)
  BY <1>1, <1>6 DEF Covered
<1>17. Acks(v, f)
  <2>1. \A k \in DOMAIN f : f[k].t = "ack" => f[k].id \in Ids(O)
    BY MsgsType, MsgKinds
  <2> QED BY <1>1, <1>5, <1>6, <2>1 DEF Acks
<1>18. Sent(R, v, f, w)
  <2> SUFFICES ASSUME ~t.stray, NEW i \in DOMAIN w, w[i].t = "op"
               PROVE  Unanswered(R, v, f, w[i])
    BY DEF Sent
  <2>1. CASE i \in DOMAIN u /\ w[i] = u[i]
    <3>1. Unanswered(R, t, f, u[i])
      BY <1>1, <2>1 DEF Sent
    <3> QED BY <1>4, <1>6, <2>1, <3>1 DEF Unanswered
  <2>2. CASE w[i] = Wire(p) /\ t.synced
    BY <1>4, <1>6, <1>7, <1>8, <1>10, <2>2 DEF Unanswered
  <2> QED BY <1>9, <2>1, <2>2
<1>19. Held(R, e, v)
  BY <1>1 DEF Held, View
<1>20. Seen(R, e, v)
  BY <1>1, <1>3, <1>11 DEF Seen
<1>21. SawAll(R, w)
  BY <1>1, <1>8, <1>9, <1>10, <1>11 DEF SawAll
<1> QED BY <1>12, <1>13, <1>14, <1>15, <1>16, <1>17, <1>18, <1>19, <1>20, <1>21 DEF Stands

LEMMA EditInOrder ==
    ASSUME NEW O, TypeInv(O), InOrder, NEW c \in Clients, NEW cells \in Keys, Edit(c, cells)
    PROVE  InOrder'
PROOF
<1> DEFINE op == EditOp(c, cells)
           p == EditEntry(c, cells)
           v == [tab[c] EXCEPT !.shown = Apply(@, <<op>>), !.pending = Append(@, p)]
<1>1. /\ tab' = [tab EXCEPT ![c] = v]
      /\ up' = IF tab[c].synced THEN [up EXCEPT ![c] = Append(@, Wire(p))] ELSE up
      /\ UNCHANGED <<epoch, log, base>> /\ UNCHANGED <<ghosts, late, catchUp, out, cut>>
  BY DEF Edit, EditOp, EditEntry, room
<1>2. /\ TabsTyped(O) /\ NetTyped(O) /\ tab[c] \in TabOf(O) /\ Loading(tab[c], fetch[c])
      /\ IsOrder(O, Order) /\ Msgs(c) \in Seq(DownMsg(O)) /\ up[c] \in Seq(UpMsg(O))
      /\ O \subseteq Op /\ ops \in Nat
  BY ClientTyped DEF TypeInv, RoomTyped
<1>3. \A o \in O : o.id \in Nat /\ o.id <= ops
  BY <1>2 DEF TypeInv, Coherent, Op
<1>4. /\ p.op.id = ops + 1 /\ p.base = tab[c].lastSeq /\ p.op.cells \subseteq Cells
      /\ p.op.saw # NoDeck =>
            /\ tab[c].confirmed # NoDeck /\ ~tab[c].stray /\ p.op.saw = tab[c].confirmed
            /\ tab[c].buffered = <<>>
  <2>1. /\ p.op = op /\ p.base = tab[c].lastSeq /\ op.id = ops + 1 /\ op.cells = cells
    BY DEF EditEntry, EditOp
  <2>2. cells \subseteq Cells
    BY SlidesAssumption
  <2>3. op.saw # NoDeck =>
           tab[c].confirmed # NoDeck /\ ~tab[c].stray /\ op.saw = tab[c].confirmed
    BY DEF EditOp
  <2> HIDE DEF p, op
  <2> QED BY <1>2, <2>1, <2>2, <2>3 DEF Loading
<1> HIDE DEF p, op
<1>5. /\ v.conn = tab[c].conn /\ v.synced = tab[c].synced /\ v.epoch = tab[c].epoch
      /\ v.lastSeq = tab[c].lastSeq /\ v.fresh = tab[c].fresh /\ v.stray = tab[c].stray
      /\ v.confirmed = tab[c].confirmed /\ v.buffered = tab[c].buffered
      /\ v.pending = Append(tab[c].pending, p)
  BY <1>2 DEF TabOf
<1> HIDE DEF v
<1>6. tab'[c] = v /\ \A d \in Clients \ {c} : tab'[d] = tab[d]
  BY <1>1, <1>2 DEF TabsTyped
<1>7. /\ up'[c] = IF tab[c].synced THEN Append(up[c], Wire(p)) ELSE up[c]
      /\ \A d \in Clients \ {c} : up'[d] = up[d]
  BY <1>1, <1>2 DEF NetTyped
<1>8. Quiet(c) /\ Stands(Order, epoch, Kicked(c), tab[c], Msgs(c), up[c], late[c])
  BY OrderGiven
<1>9. Stands(Order, epoch, Kicked(c), v, Msgs(c), up'[c], late[c])
  BY <1>2, <1>3, <1>4, <1>5, <1>7, <1>8, StandsEdited
<1>10. Kicked(c)' = Kicked(c) /\ Msgs(c)' = Msgs(c)
  BY <1>1 DEF Kicked, Msgs
<1>11. Quiet(c)'
  BY <1>1, <1>5, <1>6, <1>8 DEF Quiet
<1>12. Stands(Order, epoch, Kicked(c)', tab'[c], Msgs(c)', up'[c], late'[c])
  BY <1>1, <1>6, <1>9, <1>10
<1> QED BY <1>1, <1>6, <1>7, <1>11, <1>12, OneMoves

-----------------------------------------------------------------------------
(* A tab reads the first message, f[1], of what is on its way to it.       *)

LEMMA GreetedOnce ==
    ASSUME NEW O, NEW f \in Seq(DownMsg(O)), f # <<>>, NEW e, NEW t, NEW u, Flow(e, t, f, u)
    PROVE  ~Greeted(Tail(f)) /\ 1 \in DOMAIN f /\ f[1] \in DownMsg(O)
PROOF
<1>1. /\ 1 \in DOMAIN f /\ f[1] \in DownMsg(O) /\ Tail(f) \in Seq(DownMsg(O))
      /\ \A i \in DOMAIN Tail(f) : i + 1 \in DOMAIN f /\ i + 1 # 1 /\ Tail(f)[i] = f[i + 1]
  BY TailEntries
<1>2. ASSUME Greeted(Tail(f))
      PROVE  FALSE
  <2>1. 1 \in DOMAIN Tail(f) /\ Tail(f)[1].t = "welcome"
    BY <1>1, <1>2, GreetedFirst
  <2>2. \A k \in DOMAIN f : f[k].t = "welcome" => k = 1
    BY DEF Flow
  <2> QED BY <1>1, <2>1, <2>2
<1> QED BY <1>1, <1>2

(* What a tab in a room makes of its next message but a welcome.           *)
LEMMA StartNoWelcome ==
    ASSUME NEW O, NEW f \in Seq(DownMsg(O)), f # <<>>, NEW e, NEW t \in TabOf(O), NEW u,
           Flow(e, t, f, u), t.conn = "open", f[1].t # "welcome"
    PROVE  t.epoch = e /\ Start(t, f) = t.lastSeq /\ ~Greeted(f) /\ t.lastSeq \in Nat
BY TabEntries DEF Greeted, Flow, Start

LEMMA StandsMoved ==
    ASSUME NEW O, NEW R, IsOrder(O, R), NEW e \in Nat, NEW kicked,
           NEW t \in TabOf(O), NEW f \in Seq(DownMsg(O)), f # <<>>, NEW u, NEW l,
           Stands(R, e, kicked, t, f, u, l), NEW v, Moves(e, t, f, v),
           t.synced => v.synced, f[1].t # "synced" => v.synced = t.synced,
           NEW w, \A i \in DOMAIN w : w[i].t = "op" => v.synced,
           Distinct(v, w), Based(R, e, v), Held(R, e, v), Seen(R, e, v),
           SawAll(R, w), Sent(R, v, Tail(f), w)
    PROVE  Stands(R, e, kicked, v, Tail(f), w, l)
PROOF
<1>1. /\ Flow(e, t, f, u) /\ Placed(R, f) /\ Covered(R, kicked, t, f) /\ Ahead(R, e, t)
      /\ Acks(t, f)
  BY DEF Stands
<1>2. v.conn = "open" /\ v.epoch = e
  BY DEF Moves
<1>3. Flow(e, v, Tail(f), w)
  BY <1>1, <1>2, FlowTail
<1>4. Placed(R, Tail(f))
  BY <1>1, PlacedTail
<1>5. Covered(R, kicked, v, Tail(f))
  BY <1>1, CoveredTail
<1>6. Ahead(R, e, v)
  BY <1>1, AheadTail
<1>7. Acks(v, Tail(f))
  BY <1>1, AcksTail
<1> QED BY <1>3, <1>4, <1>5, <1>6, <1>7 DEF Stands

(* No entry lies between where the tab is and where the first message      *)
(* takes it.                                                               *)
LEMMA NothingBetween ==
    ASSUME NEW O, NEW R, IsOrder(O, R), NEW kicked, NEW t \in TabOf(O),
           NEW f \in Seq(DownMsg(O)), f # <<>>, t.conn = "open", Covered(R, kicked, t, f),
           NEW r \in Logged(R), Start(t, f) < r, r <= SeqOf(f[1])
    PROVE  Placing(f[1]) /\ r = f[1].seq
PROOF
<1>1. 1 \in DOMAIN f /\ SeqOf(f[1]) \in Nat /\ r \in Nat
      /\ (Placing(f[1]) => SeqOf(f[1]) = f[1].seq)
  <2>1. 1 \in DOMAIN f /\ f[1] \in DownMsg(O)
    BY TailEntries
  <2>2. r \in Nat
    BY DEF IsOrder, Logged
  <2> QED BY <2>1, <2>2, MsgKinds
<1>2. ~(\A k \in DOMAIN f : SeqOf(f[k]) < r)
  BY <1>1
<1>3. PICK k \in DOMAIN f : News(Start(t, f), f, k) /\ Placing(f[k]) /\ f[k].seq = r
  BY <1>2 DEF Covered
<1>4. CASE k = 1
  BY <1>3, <1>4
<1>5. CASE k # 1
  <2>1. k \in Nat /\ 1 \in 1..(k - 1)
    <3>1. DOMAIN f = 1..Len(f) /\ Len(f) \in Nat
      BY LenProperties
    <3> QED BY <1>5, <3>1
  <2>2. SeqOf(f[1]) < SeqOf(f[k])
    BY <1>3, <2>1 DEF News
  <2>3. SeqOf(f[k]) = r
    BY <1>3 DEF Placing, SeqOf
  <2> QED BY <1>1, <2>2, <2>3
<1> QED BY <1>4, <1>5

(* The tab does not move, or past no entry.                                *)
LEMMA HeldStill ==
    ASSUME NEW O, NEW R, IsOrder(O, R), NEW e, NEW t \in TabOf(O), Held(R, e, t),
           t.epoch = e, NEW v, v.lastSeq \in Nat, t.lastSeq <= v.lastSeq,
           v.stray = t.stray, v.confirmed = t.confirmed, v.buffered = t.buffered,
           \A r \in Logged(R) : t.lastSeq < r => v.lastSeq < r
    PROVE  Held(R, e, v)
PROOF
<1>1. SUFFICES ASSUME ~v.stray, NEW x \in Cells, NEW s \in Logged(R), LastWrite(R, s, v.lastSeq, x)
               PROVE  View(v)[x] = R.at[s].id
  BY DEF Held
<1>2. t.lastSeq \in Nat /\ \A r \in Logged(R) : r \in Nat
  BY TabEntries DEF IsOrder, Logged
<1>3. LastWrite(R, s, t.lastSeq, x)
  <2>1. s <= v.lastSeq
    BY <1>1 DEF LastWrite
  <2>2. s <= t.lastSeq
    BY <1>2, <2>1
  <2>3. \A r \in Logged(R) : r <= t.lastSeq => r <= v.lastSeq
    BY <1>2
  <2> QED BY <1>1, <2>2, <2>3 DEF LastWrite
<1>4. View(t)[x] = R.at[s].id
  BY <1>1, <1>3 DEF Held
<1>5. View(v) = View(t)
  BY DEF View
<1> QED BY <1>4, <1>5

(* The tab takes the entry that the first message names.                   *)
LEMMA HeldNews ==
    ASSUME NEW O, \A o, p \in O : o.id = p.id => o.cells = p.cells,
           NEW R, IsOrder(O, R), NEW kicked, NEW e, NEW t \in TabOf(O),
           NEW f \in Seq(DownMsg(O)), f # <<>>, t.conn = "open", Covered(R, kicked, t, f),
           Placed(R, f), Held(R, e, t), t.epoch = e, Start(t, f) = t.lastSeq,
           Placing(f[1]), t.lastSeq < f[1].seq,
           NEW own \in O, own.id = IdOf(f[1]),
           NEW v, v.lastSeq = f[1].seq, v.stray = t.stray,
           \A x \in Cells : View(v)[x] = IF x \in own.cells THEN own.id ELSE View(t)[x]
    PROVE  Held(R, e, v)
PROOF
<1> DEFINE h == f[1].seq
<1>1. SUFFICES ASSUME ~v.stray, NEW x \in Cells, NEW s \in Logged(R), LastWrite(R, s, h, x)
               PROVE  View(v)[x] = R.at[s].id
  BY DEF Held
<1>2. 1 \in DOMAIN f /\ h \in Nat /\ SeqOf(f[1]) = h /\ t.lastSeq \in Nat
  <2>1. 1 \in DOMAIN f /\ f[1] \in DownMsg(O)
    BY TailEntries
  <2> QED BY <2>1, MsgKinds, TabEntries
<1>3. R.lo \in Nat /\ R.hi \in Nat /\ h <= R.hi /\ (R.lo < h => R.at[h].id = own.id)
  BY <1>2 DEF IsOrder, Placed
<1> HIDE DEF h
<1>4. s \in Nat /\ s <= h /\ x \in R.at[s].cells /\ R.lo < s
  <2>1. s \in Nat /\ R.lo < s
    BY <1>3 DEF Logged
  <2> QED BY <1>1, <2>1 DEF LastWrite
<1>5. h \in Logged(R)
  BY <1>2, <1>3, <1>4 DEF Logged
<1>6. R.at[h].id = own.id /\ R.at[h].cells = own.cells
  <2>1. R.lo < h
    BY <1>2, <1>3, <1>4
  <2>2. R.at[h] \in O
    BY <1>5 DEF IsOrder
  <2> QED BY <1>3, <2>1, <2>2
<1>7. CASE s = h
  BY <1>4, <1>6, <1>7
<1>8. CASE s # h
  <2>1. x \notin own.cells
    <3>1. SUFFICES ASSUME x \in R.at[h].cells
                   PROVE  FALSE
      BY <1>6
    <3>2. h <= s
      BY <1>1, <1>2, <1>5, <3>1 DEF LastWrite
    <3> QED BY <1>2, <1>4, <1>8, <3>2
  <2>2. ~(t.lastSeq < s)
    <3>1. SUFFICES ASSUME t.lastSeq < s
                   PROVE  FALSE
      OBVIOUS
    <3>2. s <= SeqOf(f[1])
      BY <1>2, <1>4
    <3>3. s = f[1].seq
      BY <3>1, <3>2, NothingBetween
    <3> QED BY <1>8, <3>3 DEF h
  <2>3. s <= t.lastSeq /\ t.lastSeq < h
    BY <1>2, <1>4, <2>2 DEF h
  <2>4. \A r \in Logged(R) : r <= t.lastSeq => r <= h
    <3>1. \A r \in Logged(R) : r \in Nat
      BY <1>3 DEF Logged
    <3> QED BY <1>2, <2>3, <3>1
  <2>5. LastWrite(R, s, t.lastSeq, x)
    BY <1>1, <2>3, <2>4 DEF LastWrite
  <2>6. View(t)[x] = R.at[s].id
    BY <1>1, <2>5 DEF Held
  <2> QED BY <2>1, <2>6
<1> QED BY <1>7, <1>8

(* v is as t but for what it has of the order and what it has pending.     *)
Alike(t, v) ==
    /\ v.conn = t.conn /\ v.synced = t.synced /\ v.epoch = t.epoch /\ v.fresh = t.fresh
    /\ v.stray = t.stray

(* v has o applied to what t has of the order.                             *)
Adds(t, v, o) == \A x \in Cells : View(v)[x] = IF x \in o.cells THEN o.id ELSE View(t)[x]

LEMMA BufferedAdds ==
    ASSUME NEW O, O \subseteq Op, NEW t \in TabOf(O), t.confirmed = NoDeck, NEW o \in O,
           NEW v, v.confirmed = NoDeck, v.buffered = Append(t.buffered, o)
    PROVE  Adds(t, v, o)
PROOF
<1>1. t.buffered \in Seq(Op) /\ o \in Op
  <2>1. t.buffered \in Seq(O)
    BY DEF TabOf
  <2>2. Len(t.buffered) \in Nat /\ t.buffered \in [1..Len(t.buffered) -> O]
    BY <2>1, LenProperties
  <2> QED BY <2>2, SeqOfEach
<1>2. View(t) = Apply(FirstDeck, t.buffered) /\ View(v) = Apply(FirstDeck, Append(t.buffered, o))
  BY DEF View
<1> QED BY <1>1, <1>2, ApplyAppend DEF Adds

LEMMA ConfirmedAdds ==
    ASSUME NEW O, O \subseteq Op, NEW t \in TabOf(O), t.confirmed # NoDeck, t.buffered = <<>>,
           NEW o \in O, NEW v, v.confirmed = Apply(t.confirmed, <<o>>), v.buffered = <<>>
    PROVE  Adds(t, v, o)
PROOF
<1>1. t.confirmed \in Deck /\ o \in Op
  BY DEF TabOf
<1>2. v.confirmed \in Deck /\ NoDeck \notin Deck
  <2>1. <<o>> \in Seq(Op)
    BY <1>1, ApplyOne
  <2>2. Apply(t.confirmed, <<o>>) \in Deck
    BY <1>1, <2>1, ApplyType
  <2> QED BY <2>2, SlidesAssumption DEF Deck
<1>3. View(t) = Apply(t.confirmed, <<>>) /\ View(v) = Apply(v.confirmed, <<>>)
  BY <1>2 DEF View
<1>4. View(t) = t.confirmed /\ View(v) = v.confirmed
  BY <1>1, <1>2, <1>3, ApplyNothing
<1> QED BY <1>1, <1>4, ApplyOne DEF Adds

(* confirmOwn: the operation is applied, and is pending no more.           *)
LEMMA ConfirmOwnEffect ==
    ASSUME NEW O, O \subseteq Op, NEW t \in TabOf(O), NEW id,
           t.confirmed # NoDeck => t.buffered = <<>>, NEW v, v = ConfirmOwn(t, id)
    PROVE  /\ Alike(t, v) /\ v.lastSeq = t.lastSeq
           /\ v.pending = Without(t.pending, id)
           /\ ~Has(t.pending, id) => v = t
           /\ Has(t.pending, id) => \E own \in O : own.id = id /\ Adds(t, v, own)
PROOF
<1> DEFINE own == t.pending[Place(t.pending, id)].op
<1>1. t.pending \in Seq(Entry(O)) /\ t.buffered \in Seq(O) /\ t.confirmed \in Deck \cup {NoDeck}
  BY DEF TabOf
<1>2. CASE Has(t.pending, id)
  <2>1. Place(t.pending, id) \in 1..Len(t.pending)
        /\ t.pending[Place(t.pending, id)].op.id = id
    BY <1>1, <1>2, WithoutType
  <2>2. own \in O /\ own.id = id
    <3>1. t.pending[Place(t.pending, id)] \in Entry(O)
      BY <1>1, <2>1, ElementOfSeq
    <3> QED BY <2>1, <3>1 DEF Entry
  <2>3. v = [t EXCEPT !.pending = Without(@, id),
                      !.settled = @ \cup {id},
                      !.confirmed = IF @ = NoDeck THEN @ ELSE Apply(@, <<own>>),
                      !.buffered = IF t.confirmed = NoDeck THEN Append(@, own) ELSE @]
    BY <1>2 DEF ConfirmOwn
  <2> HIDE DEF own
  <2>4. CASE t.confirmed = NoDeck
    <3> DEFINE q == Without(t.pending, id)
               ids == t.settled \cup {id}
               b == Append(t.buffered, own)
    <3>1. v = [t EXCEPT !.pending = q, !.settled = ids, !.buffered = b]
      BY <2>3, <2>4 DEF TabOf
    <3> HIDE DEF q, ids, b
    <3>2. v.conn = t.conn /\ v.synced = t.synced /\ v.epoch = t.epoch /\ v.fresh = t.fresh
          /\ v.stray = t.stray /\ v.lastSeq = t.lastSeq /\ v.pending = q /\ v.buffered = b
          /\ v.confirmed = t.confirmed
      BY <3>1 DEF TabOf
    <3>3. Adds(t, v, own)
      BY <2>2, <2>4, <3>2, BufferedAdds DEF b
    <3> QED BY <1>2, <2>2, <3>2, <3>3 DEF Alike, q
  <2>5. CASE t.confirmed # NoDeck
    <3> DEFINE q == Without(t.pending, id)
               ids == t.settled \cup {id}
               deck == Apply(t.confirmed, <<own>>)
    <3>1. v = [t EXCEPT !.pending = q, !.settled = ids, !.confirmed = deck]
      BY <2>3, <2>5 DEF TabOf
    <3> HIDE DEF q, ids, deck
    <3>2. v.conn = t.conn /\ v.synced = t.synced /\ v.epoch = t.epoch /\ v.fresh = t.fresh
          /\ v.stray = t.stray /\ v.lastSeq = t.lastSeq /\ v.pending = q /\ v.buffered = t.buffered
          /\ v.confirmed = deck
      BY <3>1 DEF TabOf
    <3>3. Adds(t, v, own)
      BY <2>2, <2>5, <3>2, ConfirmedAdds DEF deck
    <3> QED BY <1>2, <2>2, <3>2, <3>3 DEF Alike, q
  <2> QED BY <2>4, <2>5
<1>3. CASE ~Has(t.pending, id)
  BY <1>3 DEF ConfirmOwn, Without, Alike
<1> QED BY <1>2, <1>3

(* The operation with that id is no longer pending, the others still are.  *)
Loses(t, v, id) == \A x : Has(v.pending, x) <=> Has(t.pending, x) /\ x # id

(* What still stands when an operation is taken out of the pending ones.   *)
LEMMA TakenOutOf ==
    ASSUME NEW O, NEW R, IsOrder(O, R), NEW e, NEW t \in TabOf(O), NEW u, Distinct(t, u),
           Based(R, e, t), Seen(R, e, t), NEW id, NEW v, Alike(t, v), v.lastSeq \in Nat,
           t.lastSeq <= v.lastSeq, v.lastSeq <= R.hi, v.pending = Without(t.pending, id)
    PROVE  Distinct(v, u) /\ Based(R, e, v) /\ Seen(R, e, v) /\ Loses(t, v, id)
PROOF
<1> DEFINE p == t.pending
           q == v.pending
<1>1. p \in Seq(Entry(O)) /\ \A i, j \in DOMAIN p : p[i].op.id = p[j].op.id => i = j
  BY DEF TabOf, Distinct
<1>2. /\ \A i \in DOMAIN q : \E j \in DOMAIN p : q[i] = p[j] /\ p[j].op.id # id
      /\ \A j \in DOMAIN p : p[j].op.id # id => \E i \in DOMAIN q : q[i] = p[j]
      /\ \A i, j \in DOMAIN q : q[i].op.id = q[j].op.id => i = j
  <2> HIDE DEF p
  <2> DEFINE w == Without(p, id)
  <2>1. /\ \A i \in DOMAIN w : \E j \in DOMAIN p : w[i] = p[j] /\ p[j].op.id # id
        /\ \A j \in DOMAIN p : p[j].op.id # id => \E i \in DOMAIN w : w[i] = p[j]
        /\ \A i, j \in DOMAIN w : w[i].op.id = w[j].op.id => i = j
    BY <1>1, WithoutEntries
  <2>2. q = w
    BY DEF p
  <2> HIDE DEF q, w
  <2> QED BY <2>1, <2>2
<1>3. t.lastSeq \in Nat /\ \A j \in DOMAIN p : p[j].base \in Nat
  BY TabEntries
<1> HIDE DEF p, q
<1>4. Distinct(v, u)
  BY <1>2 DEF Distinct, q
<1>5. ASSUME NEW x
      PROVE  Has(q, x) <=> Has(p, x) /\ x # id
  BY <1>2 DEF Has
<1>6. Based(R, e, v)
  <2> SUFFICES ASSUME v.epoch = e, ~v.fresh, ~v.stray, NEW i \in DOMAIN q
               PROVE  q[i].base <= v.lastSeq
    BY DEF Based, q
  <2>1. PICK j \in DOMAIN p : q[i] = p[j]
    BY <1>2
  <2>2. p[j].base <= t.lastSeq
    BY DEF Based, Alike, p
  <2> QED BY <1>3, <2>1, <2>2
<1>7. Seen(R, e, v)
  <2> SUFFICES ASSUME v.epoch = e, ~v.fresh, NEW i \in DOMAIN q
               PROVE  SawOk(R, q[i].op, q[i].base)
    BY DEF Seen, q
  <2>1. PICK j \in DOMAIN p : q[i] = p[j]
    BY <1>2
  <2>2. SawOk(R, p[j].op, p[j].base)
    BY DEF Seen, Alike, p
  <2> QED BY <2>1, <2>2
<1> QED BY <1>4, <1>5, <1>6, <1>7 DEF p, q, Loses

(* The messages but synced send nothing.                                   *)
LEMMA StandsRead ==
    ASSUME NEW O, NEW R, IsOrder(O, R), NEW e \in Nat, NEW kicked,
           NEW t \in TabOf(O), NEW f \in Seq(DownMsg(O)), f # <<>>, NEW u, NEW l,
           Stands(R, e, kicked, t, f, u, l), NEW v, Moves(e, t, f, v), v.synced = t.synced,
           Distinct(v, u), Based(R, e, v), Held(R, e, v), Seen(R, e, v)
    PROVE  Stands(R, e, kicked, v, Tail(f), u, l)
PROOF
<1>1. Flow(e, t, f, u) /\ SawAll(R, u) /\ Sent(R, t, f, u)
  BY DEF Stands
<1>2. \A i \in DOMAIN u : u[i].t = "op" => v.synced
  BY <1>1 DEF Flow
<1>3. Sent(R, v, Tail(f), u)
  BY <1>1, SentTail
<1> QED BY <1>1, <1>2, <1>3, StandsMoved

(* An ack: the tab's own operation is in the order.                        *)
LEMMA StandsAcked ==
    ASSUME NEW O, O \subseteq Op, \A o, p \in O : o.id = p.id => o.cells = p.cells,
           NEW R, IsOrder(O, R), NEW e \in Nat, NEW kicked,
           NEW t \in TabOf(O), NEW f \in Seq(DownMsg(O)), f # <<>>, NEW u, NEW l,
           Stands(R, e, kicked, t, f, u, l), t.conn = "open",
           t.confirmed # NoDeck => t.buffered = <<>>, f[1].t = "ack",
           NEW v, v = AckedTab(t, f[1])
    PROVE  Stands(R, e, kicked, v, Tail(f), u, l)
PROOF
<1> DEFINE m == f[1]
           seq == Max2(t.lastSeq, m.seq)
           s == [t EXCEPT !.lastSeq = seq]
<1>1. /\ Flow(e, t, f, u) /\ Distinct(t, u) /\ Based(R, e, t) /\ Placed(R, f)
      /\ Covered(R, kicked, t, f) /\ Acks(t, f) /\ Held(R, e, t) /\ Seen(R, e, t)
  BY DEF Stands
<1>2. ~Greeted(Tail(f)) /\ 1 \in DOMAIN f /\ m \in DownMsg(O)
  BY <1>1, GreetedOnce
<1>3. t.epoch = e /\ Start(t, f) = t.lastSeq /\ ~Greeted(f) /\ t.lastSeq \in Nat
  BY <1>1, StartNoWelcome
<1>4. m.seq \in Nat /\ SeqOf(m) = m.seq /\ Placing(m) /\ IdOf(m) = m.id
  BY <1>2, MsgKinds DEF Placing, IdOf
<1>5. R.hi \in Nat /\ m.seq <= R.hi /\ t.lastSeq <= R.hi
  BY <1>1, <1>2, <1>3, <1>4 DEF Placed, Based, IsOrder
<1>6. v = ConfirmOwn(s, m.id)
  BY DEF AckedTab
<1> HIDE DEF m
<1>7. seq \in Nat /\ t.lastSeq <= seq /\ seq <= R.hi
      /\ (t.lastSeq < m.seq => seq = m.seq) /\ (~(t.lastSeq < m.seq) => seq = t.lastSeq)
  BY <1>3, <1>4, <1>5 DEF Max2
<1>8. /\ s \in TabOf(O) /\ Alike(t, s) /\ s.lastSeq = seq /\ s.pending = t.pending
      /\ s.confirmed = t.confirmed /\ s.buffered = t.buffered
  <2> HIDE DEF seq
  <2> QED BY <1>7 DEF TabOf, Alike
<1>9. View(s) = View(t)
  <2> HIDE DEF s
  <2> QED BY <1>8 DEF View
<1> HIDE DEF s, seq
<1>10. /\ Alike(s, v) /\ v.lastSeq = s.lastSeq
       /\ v.pending = Without(s.pending, m.id)
       /\ ~Has(s.pending, m.id) => v = s
       /\ Has(s.pending, m.id) => \E own \in O : own.id = m.id /\ Adds(s, v, own)
  BY <1>6, <1>8, ConfirmOwnEffect
<1>11. Alike(t, v) /\ v.lastSeq = seq /\ v.pending = Without(t.pending, m.id)
  BY <1>8, <1>10 DEF Alike
<1>12. Distinct(v, u) /\ Based(R, e, v) /\ Seen(R, e, v) /\ Loses(t, v, m.id)
  <2>1. v.lastSeq \in Nat /\ t.lastSeq <= v.lastSeq /\ v.lastSeq <= R.hi
    BY <1>7, <1>11
  <2> DEFINE id == m.id
  <2>2. v.pending = Without(t.pending, id) /\ Alike(t, v)
    BY <1>11
  <2> HIDE DEF id
  <2>3. Distinct(v, u) /\ Based(R, e, v) /\ Seen(R, e, v) /\ Loses(t, v, id)
    BY <1>1, <2>1, <2>2, TakenOutOf
  <2> QED BY <2>3 DEF id
<1>13. \A x : Settles(Start(t, f), f, 1, x) <=> x = m.id
  BY DEF Settles, m
<1>14. Moves(e, t, f, v)
  <2>1. v.lastSeq = Max2(Start(t, f), SeqOf(f[1]))
    BY <1>3, <1>4, <1>11 DEF seq, m
  <2> QED BY <1>2, <1>3, <1>11, <1>12, <1>13, <2>1 DEF Moves, Alike, Loses
<1>15. Held(R, e, v)
  <2>1. SUFFICES ASSUME ~t.stray
                 PROVE  Held(R, e, v)
    BY <1>11 DEF Held, Alike
  <2>2. News(Start(t, f), f, 1) <=> t.lastSeq < m.seq
    BY <1>3, <1>4 DEF News, m
  <2>3. Has(t.pending, m.id) <=> t.lastSeq < m.seq
    <3>1. Has(t.pending, m.id) => \E j \in 1..1 : News(Start(t, f), f, j)
      BY <1>1, <1>2, <2>1 DEF Acks, m
    <3>2. News(Start(t, f), f, 1) => Has(t.pending, m.id)
      BY <1>1, <1>2, <2>1 DEF Acks, m
    <3> QED BY <2>2, <3>1, <3>2
  <2>4. CASE Has(t.pending, m.id)
    <3>1. PICK own \in O : own.id = m.id /\ Adds(s, v, own)
      BY <1>8, <1>10, <2>4
    <3>2. \A x \in Cells : View(v)[x] = IF x \in own.cells THEN own.id ELSE View(t)[x]
      BY <1>9, <3>1 DEF Adds
    <3>3. t.lastSeq < f[1].seq /\ v.lastSeq = f[1].seq /\ v.stray = t.stray
          /\ own.id = IdOf(f[1]) /\ Placing(f[1])
      BY <1>4, <1>7, <1>11, <2>3, <2>4, <3>1 DEF m, Alike
    <3> QED BY <1>1, <1>3, <3>2, <3>3, HeldNews
  <2>5. CASE ~Has(t.pending, m.id)
    <3>1. v = s /\ seq = t.lastSeq
      BY <1>7, <1>8, <1>10, <2>3, <2>5
    <3> QED BY <1>1, <1>3, <1>8, <3>1, HeldStill DEF Alike
  <2> QED BY <2>4, <2>5
<1>16. v.synced = t.synced
  BY <1>11 DEF Alike
<1> QED BY <1>12, <1>14, <1>15, <1>16, StandsRead

(* A reject: the operation is pending no more.                             *)
LEMMA StandsRejected ==
    ASSUME NEW O, O \subseteq Op, NEW R, IsOrder(O, R), NEW e \in Nat, NEW kicked,
           NEW t \in TabOf(O), NEW f \in Seq(DownMsg(O)), f # <<>>, NEW u, NEW l,
           Stands(R, e, kicked, t, f, u, l), t.conn = "open", f[1].t = "reject",
           NEW v, v = RejectedTab(t, f[1])
    PROVE  Stands(R, e, kicked, v, Tail(f), u, l)
PROOF
<1> DEFINE m == f[1]
           q == Without(t.pending, m.id)
           ids == IF Has(t.pending, m.id) THEN t.settled \cup {m.id} ELSE t.settled
           s == [t EXCEPT !.pending = q, !.settled = ids]
<1>1. /\ Flow(e, t, f, u) /\ Distinct(t, u) /\ Based(R, e, t)
      /\ Held(R, e, t) /\ Seen(R, e, t)
  BY DEF Stands
<1>2. ~Greeted(Tail(f)) /\ 1 \in DOMAIN f /\ m \in DownMsg(O)
  BY <1>1, GreetedOnce
<1>3. t.epoch = e /\ Start(t, f) = t.lastSeq /\ ~Greeted(f) /\ t.lastSeq \in Nat
  BY <1>1, StartNoWelcome
<1>4. SeqOf(m) = 0 /\ R.hi \in Nat /\ t.lastSeq <= R.hi /\ Max2(t.lastSeq, 0) = t.lastSeq
  BY <1>1, <1>3 DEF SeqOf, Based, IsOrder, Max2, m
<1>5. v = IF Has(t.pending, m.id) /\ s.confirmed # NoDeck THEN [s EXCEPT !.shown = Local(s)] ELSE s
  BY DEF RejectedTab
<1> HIDE DEF m
<1>6. q \in Seq(Entry(O)) /\ ids \in SUBSET Nat
  <2>1. q \in Seq(Entry(O))
    BY WithoutType DEF TabOf
  <2>2. m.id \in Nat
    BY <1>2 DEF DownMsg, Ids, Op, m
  <2> HIDE DEF q
  <2> QED BY <2>1, <2>2 DEF TabOf
<1>7. /\ s \in TabOf(O) /\ Alike(t, s) /\ s.lastSeq = t.lastSeq /\ s.pending = q
      /\ s.confirmed = t.confirmed /\ s.buffered = t.buffered
  <2> HIDE DEF q, ids
  <2> QED BY <1>6 DEF TabOf, Alike
<1> HIDE DEF s
<1>8. /\ Alike(s, v) /\ v.lastSeq = s.lastSeq /\ v.pending = s.pending
      /\ v.confirmed = s.confirmed /\ v.buffered = s.buffered
  <2>1. CASE v = [s EXCEPT !.shown = Local(s)]
    <3> DEFINE deck == Local(s)
    <3>1. v = [s EXCEPT !.shown = deck]
      BY <2>1
    <3> HIDE DEF deck
    <3> QED BY <1>7, <3>1 DEF TabOf, Alike
  <2>2. CASE v = s
    BY <2>2 DEF Alike
  <2> QED BY <1>5, <2>1, <2>2
<1>9. /\ Alike(t, v) /\ v.lastSeq = t.lastSeq /\ v.pending = Without(t.pending, m.id)
      /\ v.confirmed = t.confirmed /\ v.buffered = t.buffered
  BY <1>7, <1>8 DEF Alike, q
<1>10. Distinct(v, u) /\ Based(R, e, v) /\ Seen(R, e, v) /\ Loses(t, v, m.id)
  <2>1. v.lastSeq \in Nat /\ t.lastSeq <= v.lastSeq /\ v.lastSeq <= R.hi
    BY <1>3, <1>4, <1>9
  <2> DEFINE id == m.id
  <2>2. v.pending = Without(t.pending, id) /\ Alike(t, v)
    BY <1>9
  <2> HIDE DEF id
  <2>3. Distinct(v, u) /\ Based(R, e, v) /\ Seen(R, e, v) /\ Loses(t, v, id)
    BY <1>1, <2>1, <2>2, TakenOutOf
  <2> QED BY <2>3 DEF id
<1>11. \A x : Settles(Start(t, f), f, 1, x) <=> x = m.id
  BY DEF Settles, m
<1>12. Moves(e, t, f, v)
  <2>1. v.lastSeq = Max2(Start(t, f), SeqOf(f[1]))
    BY <1>3, <1>4, <1>9 DEF m
  <2> QED BY <1>2, <1>3, <1>9, <1>10, <1>11, <2>1 DEF Moves, Alike, Loses
<1>13. Held(R, e, v)
  <2>1. v.lastSeq \in Nat /\ t.lastSeq <= v.lastSeq /\ v.stray = t.stray
    BY <1>3, <1>9 DEF Alike
  <2>2. \A r \in Logged(R) : t.lastSeq < r => v.lastSeq < r
    BY <1>9
  <2> QED BY <1>1, <1>3, <1>9, <2>1, <2>2, HeldStill
<1>14. v.synced = t.synced
  BY <1>9 DEF Alike
<1> QED BY <1>10, <1>12, <1>13, <1>14, StandsRead

(* A stamped operation that is news: it is applied, and is pending no more *)
(* if it was the tab's own.                                                *)
LEMMA RemoteEffect ==
    ASSUME NEW O, O \subseteq Op, NEW t \in TabOf(O), t.confirmed # NoDeck => t.buffered = <<>>,
           NEW m \in DownMsg(O), m.t = "stamped", t.lastSeq < m.seq, NEW v, v = RemoteTab(t, m)
    PROVE  /\ Alike(t, v) /\ v.lastSeq = m.seq /\ v.pending = Without(t.pending, m.op.id)
           /\ \E own \in O : own.id = m.op.id /\ Adds(t, v, own)
PROOF
<1> DEFINE s == [t EXCEPT !.lastSeq = m.seq]
           id == m.op.id
<1>1. m.seq \in Nat /\ m.op \in O /\ t.lastSeq \in Nat /\ ~(m.seq <= t.lastSeq) /\ m.seq > t.lastSeq
  BY MsgKinds, TabEntries
<1>2. /\ s \in TabOf(O) /\ Alike(t, s) /\ s.lastSeq = m.seq /\ s.pending = t.pending
      /\ s.confirmed = t.confirmed /\ s.buffered = t.buffered
  BY <1>1 DEF TabOf, Alike
<1>3. v = IF Has(s.pending, id) THEN ConfirmOwn(s, id)
          ELSE IF s.confirmed = NoDeck THEN [s EXCEPT !.buffered = Append(@, m.op)]
          ELSE [s EXCEPT !.confirmed = Apply(@, <<m.op>>), !.shown = Apply(@, <<m.op>>)]
  BY <1>1 DEF RemoteTab
<1> HIDE DEF s
<1>4. View(s) = View(t)
  BY <1>2 DEF View
<1>5. /\ Alike(s, v) /\ v.lastSeq = s.lastSeq /\ v.pending = Without(s.pending, id)
      /\ \E own \in O : own.id = id /\ Adds(s, v, own)
  <2>1. CASE Has(s.pending, id)
    <3> HIDE DEF id
    <3>1. v = ConfirmOwn(s, id)
      BY <1>3, <2>1
    <3> QED BY <1>2, <2>1, <3>1, ConfirmOwnEffect
  <2>2. CASE ~Has(s.pending, id) /\ s.confirmed = NoDeck
    <3> DEFINE b == Append(s.buffered, m.op)
    <3>1. v = [s EXCEPT !.buffered = b]
      BY <1>2, <1>3, <2>2 DEF TabOf
    <3> HIDE DEF b
    <3>2. /\ Alike(s, v) /\ v.lastSeq = s.lastSeq /\ v.pending = s.pending
          /\ v.confirmed = s.confirmed /\ v.buffered = b
      BY <1>2, <3>1 DEF TabOf, Alike
    <3>3. Adds(s, v, m.op)
      BY <1>1, <1>2, <2>2, <3>2, BufferedAdds DEF b
    <3> QED BY <1>1, <2>2, <3>2, <3>3 DEF Without
  <2>3. CASE ~Has(s.pending, id) /\ s.confirmed # NoDeck
    <3> DEFINE deck == Apply(s.confirmed, <<m.op>>)
               shown == Apply(s.shown, <<m.op>>)
    <3>1. v = [s EXCEPT !.confirmed = deck, !.shown = shown]
      BY <1>2, <1>3, <2>3 DEF TabOf
    <3> HIDE DEF deck, shown
    <3>2. /\ Alike(s, v) /\ v.lastSeq = s.lastSeq /\ v.pending = s.pending
          /\ v.confirmed = deck /\ v.buffered = s.buffered
      BY <1>2, <3>1 DEF TabOf, Alike
    <3>3. Adds(s, v, m.op)
      BY <1>1, <1>2, <2>3, <3>2, ConfirmedAdds DEF deck
    <3> QED BY <1>1, <2>3, <3>2, <3>3 DEF Without
  <2> QED BY <2>1, <2>2, <2>3
<1> QED BY <1>2, <1>4, <1>5 DEF Alike, Adds

(* An operation in the room's order, this tab's own or another's.          *)
LEMMA StandsApplied ==
    ASSUME NEW O, O \subseteq Op, \A o, p \in O : o.id = p.id => o.cells = p.cells,
           NEW R, IsOrder(O, R), NEW e \in Nat, NEW kicked,
           NEW t \in TabOf(O), NEW f \in Seq(DownMsg(O)), f # <<>>, NEW u, NEW l,
           Stands(R, e, kicked, t, f, u, l), t.conn = "open",
           t.confirmed # NoDeck => t.buffered = <<>>, f[1].t = "stamped",
           NEW v, v = RemoteTab(t, f[1])
    PROVE  Stands(R, e, kicked, v, Tail(f), u, l)
PROOF
<1> DEFINE m == f[1]
<1>1. /\ Flow(e, t, f, u) /\ Distinct(t, u) /\ Based(R, e, t) /\ Placed(R, f)
      /\ Covered(R, kicked, t, f) /\ Held(R, e, t) /\ Seen(R, e, t)
  BY DEF Stands
<1>2. ~Greeted(Tail(f)) /\ 1 \in DOMAIN f /\ m \in DownMsg(O)
  BY <1>1, GreetedOnce
<1>3. t.epoch = e /\ Start(t, f) = t.lastSeq /\ ~Greeted(f) /\ t.lastSeq \in Nat
  BY <1>1, StartNoWelcome
<1>4. m.seq \in Nat /\ SeqOf(m) = m.seq /\ Placing(m) /\ IdOf(m) = m.op.id
  BY <1>2, MsgKinds DEF Placing, IdOf
<1>5. R.hi \in Nat /\ m.seq <= R.hi
  BY <1>1, <1>2, <1>4 DEF Placed, IsOrder
<1>6. News(Start(t, f), f, 1) <=> t.lastSeq < m.seq
  BY <1>3, <1>4 DEF News, m
<1>7. \A x : Settles(Start(t, f), f, 1, x) <=> t.lastSeq < m.seq /\ x = m.op.id
  BY <1>6 DEF Settles, m
<1> HIDE DEF m
<1>8. CASE ~(t.lastSeq < m.seq)
  <2>1. v = t
    <3>1. m.seq <= t.lastSeq /\ ~(m.seq > t.lastSeq)
      BY <1>3, <1>4, <1>8
    <3>2. v = RemoteTab(t, m)
      BY DEF m
    <3> QED BY <3>1, <3>2 DEF RemoteTab
  <2>2. t.lastSeq = Max2(Start(t, f), SeqOf(f[1]))
    BY <1>3, <1>4, <1>8 DEF Max2, m
  <2>3. Moves(e, t, f, v)
    BY <1>2, <1>3, <1>7, <1>8, <2>1, <2>2 DEF Moves
  <2> QED BY <1>1, <2>1, <2>3, StandsRead
<1>9. CASE t.lastSeq < m.seq
  <2> DEFINE id == m.op.id
  <2>1. /\ Alike(t, v) /\ v.lastSeq = m.seq /\ v.pending = Without(t.pending, id)
        /\ \E own \in O : own.id = id /\ Adds(t, v, own)
    BY <1>2, <1>9, RemoteEffect DEF m
  <2>2. v.lastSeq \in Nat /\ t.lastSeq <= v.lastSeq /\ v.lastSeq <= R.hi
    BY <1>3, <1>4, <1>5, <1>9, <2>1
  <2> HIDE DEF id
  <2>3. Distinct(v, u) /\ Based(R, e, v) /\ Seen(R, e, v) /\ Loses(t, v, id)
    BY <1>1, <2>1, <2>2, TakenOutOf
  <2>4. v.lastSeq = Max2(Start(t, f), SeqOf(f[1]))
    BY <1>3, <1>4, <1>9, <2>1 DEF Max2, m
  <2>5. Moves(e, t, f, v)
    BY <1>2, <1>3, <1>7, <1>9, <2>1, <2>3, <2>4 DEF Moves, Alike, Loses, id
  <2>6. Held(R, e, v)
    <3>1. PICK own \in O : own.id = id /\ Adds(t, v, own)
      BY <2>1
    <3>2. \A x \in Cells : View(v)[x] = IF x \in own.cells THEN own.id ELSE View(t)[x]
      BY <3>1 DEF Adds
    <3>3. t.lastSeq < f[1].seq /\ v.lastSeq = f[1].seq /\ v.stray = t.stray
          /\ own.id = IdOf(f[1]) /\ Placing(f[1])
      BY <1>4, <1>9, <2>1, <3>1 DEF m, Alike, id
    <3> QED BY <1>1, <1>3, <3>2, <3>3, HeldNews
  <2>7. v.synced = t.synced
    BY <2>1 DEF Alike
  <2> QED BY <2>3, <2>5, <2>6, <2>7, StandsRead
<1> QED BY <1>8, <1>9

(* The same operations pending, whatever their bases.                      *)
SameIds(t, v) ==
    /\ DOMAIN v.pending = DOMAIN t.pending
    /\ \A i \in DOMAIN t.pending : v.pending[i].op.id = t.pending[i].op.id

Keeps(t, v) ==
    /\ \A x : Has(v.pending, x) <=> Has(t.pending, x)
    /\ \A i, j \in DOMAIN v.pending : v.pending[i].op.id = v.pending[j].op.id => i = j

LEMMA PendingKept ==
    ASSUME NEW t, NEW v, SameIds(t, v), NEW u, Distinct(t, u)
    PROVE  Keeps(t, v)
PROOF
<1> DEFINE p == t.pending
           q == v.pending
<1>1. DOMAIN q = DOMAIN p /\ \A i \in DOMAIN p : q[i].op.id = p[i].op.id
  BY DEF SameIds
<1>2. \A i, j \in DOMAIN p : p[i].op.id = p[j].op.id => i = j
  BY DEF Distinct
<1> HIDE DEF p, q
<1>3. \A i, j \in DOMAIN q : q[i].op.id = q[j].op.id => i = j
  BY <1>1, <1>2
<1>4. ASSUME NEW x
      PROVE  Has(q, x) <=> Has(p, x)
  BY <1>1 DEF Has
<1> QED BY <1>3, <1>4 DEF p, q, Keeps

(* The tab forgets to re-base what is pending.                             *)
Lapsed(t, m) == ~m.fresh /\ t.fresh /\ t.pending # <<>>

LEMMA WelcomeEffect ==
    ASSUME NEW O, O \subseteq Op, Forgets(O), NEW t \in TabOf(O),
           NEW m \in DownMsg(O), m.t = "welcome", NEW v, v = WelcomeTab(t, m)
    PROVE  /\ v.conn = t.conn /\ v.synced = t.synced /\ v.epoch = m.epoch
           /\ v.fresh = m.fresh /\ v.lastSeq = IF m.fresh THEN 0 ELSE t.lastSeq
           /\ v.stray <=> t.stray \/ Lapsed(t, m)
           /\ ~m.fresh => v.confirmed = t.confirmed /\ v.buffered = t.buffered
           /\ ~Lapsed(t, m) => v.pending = t.pending
           /\ Lapsed(t, m) => \A i \in DOMAIN v.pending : v.pending[i].op.saw = NoDeck
           /\ SameIds(t, v)
PROOF
<1>1. m.fresh \in BOOLEAN /\ m.epoch \in Nat
  BY MsgKinds
<1>2. t.pending \in Seq(Entry(O)) /\ t.stray \in BOOLEAN /\ \A i \in DOMAIN t.pending : t.pending[i] \in Entry(O)
  BY TabEntries DEF TabOf
<1> DEFINE q == [i \in DOMAIN t.pending |-> Unseen(t.pending[i])]
           refetch == m.fresh /\ t.epoch # 0 /\ t.confirmed # NoDeck
           lapsed == ~m.fresh /\ t.fresh /\ t.pending # <<>>
<1> DEFINE stray == t.stray \/ lapsed
           pending == IF lapsed THEN q ELSE t.pending
           seq == IF m.fresh THEN 0 ELSE t.lastSeq
           deck == IF refetch THEN NoDeck ELSE t.confirmed
           ahead == IF refetch THEN <<>> ELSE t.buffered
<1>3. v = [t EXCEPT !.fresh = m.fresh, !.stray = stray, !.epoch = m.epoch, !.pending = pending,
                    !.lastSeq = seq, !.confirmed = deck, !.buffered = ahead]
  BY DEF WelcomeTab, TabOf
<1>4. ~m.fresh => deck = t.confirmed /\ ahead = t.buffered
  OBVIOUS
<1>5. lapsed <=> Lapsed(t, m)
  BY DEF Lapsed
<1>6. \A i \in DOMAIN t.pending : q[i].op.id = t.pending[i].op.id /\ q[i].op.saw = NoDeck
  <2>1. SUFFICES ASSUME NEW i \in DOMAIN t.pending
                 PROVE  /\ Unseen(t.pending[i]).op.id = t.pending[i].op.id
                        /\ Unseen(t.pending[i]).op.saw = NoDeck
    OBVIOUS
  <2> QED BY <1>2, 0 \in Nat, UnseenType
<1>7. DOMAIN q = DOMAIN t.pending
  OBVIOUS
<1>8. /\ ~lapsed => pending = t.pending
      /\ lapsed => pending = q
      /\ seq = IF m.fresh THEN 0 ELSE t.lastSeq
      /\ stray <=> t.stray \/ lapsed
  OBVIOUS
<1> HIDE DEF stray, pending, seq, deck, ahead, lapsed, refetch, q
<1>9. /\ v.conn = t.conn /\ v.synced = t.synced /\ v.epoch = m.epoch /\ v.fresh = m.fresh
      /\ v.lastSeq = seq /\ v.stray = stray /\ v.confirmed = deck /\ v.buffered = ahead
      /\ v.pending = pending
  BY <1>3 DEF TabOf
<1>10. SameIds(t, v)
  BY <1>6, <1>7, <1>8, <1>9 DEF SameIds
<1>11. v.stray <=> t.stray \/ Lapsed(t, m)
  BY <1>5, <1>8, <1>9
<1>12. Lapsed(t, m) => \A i \in DOMAIN v.pending : v.pending[i].op.saw = NoDeck
  BY <1>5, <1>6, <1>7, <1>8, <1>9
<1>13. ~Lapsed(t, m) => v.pending = t.pending
  BY <1>5, <1>8, <1>9
<1> QED BY <1>4, <1>8, <1>9, <1>10, <1>11, <1>12, <1>13

(* The welcome: a tab that starts afresh goes back to before the first     *)
(* entry, another one stays where it was.                                  *)
LEMMA StandsGreeted ==
    ASSUME NEW O, O \subseteq Op, Forgets(O),
           NEW R, IsOrder(O, R), NEW e \in Nat, NEW kicked,
           NEW t \in TabOf(O), NEW f \in Seq(DownMsg(O)), f # <<>>, NEW u, NEW l,
           Stands(R, e, kicked, t, f, u, l), t.conn = "open", f[1].t = "welcome",
           NEW v, v = WelcomeTab(t, f[1])
    PROVE  Stands(R, e, kicked, v, Tail(f), u, l)
PROOF
<1> DEFINE m == f[1]
<1>1. /\ Flow(e, t, f, u) /\ Distinct(t, u) /\ Based(R, e, t) /\ Held(R, e, t) /\ Seen(R, e, t)
  BY DEF Stands
<1>2. ~Greeted(Tail(f)) /\ 1 \in DOMAIN f /\ m \in DownMsg(O)
  BY <1>1, GreetedOnce
<1>3. m.epoch = e /\ (~m.fresh => t.epoch = e)
  BY <1>1, <1>2 DEF Flow
<1>4. Start(t, f) = IF m.fresh THEN 0 ELSE t.lastSeq
  BY DEF Start, Greeted
<1>5. SeqOf(m) = 0 /\ t.lastSeq \in Nat /\ R.hi \in Nat
  BY TabEntries DEF SeqOf, IsOrder
<1>6. /\ v.conn = t.conn /\ v.synced = t.synced /\ v.epoch = m.epoch
      /\ v.fresh = m.fresh /\ v.lastSeq = IF m.fresh THEN 0 ELSE t.lastSeq
      /\ v.stray <=> t.stray \/ Lapsed(t, m)
      /\ ~m.fresh => v.confirmed = t.confirmed /\ v.buffered = t.buffered
      /\ ~Lapsed(t, m) => v.pending = t.pending
      /\ Lapsed(t, m) => \A i \in DOMAIN v.pending : v.pending[i].op.saw = NoDeck
      /\ SameIds(t, v)
  BY <1>2, WelcomeEffect
<1>7. \A x : ~Settles(Start(t, f), f, 1, x)
  BY DEF Settles
<1> HIDE DEF m
<1>8. /\ \A x : Has(v.pending, x) <=> Has(t.pending, x)
      /\ \A i, j \in DOMAIN v.pending : v.pending[i].op.id = v.pending[j].op.id => i = j
  <2>1. SameIds(t, v)
    BY <1>6
  <2>2. Keeps(t, v)
    BY <1>1, <2>1, PendingKept
  <2> QED BY <2>2 DEF Keeps
<1>9. Distinct(v, u)
  BY <1>1, <1>8 DEF Distinct
<1>10. Moves(e, t, f, v)
  <2>1. v.lastSeq = Max2(Start(t, f), SeqOf(f[1]))
    BY <1>4, <1>5, <1>6 DEF Max2, m
  <2> QED BY <1>2, <1>3, <1>6, <1>7, <1>8, <2>1 DEF Moves
<1>11. Based(R, e, v)
  <2>1. v.lastSeq <= R.hi
    BY <1>1, <1>3, <1>5, <1>6 DEF Based
  <2>2. ASSUME ~v.fresh, ~v.stray, NEW i \in DOMAIN v.pending
        PROVE  v.pending[i].base <= v.lastSeq
    <3>1. ~m.fresh /\ ~Lapsed(t, m) /\ ~t.stray /\ v.pending = t.pending /\ v.lastSeq = t.lastSeq
      BY <1>6, <2>2
    <3>2. ~t.fresh
      BY <2>2, <3>1 DEF Lapsed
    <3> QED BY <1>1, <1>3, <2>2, <3>1, <3>2 DEF Based
  <2> QED BY <2>1, <2>2 DEF Based
<1>12. Held(R, e, v)
  <2>1. CASE m.fresh
    <3>1. v.lastSeq = 0
      BY <1>6, <2>1
    <3>2. \A s, x : ~LastWrite(R, s, 0, x)
      BY PositiveSeqs DEF LastWrite
    <3> QED BY <3>1, <3>2 DEF Held
  <2>2. CASE ~m.fresh
    <3>1. v.lastSeq = t.lastSeq /\ v.confirmed = t.confirmed /\ v.buffered = t.buffered
          /\ t.epoch = e
      BY <1>3, <1>6, <2>2
    <3>2. View(v) = View(t)
      BY <3>1 DEF View
    <3>3. ~v.stray => ~t.stray
      BY <1>6
    <3> QED BY <1>1, <3>1, <3>2, <3>3 DEF Held
  <2> QED BY <2>1, <2>2
<1>13. Seen(R, e, v)
  <2> SUFFICES ASSUME ~v.fresh, NEW i \in DOMAIN v.pending
               PROVE  SawOk(R, v.pending[i].op, v.pending[i].base)
    BY DEF Seen
  <2>1. CASE Lapsed(t, m)
    BY <1>6, <2>1 DEF SawOk
  <2>2. CASE ~Lapsed(t, m)
    <3>1. ~m.fresh /\ v.pending = t.pending
      BY <1>6, <2>2
    <3>2. ~t.fresh
      BY <2>2, <3>1 DEF Lapsed
    <3> QED BY <1>1, <1>3, <3>1, <3>2 DEF Seen
  <2> QED BY <2>1, <2>2
<1> QED BY <1>6, <1>9, <1>10, <1>11, <1>12, <1>13, StandsRead

LEMMA SyncedEffect ==
    ASSUME NEW O, O \subseteq Op, Forgets(O), NEW t \in TabOf(O),
           NEW m \in DownMsg(O), m.t = "synced", NEW v, v = SyncedTab(t, m)
    PROVE  /\ v.conn = t.conn /\ v.epoch = t.epoch /\ v.stray = t.stray
           /\ v.synced = TRUE /\ v.fresh = FALSE /\ v.lastSeq = Max2(t.lastSeq, m.seq)
           /\ v.confirmed = t.confirmed /\ v.buffered = t.buffered
           /\ ~t.fresh => v.pending = t.pending
           /\ t.fresh => \A i \in DOMAIN v.pending :
                            v.pending[i].op.saw = NoDeck /\ v.pending[i].base = v.lastSeq
           /\ SameIds(t, v) /\ v.pending \in Seq(Entry(O))
PROOF
<1>1. m.seq \in Nat /\ t.lastSeq \in Nat /\ t.pending \in Seq(Entry(O))
      /\ \A i \in DOMAIN t.pending : t.pending[i] \in Entry(O)
  BY MsgKinds, TabEntries DEF TabOf
<1> DEFINE seq == Max2(t.lastSeq, m.seq)
<1>2. seq \in Nat
  BY <1>1 DEF Max2
<1>3. v = [t EXCEPT !.synced = TRUE, !.lastSeq = seq, !.fresh = FALSE,
                    !.pending = IF t.fresh THEN [i \in DOMAIN t.pending |-> Rebased(t.pending[i], seq)]
                                ELSE t.pending]
  BY DEF SyncedTab
<1> HIDE DEF seq
<1> DEFINE r == [i \in DOMAIN t.pending |-> Rebased(t.pending[i], seq)]
           q == IF t.fresh THEN r ELSE t.pending
<1>4. DOMAIN r = DOMAIN t.pending
  OBVIOUS
<1>5. \A i \in DOMAIN t.pending :
         r[i].op.id = t.pending[i].op.id /\ r[i].op.saw = NoDeck /\ r[i].base = seq
  <2>1. SUFFICES ASSUME NEW i \in DOMAIN t.pending
                 PROVE  /\ Rebased(t.pending[i], seq).op.id = t.pending[i].op.id
                        /\ Rebased(t.pending[i], seq).op.saw = NoDeck
                        /\ Rebased(t.pending[i], seq).base = seq
    OBVIOUS
  <2>2. \A p \in Entry(O) :
           /\ Rebased(p, seq).op = Unseen(p).op /\ Rebased(p, seq).base = seq
           /\ Unseen(p).op.id = p.op.id /\ Unseen(p).op.saw = NoDeck
    BY <1>2, UnseenType
  <2> QED BY <1>1, <2>2
<1>6. q \in Seq(Entry(O))
  BY <1>1, <1>2, PendingMapped
<1>7. v = [t EXCEPT !.synced = TRUE, !.lastSeq = seq, !.fresh = FALSE, !.pending = q]
  BY <1>3
<1>8. (~t.fresh => q = t.pending) /\ (t.fresh => q = r)
  OBVIOUS
<1> HIDE DEF q, r
<1>9. /\ v.conn = t.conn /\ v.epoch = t.epoch /\ v.stray = t.stray
      /\ v.synced = TRUE /\ v.fresh = FALSE /\ v.lastSeq = seq
      /\ v.confirmed = t.confirmed /\ v.buffered = t.buffered /\ v.pending = q
  BY <1>7 DEF TabOf
<1>10. SameIds(t, v)
  BY <1>4, <1>5, <1>8, <1>9 DEF SameIds
<1>11. t.fresh => \A i \in DOMAIN v.pending :
                     v.pending[i].op.saw = NoDeck /\ v.pending[i].base = v.lastSeq
  BY <1>4, <1>5, <1>8, <1>9
<1> QED BY <1>6, <1>8, <1>9, <1>10, <1>11 DEF seq

(* What is resent comes after what the socket has been sent before.        *)
Resends(p, u, w) ==
    \A i \in DOMAIN w : w[i].t = "op" =>
        \E j \in DOMAIN p : i = Len(u) + j /\ w[i] = Wire(p[j])

LEMMA Concatenated ==
    ASSUME NEW S, NEW a \in Seq(S), NEW b \in Seq(S), NEW w, w = a \o b
    PROVE  /\ w \in Seq(S) /\ Len(w) = Len(a) + Len(b)
           /\ \A i \in 1..Len(w) : w[i] = IF i <= Len(a) THEN a[i] ELSE b[i - Len(a)]
BY ConcatProperties

LEMMA ResendsWires ==
    ASSUME NEW O, NEW u \in Seq(UpMsg(O)), \A i \in DOMAIN u : u[i].t # "op",
           NEW p \in Seq(Entry(O)), NEW w, w = u \o Wires(p)
    PROVE  Resends(p, u, w) /\ Len(u) \in Nat
PROOF
<1> DEFINE q == Wires(p)
<1>1. q \in Seq(UpMsg(O)) /\ Len(q) = Len(p) /\ \A j \in DOMAIN p : q[j] = Wire(p[j])
  BY OpsType
<1>2. /\ DOMAIN p = 1..Len(p) /\ Len(p) \in Nat /\ DOMAIN u = 1..Len(u) /\ Len(u) \in Nat
  BY LenProperties
<1> HIDE DEF q
<1>3. /\ w \in Seq(UpMsg(O)) /\ Len(w) = Len(u) + Len(q)
      /\ \A i \in 1..Len(w) : w[i] = IF i <= Len(u) THEN u[i] ELSE q[i - Len(u)]
  <2>1. q \in Seq(UpMsg(O)) /\ w = u \o q
    BY <1>1 DEF q
  <2> QED BY <2>1, Concatenated
<1>4. DOMAIN w = 1..Len(w)
  BY <1>3, LenProperties
<1>5. ASSUME NEW i \in DOMAIN w, w[i].t = "op"
      PROVE  \E j \in DOMAIN p : i = Len(u) + j /\ w[i] = Wire(p[j])
  <2>1. ~(i <= Len(u))
    BY <1>2, <1>3, <1>4, <1>5
  <2>2. i - Len(u) \in DOMAIN p /\ i = Len(u) + (i - Len(u)) /\ w[i] = q[i - Len(u)]
    BY <1>1, <1>2, <1>3, <1>4, <2>1
  <2> QED BY <1>1, <2>2
<1> QED BY <1>2, <1>5 DEF Resends

(* The end of the catch-up: the tab is at the end of the order as it was   *)
(* at the join; it re-bases what is pending if it started afresh, and      *)
(* resends it.                                                             *)
LEMMA StandsSynced ==
    ASSUME NEW O, O \subseteq Op, Forgets(O),
           NEW R, IsOrder(O, R), NEW e \in Nat, NEW kicked,
           NEW t \in TabOf(O), NEW f \in Seq(DownMsg(O)), f # <<>>,
           NEW u \in Seq(UpMsg(O)), NEW l,
           Stands(R, e, kicked, t, f, u, l), t.conn = "open", f[1].t = "synced",
           NEW v, v = SyncedTab(t, f[1]), NEW w, w = u \o Wires(v.pending)
    PROVE  Stands(R, e, kicked, v, Tail(f), w, l)
PROOF
<1> DEFINE m == f[1]
           seq == Max2(t.lastSeq, m.seq)
<1>1. /\ Flow(e, t, f, u) /\ Distinct(t, u) /\ Based(R, e, t) /\ Held(R, e, t) /\ Seen(R, e, t)
      /\ Placed(R, f) /\ Covered(R, kicked, t, f)
  BY DEF Stands
<1>2. ~Greeted(Tail(f)) /\ 1 \in DOMAIN f /\ m \in DownMsg(O)
  BY <1>1, GreetedOnce
<1>3. t.epoch = e /\ Start(t, f) = t.lastSeq /\ ~Greeted(f) /\ t.lastSeq \in Nat
  BY <1>1, StartNoWelcome
<1>4. m.seq \in Nat /\ SeqOf(m) = m.seq /\ ~Placing(m)
  BY <1>2, MsgKinds DEF Placing, SeqOf
<1>5. R.hi \in Nat /\ R.lo \in Nat /\ m.seq <= R.hi /\ t.lastSeq <= R.hi
  BY <1>1, <1>2, <1>3, <1>4 DEF Placed, Based, IsOrder
<1>6. /\ ~t.synced
      /\ \A k \in DOMAIN f : f[k].t \notin {"ack", "reject"}
      /\ \A i \in DOMAIN u : u[i].t # "op"
  BY <1>1, <1>2 DEF Flow
<1>7. /\ v.conn = t.conn /\ v.epoch = t.epoch /\ v.stray = t.stray
      /\ v.synced = TRUE /\ v.fresh = FALSE /\ v.lastSeq = Max2(t.lastSeq, m.seq)
      /\ v.confirmed = t.confirmed /\ v.buffered = t.buffered
      /\ ~t.fresh => v.pending = t.pending
      /\ t.fresh => \A i \in DOMAIN v.pending :
                       v.pending[i].op.saw = NoDeck /\ v.pending[i].base = v.lastSeq
      /\ SameIds(t, v) /\ v.pending \in Seq(Entry(O))
  <2>1. m.t = "synced" /\ v = SyncedTab(t, m)
    OBVIOUS
  <2> HIDE DEF m
  <2> QED BY <1>2, <2>1, SyncedEffect
<1>8. \A x : ~Settles(Start(t, f), f, 1, x)
  BY DEF Settles
<1> HIDE DEF m
<1>9. v.lastSeq \in Nat /\ t.lastSeq <= v.lastSeq /\ v.lastSeq <= R.hi
      /\ v.lastSeq \in {t.lastSeq, m.seq}
  BY <1>3, <1>4, <1>5, <1>7 DEF Max2
<1>10. /\ \A x : Has(v.pending, x) <=> Has(t.pending, x)
       /\ \A i, j \in DOMAIN v.pending : v.pending[i].op.id = v.pending[j].op.id => i = j
  <2>1. SameIds(t, v)
    BY <1>7
  <2>2. Keeps(t, v)
    BY <1>1, <2>1, PendingKept
  <2> QED BY <2>2 DEF Keeps
<1>11. Resends(v.pending, u, w) /\ Len(u) \in Nat
  BY <1>6, <1>7, ResendsWires
<1>12. /\ DOMAIN v.pending = 1..Len(v.pending) /\ Len(v.pending) \in Nat
       /\ \A j \in DOMAIN v.pending : v.pending[j].base \in Nat
  <2>1. DOMAIN v.pending = 1..Len(v.pending) /\ Len(v.pending) \in Nat
        /\ \A j \in DOMAIN v.pending : v.pending[j] \in Entry(O)
    BY <1>7, LenProperties, ElementOfSeq
  <2> QED BY <2>1 DEF Entry
<1>13. Distinct(v, w)
  <2>1. ASSUME NEW i \in DOMAIN w, NEW k \in DOMAIN w, w[i].t = "op", w[k].t = "op",
               w[i].op.id = w[k].op.id
        PROVE  i = k
    <3>1. PICK j \in DOMAIN v.pending : i = Len(u) + j /\ w[i] = Wire(v.pending[j])
      BY <1>11, <2>1 DEF Resends
    <3>2. PICK h \in DOMAIN v.pending : k = Len(u) + h /\ w[k] = Wire(v.pending[h])
      BY <1>11, <2>1 DEF Resends
    <3>3. v.pending[j].op.id = v.pending[h].op.id
      BY <2>1, <3>1, <3>2 DEF Wire
    <3> QED BY <1>10, <3>1, <3>2, <3>3
  <2> QED BY <1>10, <2>1 DEF Distinct
<1>14. Moves(e, t, f, v)
  BY <1>2, <1>3, <1>4, <1>7, <1>8, <1>10 DEF Moves, m
<1>15. \A j \in DOMAIN v.pending : ~v.stray => v.pending[j].base <= v.lastSeq
  <2> SUFFICES ASSUME NEW j \in DOMAIN v.pending, ~v.stray
               PROVE  v.pending[j].base <= v.lastSeq
    OBVIOUS
  <2>1. CASE t.fresh
    BY <1>7, <1>9, <2>1
  <2>2. CASE ~t.fresh
    <3>1. v.pending[j].base <= t.lastSeq
      BY <1>1, <1>3, <1>7, <2>2 DEF Based
    <3> QED BY <1>3, <1>9, <1>12, <3>1
  <2> QED BY <2>1, <2>2
<1>16. Based(R, e, v)
  BY <1>9, <1>15 DEF Based
<1>17. Held(R, e, v)
  <2>1. ASSUME NEW r \in Logged(R), t.lastSeq < r
        PROVE  v.lastSeq < r
    <3>1. r \in Nat
      BY <1>5 DEF Logged
    <3>2. ~(r <= m.seq)
      BY <1>1, <1>3, <1>4, <2>1, NothingBetween DEF m
    <3> QED BY <1>4, <1>9, <2>1, <3>1, <3>2
  <2> QED BY <1>1, <1>3, <1>7, <1>9, <2>1, HeldStill
<1>18. Seen(R, e, v)
  <2> SUFFICES ASSUME NEW i \in DOMAIN v.pending
               PROVE  SawOk(R, v.pending[i].op, v.pending[i].base)
    BY DEF Seen
  <2>1. CASE t.fresh
    BY <1>7, <2>1 DEF SawOk
  <2>2. CASE ~t.fresh
    BY <1>1, <1>3, <1>7, <2>2 DEF Seen
  <2> QED BY <2>1, <2>2
<1>19. SawAll(R, w)
  <2> SUFFICES ASSUME NEW i \in DOMAIN w, w[i].t = "op"
               PROVE  SawOk(R, w[i].op, w[i].base)
    BY DEF SawAll
  <2>1. PICK j \in DOMAIN v.pending : w[i] = Wire(v.pending[j])
    BY <1>11 DEF Resends
  <2>2. SawOk(R, v.pending[j].op, v.pending[j].base)
    BY <1>3, <1>7, <1>18 DEF Seen
  <2> QED BY <2>1, <2>2 DEF Wire
<1>20. Sent(R, v, Tail(f), w)
  <2> SUFFICES ASSUME ~v.stray, NEW i \in DOMAIN w, w[i].t = "op"
               PROVE  Unanswered(R, v, Tail(f), w[i])
    BY DEF Sent
  <2>1. PICK j \in DOMAIN v.pending : w[i] = Wire(v.pending[j])
    BY <1>11 DEF Resends
  <2> DEFINE b == v.pending[j].base
             id == v.pending[j].op.id
             g == Tail(f)
  <2>2. w[i].base = b /\ w[i].op.id = id /\ b \in Nat /\ b <= v.lastSeq
    BY <1>12, <1>15, <2>1 DEF Wire
  <2>3. Has(v.pending, id)
    BY DEF Has
  <2>4. b <= R.hi
    BY <1>5, <1>9, <2>2
  <2>5. Start(v, g) = v.lastSeq
    BY <1>2 DEF Start
  <2>6. ASSUME NEW k \in DOMAIN g, Settles(Start(v, g), g, k, id)
        PROVE  (b < R.lo) \/ \E s \in Logged(R) : b < s /\ R.at[s].id = id
    <3>1. g[k].t \notin {"ack", "reject"} /\ g \in Seq(DownMsg(O))
      BY <1>6, TailEntries
    <3>2. g[k].t = "stamped" /\ g[k].op.id = id /\ News(v.lastSeq, g, k)
      BY <2>5, <2>6, <3>1 DEF Settles
    <3>3. g[k] \in DownMsg(O)
      BY <3>1, MsgsType
    <3>4. g[k].seq \in Nat /\ SeqOf(g[k]) = g[k].seq /\ Placing(g[k]) /\ IdOf(g[k]) = id
      BY <3>2, <3>3, MsgKinds DEF Placing, IdOf
    <3>5. Placed(R, g)
      BY <1>1, PlacedTail
    <3>6. /\ v.lastSeq < g[k].seq /\ g[k].seq <= R.hi
          /\ R.lo < g[k].seq => R.at[g[k].seq].id = id
      BY <3>2, <3>4, <3>5 DEF Placed, News
    <3> HIDE DEF b, id, g
    <3>7. CASE R.lo < g[k].seq
      <4>1. g[k].seq \in Logged(R)
        BY <1>5, <3>4, <3>6, <3>7 DEF Logged
      <4>2. b < g[k].seq
        BY <1>9, <2>2, <3>4, <3>6
      <4> QED BY <3>6, <3>7, <4>1, <4>2
    <3>8. CASE ~(R.lo < g[k].seq)
      <4>1. b < R.lo
        BY <1>5, <1>9, <2>2, <3>4, <3>6, <3>8
      <4> QED BY <4>1
    <3> QED BY <3>7, <3>8
  <2> HIDE DEF b, id, g
  <2> QED BY <2>2, <2>3, <2>4, <2>6 DEF Unanswered, g
<1> QED BY <1>7, <1>13, <1>14, <1>16, <1>17, <1>18, <1>19, <1>20, StandsMoved

-----------------------------------------------------------------------------
(* Whatever the message is.                                                *)

LEMMA StandsReceived ==
    ASSUME NEW O, O \subseteq Op, Forgets(O), \A o, p \in O : o.id = p.id => o.cells = p.cells,
           NEW R, IsOrder(O, R), NEW e \in Nat, NEW kicked,
           NEW t \in TabOf(O), NEW f \in Seq(DownMsg(O)), f # <<>>,
           NEW u \in Seq(UpMsg(O)), NEW l,
           Stands(R, e, kicked, t, f, u, l), t.conn = "open",
           t.confirmed # NoDeck => t.buffered = <<>>,
           f[1].t \in {"welcome", "synced", "ack", "reject", "stamped"},
           NEW v, v = ReceiveTab(t, f[1]),
           NEW w, w = IF f[1].t = "synced" THEN u \o Wires(v.pending) ELSE u
    PROVE  Stands(R, e, kicked, v, Tail(f), w, l)
PROOF
<1>1. CASE f[1].t = "welcome"
  <2>1. v = WelcomeTab(t, f[1]) /\ w = u
    BY <1>1 DEF ReceiveTab
  <2> QED BY <1>1, <2>1, StandsGreeted
<1>2. CASE f[1].t = "synced"
  <2>1. v = SyncedTab(t, f[1]) /\ w = u \o Wires(v.pending)
    BY <1>2 DEF ReceiveTab
  <2> QED BY <1>2, <2>1, StandsSynced
<1>3. CASE f[1].t = "ack"
  <2>1. v = AckedTab(t, f[1]) /\ w = u
    BY <1>3 DEF ReceiveTab
  <2> QED BY <1>3, <2>1, StandsAcked
<1>4. CASE f[1].t = "reject"
  <2>1. v = RejectedTab(t, f[1]) /\ w = u
    BY <1>4 DEF ReceiveTab
  <2> QED BY <1>4, <2>1, StandsRejected
<1>5. CASE f[1].t = "stamped"
  <2>1. v = RemoteTab(t, f[1]) /\ w = u
    BY <1>5 DEF ReceiveTab
  <2> QED BY <1>5, <2>1, StandsApplied
<1> QED BY <1>1, <1>2, <1>3, <1>4, <1>5

LEMMA LineTail ==
    ASSUME NEW O, NEW p \in Seq(DownMsg(O)), p # <<>>, NEW q \in Seq(DownMsg(O))
    PROVE  /\ Line(p, q) # <<>> /\ Line(p, q)[1] = Head(p)
           /\ Tail(Line(p, q)) = Line(Tail(p), q)
PROOF
<1> DEFINE S == DownMsg(O)
           g == Line(p, q)
           h == Line(Tail(p), q)
<1> HIDE DEF S
<1>1. p \in Seq(S) /\ q \in Seq(S)
  BY DEF S
<1>2. /\ Len(p) \in Nat /\ Len(q) \in Nat /\ Len(p) # 0 /\ Head(p) = p[1]
      /\ Tail(p) \in Seq(S) /\ Len(Tail(p)) = Len(p) - 1
      /\ \A i \in 1..Len(Tail(p)) : Tail(p)[i] = p[i + 1]
  BY <1>1, LenProperties, EmptySeq, HeadTailProperties
<1>3. /\ g \in Seq(S) /\ Len(g) = Len(p) + Len(q)
      /\ \A i \in 1..Len(g) : g[i] = IF i <= Len(p) THEN p[i] ELSE q[i - Len(p)]
  BY <1>1, Concatenated DEF Line
<1>4. /\ h \in Seq(S) /\ Len(h) = Len(Tail(p)) + Len(q)
      /\ \A i \in 1..Len(h) : h[i] = IF i <= Len(Tail(p)) THEN Tail(p)[i] ELSE q[i - Len(Tail(p))]
  BY <1>1, <1>2, Concatenated DEF Line
<1> HIDE DEF g, h
<1>5. g # <<>> /\ g[1] = p[1]
  BY <1>2, <1>3
<1>6. /\ Tail(g) \in Seq(S) /\ Len(Tail(g)) = Len(g) - 1
      /\ \A i \in 1..Len(Tail(g)) : Tail(g)[i] = g[i + 1]
  BY <1>3, <1>5, HeadTailProperties
<1>7. Len(Tail(g)) = Len(h) /\ Len(h) \in Nat
  BY <1>2, <1>3, <1>4, <1>6
<1>8. \A i \in 1..Len(h) : Tail(g)[i] = h[i]
  <2> SUFFICES ASSUME NEW i \in 1..Len(h)
               PROVE  Tail(g)[i] = h[i]
    OBVIOUS
  <2>1. Tail(g)[i] = g[i + 1] /\ i + 1 \in 1..Len(g)
    BY <1>2, <1>3, <1>6, <1>7
  <2>2. CASE i <= Len(Tail(p))
    BY <1>2, <1>3, <1>4, <2>1, <2>2
  <2>3. CASE ~(i <= Len(Tail(p)))
    <3>1. ~(i + 1 <= Len(p)) /\ i + 1 - Len(p) = i - Len(Tail(p))
      BY <1>2, <1>7, <2>3
    <3> QED BY <1>3, <1>4, <2>1, <2>3, <3>1
  <2> QED BY <2>2, <2>3
<1>9. Tail(g) = h
  BY <1>4, <1>6, <1>7, <1>8, SeqEqual
<1> QED BY <1>2, <1>5, <1>9 DEF g, h

LEMMA LineEmpty ==
    ASSUME NEW O, NEW q \in Seq(DownMsg(O))
    PROVE  Line(<<>>, q) = q
BY ConcatEmptySeq DEF Line

(* The tab takes the first message of its line.                            *)
LEMMA ReceiveTakes ==
    ASSUME NEW O, TypeInv(O), NEW c \in Clients, Receive(c)
    PROVE  /\ Msgs(c) # <<>> /\ Msgs(c)[1] = Incoming(c) /\ Msgs(c)' = Tail(Msgs(c))
           /\ \A d \in Clients \ {c} : catchUp'[d] = catchUp[d] /\ out'[d] = out[d]
PROOF
<1>1. catchUp[c] \in Seq(DownMsg(O)) /\ out[c] \in Seq(DownMsg(O)) /\ NetTyped(O)
  BY ClientTyped
<1>2. Msgs(c) = Line(catchUp[c], out[c]) /\ Msgs(c)' = Line(catchUp'[c], out'[c])
  BY DEF Msgs, Line
<1>3. CASE catchUp[c] # <<>> /\ catchUp' = [catchUp EXCEPT ![c] = Tail(@)] /\ UNCHANGED out
  <2>1. /\ Line(catchUp[c], out[c]) # <<>> /\ Line(catchUp[c], out[c])[1] = Head(catchUp[c])
        /\ Tail(Line(catchUp[c], out[c])) = Line(Tail(catchUp[c]), out[c])
    <3>1. \A p, q \in Seq(DownMsg(O)) : p # <<>> =>
             /\ Line(p, q) # <<>> /\ Line(p, q)[1] = Head(p)
             /\ Tail(Line(p, q)) = Line(Tail(p), q)
      BY LineTail
    <3> QED BY <1>1, <1>3, <3>1
  <2>2. /\ catchUp'[c] = Tail(catchUp[c]) /\ out'[c] = out[c]
        /\ \A d \in Clients \ {c} : catchUp'[d] = catchUp[d] /\ out'[d] = out[d]
    BY <1>1, <1>3 DEF NetTyped
  <2>3. Incoming(c) = Head(catchUp[c])
    BY <1>3 DEF Incoming
  <2> QED BY <1>2, <2>1, <2>2, <2>3
<1>4. CASE /\ catchUp[c] = <<>> /\ out[c] # <<>> /\ out' = [out EXCEPT ![c] = Tail(@)]
           /\ UNCHANGED catchUp
  <2>1. /\ catchUp'[c] = <<>> /\ out'[c] = Tail(out[c])
        /\ \A d \in Clients \ {c} : catchUp'[d] = catchUp[d] /\ out'[d] = out[d]
    BY <1>1, <1>4 DEF NetTyped
  <2>2. Tail(out[c]) \in Seq(DownMsg(O)) /\ Head(out[c]) = out[c][1]
    BY <1>1, <1>4, HeadTailProperties
  <2>3. Line(<<>>, out[c]) = out[c] /\ Line(<<>>, Tail(out[c])) = Tail(out[c])
    <3>1. \A q \in Seq(DownMsg(O)) : Line(<<>>, q) = q
      BY LineEmpty
    <3> QED BY <1>1, <2>2, <3>1
  <2>4. Incoming(c) = Head(out[c])
    BY <1>4 DEF Incoming
  <2> QED BY <1>2, <1>4, <2>1, <2>2, <2>3, <2>4
<1> QED BY <1>3, <1>4 DEF Receive

LEMMA ReceiveSends ==
    ASSUME NEW O, TypeInv(O), NEW c \in Clients, Receive(c),
           NEW m, m = Incoming(c), NEW v, v = ReceiveTab(tab[c], m)
    PROVE  up' = IF m.t = "synced" THEN [up EXCEPT ![c] = @ \o Wires(v.pending)] ELSE up
PROOF
<1> DEFINE t == tab[c]
<1>1. t \in TabOf(O)
  BY ClientTyped
<1>2. Welcome(c, m) \/ Synced(c, m) \/ Acked(c, m) \/ Rejected(c, m) \/ Remote(c, m)
  BY DEF Receive
<1>3. CASE Synced(c, m)
  <2>1. m.t = "synced" /\ v = SyncedTab(t, m)
    BY <1>3 DEF Synced, ReceiveTab
  <2>2. up' = [up EXCEPT ![c] = @ \o Wires(SyncedTab(t, m).pending)]
    BY <1>1, <1>3 DEF Synced, SyncedTab, TabOf
  <2> QED BY <2>1, <2>2
<1>4. CASE Welcome(c, m)
  BY <1>4 DEF Welcome
<1>5. CASE Acked(c, m) \/ Rejected(c, m)
  BY <1>5 DEF Acked, Rejected
<1>6. CASE Remote(c, m)
  BY <1>6 DEF Remote
<1> QED BY <1>2, <1>3, <1>4, <1>5, <1>6

LEMMA ReceiveInOrder ==
    ASSUME NEW O, TypeInv(O), InOrder, NEW c \in Clients, Receive(c)
    PROVE  InOrder'
PROOF
<1> DEFINE m == Incoming(c)
           v == ReceiveTab(tab[c], m)
           w == IF m.t = "synced" THEN up[c] \o Wires(v.pending) ELSE up[c]
<1>1. /\ O \subseteq Op /\ NetTyped(O) /\ epoch \in Nat /\ IsOrder(O, Order)
      /\ tab[c] \in TabOf(O) /\ up[c] \in Seq(UpMsg(O)) /\ Msgs(c) \in Seq(DownMsg(O))
      /\ Loading(tab[c], fetch[c])
  BY ClientTyped
<1>2. Quiet(c) /\ Stands(Order, epoch, Kicked(c), tab[c], Msgs(c), up[c], late[c])
  BY OrderGiven
<1>3. Forgets(O) /\ (\A o, p \in O : o.id = p.id => o.cells = p.cells) /\ TabsTyped(O)
  BY DEF TypeInv, Coherent
<1>4. /\ m.t \in {"welcome", "synced", "ack", "reject", "stamped"} /\ m \in DownMsg(O)
      /\ tab' = [tab EXCEPT ![c] = v] /\ v \in TabOf(O) /\ v.conn = tab[c].conn
  BY ReceiveTyped
<1>5. /\ Msgs(c) # <<>> /\ Msgs(c)[1] = m /\ Msgs(c)' = Tail(Msgs(c))
      /\ \A d \in Clients \ {c} : catchUp'[d] = catchUp[d] /\ out'[d] = out[d]
  BY ReceiveTakes
<1>6. up' = IF m.t = "synced" THEN [up EXCEPT ![c] = @ \o Wires(v.pending)] ELSE up
  BY ReceiveSends
<1>7. tab[c].conn = "open" /\ UNCHANGED <<epoch, log, base>> /\ UNCHANGED <<ghosts, late, cut>>
  BY DEF Receive, Welcome, Synced, Acked, Rejected, Remote, Becomes, room
<1>8. Stands(Order, epoch, Kicked(c), v, Tail(Msgs(c)), w, late[c])
  <2>1. tab[c].confirmed # NoDeck => tab[c].buffered = <<>>
    BY <1>1 DEF Loading
  <2>2. v = ReceiveTab(tab[c], Msgs(c)[1])
        /\ w = IF Msgs(c)[1].t = "synced" THEN up[c] \o Wires(v.pending) ELSE up[c]
    BY <1>5
  <2> HIDE DEF v, w, m
  <2> QED BY <1>1, <1>2, <1>3, <1>4, <1>5, <1>7, <2>1, <2>2, StandsReceived
<1>9. up'[c] = w /\ \A d \in Clients \ {c} : up'[d] = up[d]
  <2> HIDE DEF v, m
  <2> QED BY <1>1, <1>6 DEF NetTyped
<1> HIDE DEF v, w, m
<1>10. tab'[c] = v /\ \A d \in Clients \ {c} : tab'[d] = tab[d]
  BY <1>3, <1>4 DEF TabsTyped
<1>11. Kicked(c)' = Kicked(c) /\ late'[c] = late[c]
       /\ \A d \in Clients \ {c} :
             late'[d] = late[d] /\ (d \in cut' <=> d \in cut) /\ (d \in ghosts' <=> d \in ghosts)
  BY <1>7 DEF Kicked
<1>12. Quiet(c)'
  BY <1>2, <1>4, <1>7, <1>10 DEF Quiet
<1>13. Stands(Order, epoch, Kicked(c)', tab'[c], Msgs(c)', up'[c], late'[c])
  BY <1>5, <1>8, <1>9, <1>10, <1>11
<1> QED BY <1>5, <1>7, <1>9, <1>10, <1>11, <1>12, <1>13, OneMoves

-----------------------------------------------------------------------------
(* The invariant and what follows from it.                                 *)

LEMMA InitInOrder ==
    ASSUME Init
    PROVE  InOrder
PROOF
<1> DEFINE R == Order
<1>1. R = OrderOf(0, <<>>)
  BY DEF Init, Order
<1>2. IsOrder({}, R)
  BY <1>1, EmptySeq, OrderOfType
<1>3. Orderly(R)
  BY <1>1, EmptyOrder
<1>4. R.hi \in Nat /\ \A s \in Logged(R) : s \in Nat /\ 0 < s
  BY <1>2, PositiveSeqs
<1> HIDE DEF R
<1>5. ASSUME NEW c \in Clients
      PROVE  Quiet(c) /\ Follows(R, c)
  <2>1. /\ tab[c] = NewTab(0, {}) /\ late[c] = <<>> /\ up[c] = <<>> /\ catchUp[c] = <<>>
        /\ out[c] = <<>> /\ epoch = 0
    BY DEF Init
  <2>2. Msgs(c) = <<>>
    BY <2>1, ConcatEmptySeq, EmptySeq DEF Msgs
  <2>3. SawAll(R, late[c])
    BY <2>1 DEF SawAll
  <2>4. Stands(R, epoch, Kicked(c), tab[c], <<>>, <<>>, late[c])
    BY <1>4, <2>1, <2>3, 0 \in Nat, StandsNew
  <2> QED BY <2>1, <2>2, <2>4 DEF Quiet, Follows
<1> QED BY <1>3, <1>5 DEF InOrder, R

LEMMA StepInOrder ==
    ASSUME NEW O, TypeInv(O), InOrder, NEW c \in Clients, Disturb(c) \/ Proceed(c)
    PROVE  InOrder'
PROOF
<1>1. CASE \E cells \in Keys : Edit(c, cells)
  BY <1>1, EditInOrder
<1>2. CASE SaveStart(c) \/ GetDeck(c)
  BY <1>2, SaveStartInOrder
<1>3. CASE Restore(c) \/ Close(c)
  BY <1>3, RestoreInOrder, CloseInOrder
<1>4. CASE Dial(c) \/ Join(c)
  BY <1>4, DialInOrder, JoinInOrder
<1>5. CASE Read(c) \/ ReadLate(c) \/ Remove(c)
  BY <1>5, ReadInOrder, ReadLateInOrder, RemoveInOrder
<1>6. CASE Loaded(c) \/ SaveDone(c)
  BY <1>6, LoadedInOrder, SaveDoneInOrder
<1>7. CASE Receive(c) \/ ReceiveRestored(c)
  BY <1>7, ReceiveInOrder, ReceiveRestoredInOrder
<1> QED BY <1>1, <1>2, <1>3, <1>4, <1>5, <1>6, <1>7 DEF Disturb, Proceed

TypedInOrder == \E O \in SUBSET Op : TypeInv(O) /\ InOrder

LEMMA InductiveOrder ==
    /\ Init => TypedInOrder
    /\ TypedInOrder /\ [Next]_vars => TypedInOrder'
PROOF
<1>1. Init => TypedInOrder
  BY InitTyped, InitInOrder DEF TypedInOrder
<1>2. TypedInOrder /\ [Next]_vars => TypedInOrder'
  <2> SUFFICES ASSUME TypedInOrder, [Next]_vars
               PROVE  \E O \in SUBSET Op : TypeInv(O)' /\ InOrder'
    BY DEF TypedInOrder
  <2>1. PICK O \in SUBSET Op : TypeInv(O) /\ InOrder
    BY DEF TypedInOrder
  <2>2. CASE UNCHANGED vars
    <3>1. TypeInv(O)'
      BY <2>1, <2>2, StutterTyped
    <3>2. UNCHANGED <<epoch, log, base, tab, catchUp, out, up, late, cut, ghosts>>
      BY <2>2 DEF vars, room, net
    <3>3. InOrder'
      BY <2>1, <3>2, NobodyMoves
    <3> QED BY <3>1, <3>3
  <2>3. CASE Next
    <3>1. PICK c \in Clients : Disturb(c) \/ Proceed(c)
      BY <2>3 DEF Next
    <3>2. InOrder'
      BY <2>1, <3>1, StepInOrder
    <3>3. CASE TypeInv(O)'
      BY <3>2, <3>3
    <3>4. CASE \E cells \in Keys :
                  Edit(c, cells) /\ \A P : P = WithEdit(O, c, cells) => TypeInv(P)'
      <4>1. PICK cells \in Keys : \A P : P = WithEdit(O, c, cells) => TypeInv(P)'
        BY <3>4
      <4>2. PICK P : P = WithEdit(O, c, cells)
        OBVIOUS
      <4>3. TypeInv(P)'
        BY <4>1, <4>2
      <4>4. P \in SUBSET Op
        BY <4>3 DEF TypeInv
      <4> QED BY <3>2, <4>3, <4>4
    <3> QED BY <2>1, <3>1, <3>3, <3>4, StepTyped
  <2> QED BY <2>2, <2>3
<1> QED BY <1>1, <1>2

(* The last of the first log entries that writes x, by its number.         *)
LEMMA LastLogged ==
    ASSUME NEW O, RoomTyped(O), NEW n \in Nat, n <= Order.hi, NEW i, i = n - base + 1, NEW x,
           NEW j \in DOMAIN log, IsLast(j, WritersBefore(i, x)), NEW s, s = base + j
    PROVE  s \in Logged(Order) /\ Order.at[s] = log[j] /\ LastWrite(Order, s, n, x)
PROOF
<1>1. base \in Nat /\ log \in Seq(O) /\ Numbered(Order, base, log) /\ Order.hi = base + Len(log)
  BY OrderTyped DEF RoomTyped, Seqno
<1>2. DOMAIN log = 1..Len(log) /\ Len(log) \in Nat
  BY <1>1, LenProperties
<1>3. s \in Nat /\ s \in Logged(Order) /\ Order.at[s] = log[j]
  <2>1. s \in Nat
    BY <1>1, <1>2
  <2> QED BY <1>1, <2>1 DEF Numbered
<1>4. j \in 1..(n - base) /\ x \in log[j].cells
      /\ \A k \in 1..(n - base) : x \in log[k].cells => k <= j
  <2>1. i - 1 = n - base
    BY <1>1
  <2> QED BY <2>1 DEF IsLast, WritersBefore
<1>5. s <= n
  BY <1>1, <1>2, <1>4
<1>6. ASSUME NEW r \in Logged(Order), r <= n, x \in Order.at[r].cells
      PROVE  r <= s
  <2>1. PICK k \in DOMAIN log : r = base + k /\ Order.at[r] = log[k]
    BY <1>1, EntryOf DEF Order
  <2>2. k \in 1..(n - base)
    BY <1>1, <1>2, <1>6, <2>1
  <2>3. k <= j
    BY <1>4, <1>6, <2>1, <2>2
  <2> QED BY <1>1, <1>2, <2>1, <2>3
<1> QED BY <1>3, <1>4, <1>5, <1>6 DEF LastWrite

LEMMA OrderKeepsStep ==
    ASSUME NEW O, TypeInv(O), InOrder
    PROVE  InStep
PROOF
<1> SUFFICES ASSUME NEW c \in Clients, tab[c].epoch = epoch, tab[c].confirmed # NoDeck,
                    ~tab[c].stray, NEW x \in Cells, NEW j \in DOMAIN log,
                    IsLast(j, WritersBefore(tab[c].lastSeq - base + 1, x))
             PROVE  tab[c].confirmed[x] = log[j].id
  BY DEF InStep
<1> DEFINE t == tab[c]
           n == t.lastSeq
           s == base + j
<1>1. RoomTyped(O) /\ t \in TabOf(O) /\ Loading(t, fetch[c])
  BY ClientTyped
<1>2. n \in Nat
  BY <1>1, TabEntries
<1>3. Based(Order, epoch, t) /\ Held(Order, epoch, t)
  BY OrderGiven DEF Stands
<1>4. n <= Order.hi
  BY <1>3 DEF Based
<1>5. s \in Logged(Order) /\ Order.at[s] = log[j] /\ LastWrite(Order, s, n, x)
  BY <1>1, <1>2, <1>4, LastLogged
<1>6. View(t)[x] = log[j].id
  BY <1>3, <1>5 DEF Held
<1>7. View(t) = t.confirmed
  <2>1. t.confirmed \in Deck /\ t.buffered = <<>>
    BY <1>1 DEF TabOf, Loading
  <2> QED BY <2>1, ApplyNothing DEF View
<1> QED BY <1>6, <1>7

LEMMA OrderIsNotBlind ==
    ASSUME NEW O, TypeInv(O), InOrder
    PROVE  NoBlindOverwrite
PROOF
<1> SUFFICES ASSUME NEW i \in DOMAIN log, log[i].saw # NoDeck, NEW x \in log[i].cells,
                    NEW j \in DOMAIN log, IsLast(j, WritersBefore(i, x))
             PROVE  log[j].by = log[i].by \/ log[j].id = log[i].saw[x]
  BY DEF NoBlindOverwrite
<1> DEFINE n == base + i - 1
           q == base + i
           s == base + j
<1>1. RoomTyped(O)
  BY DEF TypeInv
<1>2. /\ base \in Nat /\ log \in Seq(O) /\ Numbered(Order, base, log)
      /\ Order.hi = base + Len(log)
  BY <1>1, OrderTyped DEF RoomTyped, Seqno
<1>3. DOMAIN log = 1..Len(log) /\ Len(log) \in Nat
  BY <1>2, LenProperties
<1>4. n \in Nat /\ q \in Nat /\ n = q - 1 /\ n <= Order.hi /\ i = n - base + 1
  BY <1>2, <1>3
<1>5. q \in Logged(Order) /\ Order.at[q] = log[i]
  BY <1>2, <1>4 DEF Numbered
<1>6. s \in Logged(Order) /\ Order.at[s] = log[j] /\ LastWrite(Order, s, n, x)
  <2> HIDE DEF n
  <2> QED BY <1>1, <1>4, LastLogged
<1>7. Orderly(Order)
  BY DEF InOrder
<1> HIDE DEF n, q, s
<1> QED BY <1>4, <1>5, <1>6, <1>7 DEF Orderly

(* The order that the hub gives to a deck's operations, what it has sent   *)
(* and a tab not yet read, and what a tab holds and has pending fit        *)
(* together (collab.go join, route, trim and enqueue with collabSync.ts),  *)
(* through every interleaving of edits, lost sockets, kicks, catch-ups,    *)
(* resends, trims, restores and new rooms.                                 *)
THEOREM SlidesInOrder == Spec => []InOrder
PROOF
<1>1. TypedInOrder => InOrder
  BY DEF TypedInOrder
<1> QED BY <1>1, InductiveOrder, PTL DEF Spec

(* For every cell a tab holds the write that the room's order puts last,   *)
(* as far as the tab has come in it: DeckSync.receive (collabSync.ts) on   *)
(* what Hub.join and route send it.                                        *)
THEOREM SlidesInStep == Spec => []InStep
PROOF
<1>1. TypedInOrder => InStep
  BY OrderKeepsStep DEF TypedInOrder
<1> QED BY <1>1, InductiveOrder, PTL DEF Spec

(* No operation takes its place after a write of its cells that its author *)
(* did not see: route's stale test (collab.go), with the bases that tabs   *)
(* send and the entries that trim has dropped.                             *)
THEOREM SlidesNoBlindOverwrite == Spec => []NoBlindOverwrite
PROOF
<1>1. TypedInOrder => NoBlindOverwrite
  BY OrderIsNotBlind DEF TypedInOrder
<1> QED BY <1>1, InductiveOrder, PTL DEF Spec
=============================================================================
