------------------------ MODULE SheetStructure_proofs ------------------------
(***************************************************************************)
(* Proofs about the structure operations of sheets, for sheets of every    *)
(* size. The arithmetic of one axis comes first (where an index and a span *)
(* go), then cells and areas, then what the operations keep of the sheet.  *)
(***************************************************************************)
EXTENDS SheetStructure, TLAPS

AxisOps == [kind : {"insert", "delete", "move"}, index : Nat, count : Nat, to : Nat]

----------------------------------------------------------------------------
\* An index goes to an index; only a deletion takes it away.
LEMMA MapPosType ==
    ASSUME NEW i \in Int, NEW o \in AxisOps
    PROVE  /\ MapPos(i, o) \in Int \cup {Null}
           /\ o.kind # "delete" => MapPos(i, o) \in Int
  BY SMT DEF MapPos, Moved, Deleted, AxisOps

\* Indices stay at or after the first one.
LEMMA MapPosNat ==
    ASSUME NEW i \in Nat, NEW o \in AxisOps
    PROVE  MapPos(i, o) \in Nat \cup {Null}
  BY SMT DEF MapPos, Moved, Deleted, AxisOps

\* No two indices go to the same one.
LEMMA MapPosOneToOne ==
    ASSUME NEW i \in Int, NEW j \in Int, i # j, NEW o \in AxisOps, MapPos(i, o) # Null
    PROVE  MapPos(i, o) # MapPos(j, o)
  BY NullIsNoPlace, SMT DEF MapPos, Moved, Deleted, AxisOps

\* Insertions and deletions keep the order of the indices that stay.
LEMMA MapPosOrder ==
    ASSUME NEW i \in Int, NEW j \in Int, i < j, NEW o \in AxisOps, o.kind # "move",
           MapPos(i, o) # Null, MapPos(j, o) # Null
    PROVE  MapPos(i, o) < MapPos(j, o)
  BY NullIsNoPlace, SMT DEF MapPos, Moved, Deleted, AxisOps

\* A span stays a span, its ends in order.
LEMMA MapIntervalType ==
    ASSUME NEW s \in Span, NEW o \in AxisOps
    PROVE  /\ MapInterval(s, o) \in Span \cup {Null}
           /\ s.lo <= s.hi /\ MapInterval(s, o) # Null => MapInterval(s, o).lo <= MapInterval(s, o).hi
           /\ o.kind # "delete" => MapInterval(s, o) # Null
  <1>1. MapPos(s.lo, o) \in Int \cup {Null} /\ MapPos(s.hi, o) \in Int \cup {Null}
    BY MapPosType DEF Span
  <1>2. o.kind # "delete" => MapPos(s.lo, o) \in Int /\ MapPos(s.hi, o) \in Int
    BY MapPosType DEF Span
  <1>3. CASE o.kind # "delete"
    BY <1>2, <1>3, NullIsNoPlace, SMT DEF MapInterval, Span
  <1>4. CASE o.kind = "delete"
    <2> DEFINE end == o.index + o.count
               lo == IF MapPos(s.lo, o) = Null THEN o.index ELSE MapPos(s.lo, o)
               hi == IF MapPos(s.hi, o) = Null THEN o.index - 1 ELSE MapPos(s.hi, o)
    <2>1. CASE o.index <= s.lo /\ s.hi < end
      BY <1>4, <2>1 DEF MapInterval
    <2>2. CASE ~(o.index <= s.lo /\ s.hi < end)
      <3>1. MapInterval(s, o) = [lo |-> lo, hi |-> hi]
        BY <1>4, <2>2, SMT DEF MapInterval
      <3>2. lo \in Int /\ hi \in Int
        BY <1>1, SMT DEF AxisOps
      <3>3. s.lo <= s.hi => lo <= hi
        BY <1>4, <2>2, NullIsNoPlace, SMT DEF MapPos, Deleted, Span, AxisOps
      <3> HIDE DEF lo, hi
      <3>4. QED
        BY <1>4, <3>1, <3>2, <3>3 DEF Span
    <2>3. QED
      BY <2>1, <2>2
  <1>5. QED
    BY <1>3, <1>4

\* After an insertion or a deletion a span covers exactly the indices it covered.
LEMMA IntervalExact ==
    ASSUME NEW s \in Span, s.lo <= s.hi, NEW i \in Int, NEW o \in AxisOps,
           o.kind # "move", MapPos(i, o) # Null
    PROVE  Covers(s, i) <=> (MapInterval(s, o) # Null /\ Covers(MapInterval(s, o), MapPos(i, o)))
  <1>1. CASE o.kind = "insert"
    BY <1>1, NullIsNoPlace, SMT DEF MapInterval, MapPos, Moved, Deleted, Covers, Span, AxisOps
  <1>2. CASE o.kind = "delete"
    BY <1>2, NullIsNoPlace, SMT DEF MapInterval, MapPos, Moved, Deleted, Covers, Span, AxisOps
  <1>3. QED
    BY <1>1, <1>2 DEF AxisOps

\* A span of one index follows that index, through moves as well.
LEMMA OneIndexFollows ==
    ASSUME NEW i \in Int, NEW o \in AxisOps
    PROVE  MapInterval([lo |-> i, hi |-> i], o) =
             IF MapPos(i, o) = Null THEN Null ELSE [lo |-> MapPos(i, o), hi |-> MapPos(i, o)]
  BY MapPosType, NullIsNoPlace, SMT DEF MapInterval, MapPos, Moved, Deleted, AxisOps

\* Two spans apart stay apart.
LEMMA IntervalsApart ==
    ASSUME NEW s \in Span, NEW t \in Span, s.lo <= s.hi, t.lo <= t.hi, s.hi < t.lo, NEW o \in AxisOps,
           o.kind # "move", MapInterval(s, o) # Null, MapInterval(t, o) # Null
    PROVE  MapInterval(s, o).hi < MapInterval(t, o).lo
  <1>1. CASE o.kind = "insert"
    BY <1>1, NullIsNoPlace, SMT DEF MapInterval, MapPos, Moved, Deleted, Span, AxisOps
  <1>2. CASE o.kind = "delete"
    BY <1>2, NullIsNoPlace, SMT DEF MapInterval, MapPos, Moved, Deleted, Span, AxisOps
  <1>3. QED
    BY <1>1, <1>2 DEF AxisOps

----------------------------------------------------------------------------
\* Every operation is one along an axis.
LEMMA OpTypes ==
    ASSUME NEW op \in Ops
    PROVE  /\ op.axis \in Axes /\ Across(op.axis) \in Axes /\ Across(op.axis) # op.axis
           /\ Axes = {op.axis, Across(op.axis)}
           /\ AxisOp(op) \in AxisOps
           /\ OnCells(op) => op.rect \in Areas
           /\ ~OnCells(op) => AxisOp(op).kind = op.kind
  <1>1. CASE op \in CellOps
    <2>1. op.axis \in Axes /\ op.rect \in Areas /\ OnCells(op)
      BY <1>1 DEF CellOps, OnCells
    <2>2. op.rect[op.axis].lo \in Nat /\ op.rect[op.axis].hi - op.rect[op.axis].lo + 1 \in Nat
      BY <2>1, SheetHasCells DEF Areas, OnSheet, Stands, Indices, Extent, Axes
    <2>3. QED
      BY <2>1, <2>2 DEF AxisOp, AxisOps, Across, Axes
  <1>2. CASE op \in LineOps
    <2>1. /\ op.axis \in Axes /\ op.kind \in {"insert", "delete", "move"}
          /\ op.index \in Nat /\ op.count \in Nat /\ op.to \in Nat
      BY <1>2, SheetHasCells DEF LineOps, Indices, Extent, Axes
    <2>2. ~OnCells(op)
      BY <2>1 DEF OnCells
    <2>3. QED
      BY <2>1, <2>2 DEF AxisOp, AxisOps, Across, Axes
  <1>3. QED
    BY <1>1, <1>2 DEF Ops

\* The cells that an operation on op's axis carries along.
Carried(c, op) == OnCells(op) => Covers(op.rect[Across(op.axis)], c[Across(op.axis)])

\* Where a cell goes: along the axis if it is carried, else nowhere.
LEMMA MapCellAlong ==
    ASSUME NEW c \in Place, NEW op \in Ops
    PROVE  MapCell(c, op) =
             IF ~Carried(c, op) THEN c
             ELSE IF MapPos(c[op.axis], AxisOp(op)) = Null THEN Null
             ELSE [c EXCEPT ![op.axis] = MapPos(c[op.axis], AxisOp(op))]
  <1> DEFINE a == [x \in Axes |-> [lo |-> c[x], hi |-> c[x]]]
             p == MapPos(c[op.axis], AxisOp(op))
  <1>1. op.axis \in Axes /\ Across(op.axis) \in Axes /\ AxisOp(op) \in AxisOps
    BY OpTypes
  <1>2. c \in [Axes -> Int]
    BY DEF Place
  <1>3. a \in Area /\ a[op.axis] = [lo |-> c[op.axis], hi |-> c[op.axis]]
    BY <1>1, <1>2 DEF Area, Span
  <1>4. InLane(a, op) <=> Carried(c, op)
    BY <1>1, <1>2 DEF InLane, Carried, Within, Covers
  <1>5. Reaches("area", op)
    BY DEF Reaches
  <1>6. MapInterval(a[op.axis], AxisOp(op)) = IF p = Null THEN Null ELSE [lo |-> p, hi |-> p]
    BY <1>1, <1>2, <1>3, OneIndexFollows
  <1>7. p \in Int \cup {Null}
    BY <1>1, <1>2, MapPosType
  <1> DEFINE b == [a EXCEPT ![op.axis] = [lo |-> p, hi |-> p]]
  <1>8. MapCell(c, op) = LET d == ShiftArea(a, "area", op) IN IF d = Null THEN Null ELSE [x \in Axes |-> d[x].lo]
    BY DEF MapCell
  <1> HIDE DEF p
  <1>9. CASE ~Carried(c, op)
    <2>1. ShiftArea(a, "area", op) = a /\ a # Null
      BY <1>3, <1>4, <1>9, NullIsNoPlace DEF ShiftArea
    <2>2. [x \in Axes |-> a[x].lo] = c
      BY <1>2
    <2>3. QED
      BY <1>8, <1>9, <2>1, <2>2
  <1>10. CASE Carried(c, op) /\ p = Null
    BY <1>4, <1>5, <1>6, <1>8, <1>10 DEF ShiftArea, p
  <1>11. CASE Carried(c, op) /\ p # Null
    <2>1. p \in Int
      BY <1>7, <1>11
    <2>2. [lo |-> p, hi |-> p] # Null /\ b \in Area /\ b # Null
      BY <1>1, <1>3, <2>1, NullIsNoPlace DEF Area, Span
    <2>3. ShiftArea(a, "area", op) = b
      BY <1>4, <1>5, <1>6, <1>11, <2>2 DEF ShiftArea
    <2>4. [x \in Axes |-> b[x].lo] = [c EXCEPT ![op.axis] = p]
      BY <1>1, <1>2, <1>3, <2>1
    <2>5. QED
      BY <1>8, <1>11, <2>2, <2>3, <2>4 DEF p
  <1>12. QED
    BY <1>9, <1>10, <1>11 DEF p

LEMMA CellsArePlaces ==
    /\ Cells \subseteq Place /\ Null \notin Cells
    /\ \A x \in Axes : Extent(x) \in Nat \ {0} /\ Indices(x) = {i \in Nat : i < Extent(x)}
    /\ \A c \in Place : c \in Cells <=> \A x \in Axes : c[x] \in Indices(x)
  <1>1. \A x \in Axes : Extent(x) \in Nat \ {0}
    BY SheetHasCells DEF Extent
  <1>2. \A x \in Axes : Indices(x) = {i \in Nat : i < Extent(x)}
    BY <1>1 DEF Indices
  <1>3. Cells \subseteq Place
    BY <1>2 DEF Cells, Place, Axes
  <1>4. \A c \in Place : c \in Cells <=> \A x \in Axes : c[x] \in Indices(x)
    BY DEF Cells, Place, Axes
  <1>5. QED
    BY <1>1, <1>2, <1>3, <1>4, NullIsNoPlace

LEMMA MapCellType ==
    ASSUME NEW c \in Place, NEW op \in Ops
    PROVE  /\ MapCell(c, op) \in Place \cup {Null}
           /\ MapCell(c, op) # Null => MapCell(c, op)[Across(op.axis)] = c[Across(op.axis)]
           /\ MapCell(c, op) # Null /\ ~Carried(c, op) => MapCell(c, op) = c
           /\ MapCell(c, op) # Null /\ Carried(c, op) =>
                /\ MapPos(c[op.axis], AxisOp(op)) # Null
                /\ MapCell(c, op)[op.axis] = MapPos(c[op.axis], AxisOp(op))
           /\ MapCell(c, op) = Null => Carried(c, op) /\ MapPos(c[op.axis], AxisOp(op)) = Null
           /\ (\A x \in Axes : c[x] \in Nat) /\ MapCell(c, op) # Null => \A x \in Axes : MapCell(c, op)[x] \in Nat
  <1> DEFINE p == MapPos(c[op.axis], AxisOp(op))
  <1>1. op.axis \in Axes /\ Across(op.axis) \in Axes /\ Across(op.axis) # op.axis /\ AxisOp(op) \in AxisOps
        /\ Axes = {op.axis, Across(op.axis)}
    BY OpTypes
  <1>2. c \in [Axes -> Int] /\ c # Null
    BY NullIsNoPlace DEF Place
  <1>3. p \in Int \cup {Null} /\ (c[op.axis] \in Nat => p \in Nat \cup {Null})
    BY <1>1, <1>2, MapPosType, MapPosNat
  <1>4. MapCell(c, op) = IF ~Carried(c, op) THEN c ELSE IF p = Null THEN Null ELSE [c EXCEPT ![op.axis] = p]
    BY MapCellAlong
  <1> HIDE DEF p
  <1>5. CASE ~Carried(c, op)
    BY <1>2, <1>4, <1>5
  <1>6. CASE Carried(c, op) /\ p = Null
    BY <1>4, <1>6 DEF p
  <1>7. CASE Carried(c, op) /\ p # Null
    <2>1. p \in Int
      BY <1>3, <1>7
    <2>2. [c EXCEPT ![op.axis] = p] \in Place
      BY <1>1, <1>2, <2>1 DEF Place
    <2>3. [c EXCEPT ![op.axis] = p] # Null
      BY <2>2, NullIsNoPlace
    <2>4. MapCell(c, op) = [c EXCEPT ![op.axis] = p]
      BY <1>4, <1>7
    <2>5. [c EXCEPT ![op.axis] = p][op.axis] = p /\ [c EXCEPT ![op.axis] = p][Across(op.axis)] = c[Across(op.axis)]
      BY <1>1, <1>2
    <2>6. (\A x \in Axes : c[x] \in Nat) => \A x \in Axes : [c EXCEPT ![op.axis] = p][x] \in Nat
      BY <1>1, <1>2, <1>3, <1>7, <2>5
    <2>7. QED
      BY <1>7, <2>2, <2>3, <2>4, <2>5, <2>6 DEF p
  <1>8. QED
    BY <1>5, <1>6, <1>7

\* No two cells go to the same place.
LEMMA MapCellOneToOne ==
    ASSUME NEW c \in Place, NEW d \in Place, c # d, NEW op \in Ops, MapCell(c, op) # Null
    PROVE  MapCell(c, op) # MapCell(d, op)
  <1> SUFFICES ASSUME MapCell(c, op) = MapCell(d, op)
               PROVE  FALSE
    OBVIOUS
  <1>1. op.axis \in Axes /\ Across(op.axis) \in Axes /\ AxisOp(op) \in AxisOps
        /\ Axes = {op.axis, Across(op.axis)}
    BY OpTypes
  <1>2. c \in [Axes -> Int] /\ d \in [Axes -> Int]
    BY DEF Place
  <1>3. c[Across(op.axis)] = d[Across(op.axis)]
    BY MapCellType
  <1>4. Carried(c, op) <=> Carried(d, op)
    BY <1>3 DEF Carried
  <1>5. c[op.axis] = d[op.axis]
    <2>1. CASE ~Carried(c, op)
      BY <1>4, <2>1, MapCellType
    <2>2. CASE Carried(c, op)
      <3>1. MapPos(c[op.axis], AxisOp(op)) = MapPos(d[op.axis], AxisOp(op)) /\ MapPos(c[op.axis], AxisOp(op)) # Null
        BY <1>4, <2>2, MapCellType
      <3>2. c[op.axis] \in Int /\ d[op.axis] \in Int
        BY <1>1, <1>2
      <3>3. QED
        BY <1>1, <3>1, <3>2, MapPosOneToOne
    <2>3. QED
      BY <2>1, <2>2
  <1>6. QED
    BY <1>1, <1>2, <1>3, <1>5

----------------------------------------------------------------------------
Upright(a) == \A x \in Axes : a[x].lo <= a[x].hi

LEMMA AreasAreAreas ==
    ASSUME NEW a \in Areas
    PROVE  a \in Area /\ OnSheet(a)
  BY CellsArePlaces DEF Areas, Area, Span, Axes

LEMMA NormalizeType ==
    ASSUME NEW a \in Area
    PROVE  Normalize(a) \in Area /\ Upright(Normalize(a)) /\ (Upright(a) => Normalize(a) = a)
  <1>1. \A x \in Axes : a[x] \in Span /\ a[x].lo \in Int /\ a[x].hi \in Int
    BY DEF Area, Span
  <1>2. Normalize(a) \in Area /\ Upright(Normalize(a))
    BY <1>1 DEF Normalize, Area, Span, Upright
  <1>3. Upright(a) => Normalize(a) = a
    BY DEF Normalize, Area, Upright
  <1>4. QED
    BY <1>2, <1>3

LEMMA ShiftAreaType ==
    ASSUME NEW a \in Area, NEW span, NEW op \in Ops
    PROVE  /\ ShiftArea(a, span, op) \in Area \cup {Null}
           /\ Upright(a) /\ ShiftArea(a, span, op) # Null => Upright(ShiftArea(a, span, op))
           /\ ShiftArea(a, span, op) # Null => ShiftArea(a, span, op)[Across(op.axis)] = a[Across(op.axis)]
           /\ Reaches(span, op) /\ InLane(a, op) /\ ShiftArea(a, span, op) # Null =>
                /\ MapInterval(a[op.axis], AxisOp(op)) # Null
                /\ ShiftArea(a, span, op)[op.axis] = MapInterval(a[op.axis], AxisOp(op))
           /\ ~(Reaches(span, op) /\ InLane(a, op)) => ShiftArea(a, span, op) = a
           /\ ShiftArea(a, span, op) = Null => MapInterval(a[op.axis], AxisOp(op)) = Null
  <1> DEFINE s == MapInterval(a[op.axis], AxisOp(op))
  <1>1. op.axis \in Axes /\ Across(op.axis) \in Axes /\ Across(op.axis) # op.axis /\ AxisOp(op) \in AxisOps
        /\ Axes = {op.axis, Across(op.axis)}
    BY OpTypes
  <1>2. a \in [Axes -> Span] /\ a # Null
    BY NullIsNoPlace DEF Area
  <1>3. a[op.axis] \in Span
    BY <1>1, <1>2
  <1>4. s \in Span \cup {Null} /\ (a[op.axis].lo <= a[op.axis].hi /\ s # Null => s.lo <= s.hi)
    BY <1>1, <1>3, MapIntervalType
  <1>5. ShiftArea(a, span, op) =
          IF ~Reaches(span, op) \/ ~InLane(a, op) THEN a
          ELSE IF s = Null THEN Null
          ELSE [a EXCEPT ![op.axis] = s]
    BY DEF ShiftArea
  <1> HIDE DEF s
  <1>6. CASE ~(Reaches(span, op) /\ InLane(a, op))
    BY <1>2, <1>5, <1>6
  <1>7. CASE Reaches(span, op) /\ InLane(a, op) /\ s = Null
    BY <1>5, <1>7 DEF s
  <1>8. CASE Reaches(span, op) /\ InLane(a, op) /\ s # Null
    <2>1. s \in Span
      BY <1>4, <1>8
    <2> DEFINE b == [a EXCEPT ![op.axis] = s]
    <2>2. b \in Area /\ b # Null
      BY <1>1, <1>2, <2>1, NullIsNoPlace DEF Area
    <2>3. ShiftArea(a, span, op) = b
      BY <1>5, <1>8
    <2>4. b[op.axis] = s /\ b[Across(op.axis)] = a[Across(op.axis)]
      BY <1>1, <1>2
    <2>5. Upright(a) => Upright(b)
      BY <1>1, <1>4, <1>8, <2>4 DEF Upright
    <2> HIDE DEF b
    <2>6. QED
      BY <1>8, <2>2, <2>3, <2>4, <2>5 DEF s
  <1>9. QED
    BY <1>6, <1>7, <1>8

LEMMA ShiftRefType ==
    ASSUME NEW a \in Area \cup {Null}, NEW span, NEW op \in Ops
    PROVE  /\ ShiftRef(a, span, op) \in Area \cup {Null}
           /\ ShiftRef(a, span, op) # Null =>
                /\ a \in Area
                /\ ShiftArea(a, span, op) # Null
                /\ ShiftRef(a, span, op) = ShiftArea(a, span, op)
  <1>1. CASE a = Null
    BY <1>1 DEF ShiftRef
  <1>2. CASE a # Null
    BY <1>2, ShiftAreaType DEF ShiftRef
  <1>3. QED
    BY <1>1, <1>2

\* A shifted rectangle is the shifted area but for its ends, which the sheet cuts.
LEMMA ShiftRectType ==
    ASSUME NEW a \in Area, NEW op \in Ops
    PROVE  LET b == ShiftArea(Normalize(a), "area", op)
           IN  /\ ShiftRect(a, op) \in Area \cup {Null}
               /\ (ShiftRect(a, op) = Null) <=> (b = Null)
               /\ ShiftRect(a, op) # Null =>
                     \A x \in Axes : /\ ShiftRect(a, op)[x].lo = b[x].lo
                                     /\ ShiftRect(a, op)[x].hi = IF b[x].hi < Extent(x) THEN b[x].hi ELSE Extent(x) - 1
  <1> DEFINE b == ShiftArea(Normalize(a), "area", op)
             cut == [x \in Axes |-> [lo |-> b[x].lo, hi |-> IF b[x].hi < Extent(x) THEN b[x].hi ELSE Extent(x) - 1]]
  <1>1. b \in Area \cup {Null}
    BY NormalizeType, ShiftAreaType
  <1>2. a # Null
    BY NullIsNoPlace
  <1>3. ShiftRect(a, op) = IF b = Null THEN Null ELSE cut
    BY <1>2 DEF ShiftRect
  <1> HIDE DEF b
  <1>4. b # Null => cut \in Area /\ cut # Null
    BY <1>1, CellsArePlaces, NullIsNoPlace DEF Area, Span
  <1>5. QED
    BY <1>3, <1>4 DEF b

----------------------------------------------------------------------------
\* What a step does to one cell.
LEMMA CellMoves ==
    ASSUME TypeOK, NEW op \in Ops, NEW c \in Cells
    PROVE  /\ MoveCells(op)[c] \in Cells \cup {Null}
           /\ MoveCells(op)[c] # Null =>
                /\ at[c] \in Cells /\ at[c] \in Place /\ MoveCells(op)[c] \in Place
                /\ MapCell(at[c], op) # Null /\ MoveCells(op)[c] = MapCell(at[c], op)
                /\ \A x \in Axes : MoveCells(op)[c][x] < Extent(x)
           /\ MoveCells(op)[c] = Null /\ at[c] # Null /\ MapCell(at[c], op) # Null =>
                \E x \in Axes : MapCell(at[c], op)[x] >= Extent(x)
  <1> DEFINE p == IF at[c] = Null THEN Null ELSE MapCell(at[c], op)
             stays == p # Null /\ \A x \in Axes : p[x] < Extent(x)
  <1>1. at[c] \in Cells \cup {Null}
    BY DEF TypeOK
  <1>2. MoveCells(op)[c] = IF stays THEN p ELSE Null
    BY DEF MoveCells
  <1>3. CASE ~stays
    <2>1. MoveCells(op)[c] = Null
      BY <1>2, <1>3
    <2>2. at[c] # Null /\ MapCell(at[c], op) # Null => p = MapCell(at[c], op) /\ p \in Place
      BY <1>1, CellsArePlaces, MapCellType
    <2>3. p \in Place /\ p # Null => \E x \in Axes : p[x] >= Extent(x)
      BY <1>3, CellsArePlaces DEF Place
    <2> HIDE DEF p
    <2>4. QED
      BY <2>1, <2>2, <2>3
  <1>4. CASE stays
    <2>1. at[c] \in Cells /\ p = MapCell(at[c], op)
      BY <1>1, <1>4
    <2>2. at[c] \in Place /\ \A x \in Axes : at[c][x] \in Nat
      BY <2>1, CellsArePlaces
    <2>3. p \in Place /\ p # Null /\ \A x \in Axes : p[x] \in Nat /\ p[x] < Extent(x)
      BY <1>4, <2>1, <2>2, MapCellType
    <2>4. p \in Cells
      BY <2>3, CellsArePlaces
    <2>5. MoveCells(op)[c] = p
      BY <1>2, <1>4
    <2> HIDE DEF p
    <2>6. QED
      BY <2>1, <2>2, <2>3, <2>4, <2>5
  <1>5. QED
    BY <1>3, <1>4

LEMMA ShiftMergesFrom ==
    ASSUME merges \subseteq Area, NEW op \in Ops, NEW m \in ShiftMerges(op)
    PROVE  \E a \in merges : m = ShiftRect(a, op) /\ m \in Area /\ m # Null
  <1> DEFINE moved == {ShiftRect(a, op) : a \in merges} \ {Null}
             corner(a) == [x \in Axes |-> a[x].lo]
             wide == {a \in moved : Wide(a)}
  <1>1. PICK k \in {corner(a) : a \in wide} : m = CHOOSE a \in wide : corner(a) = k
    BY DEF ShiftMerges
  <1>2. m \in wide
    BY <1>1
  <1>3. PICK a \in merges : m = ShiftRect(a, op) /\ m # Null
    BY <1>2
  <1>4. QED
    BY <1>3, ShiftRectType

LEMMA ShiftTitlesAlong ==
    ASSUME titles \in [Axes -> Span \cup {Null}], NEW op \in Ops, NEW x \in Axes
    PROVE  LET a == [y \in Axes |-> IF y = x THEN titles[x] ELSE [lo |-> 0, hi |-> 0]]
           IN  /\ titles[x] # Null => a \in Area
               /\ ShiftTitles(op)[x] \in Span \cup {Null}
               /\ ShiftTitles(op)[x] # Null /\ ~OnCells(op) =>
                     titles[x] # Null /\ ShiftRect(a, op) # Null /\ ShiftTitles(op)[x] = ShiftRect(a, op)[x]
               /\ OnCells(op) => ShiftTitles(op)[x] = titles[x]
  <1> DEFINE a == [y \in Axes |-> IF y = x THEN titles[x] ELSE [lo |-> 0, hi |-> 0]]
             moved == ShiftRect(a, op)
  <1>1. titles[x] # Null => a \in Area
    BY DEF Area, Span
  <1>2. titles[x] # Null /\ moved # Null => moved[x] \in Span /\ moved[x] # Null
    BY <1>1, ShiftRectType, NullIsNoPlace DEF Area
  <1>3. ShiftTitles(op)[x] = IF titles[x] = Null \/ OnCells(op) THEN titles[x]
                             ELSE IF moved = Null THEN Null ELSE moved[x]
    BY DEF ShiftTitles
  <1> HIDE DEF moved, a
  <1>4. QED
    BY <1>1, <1>2, <1>3 DEF moved, a

LEMMA ShiftFilterType ==
    ASSUME filter # Null => filter \in [range : Area, offset : [Indices("col") -> Int \cup {Null}]],
           NEW op \in Ops
    PROVE  /\ ShiftFilter(op) # Null =>
                 /\ filter # Null /\ ShiftFilter(op) \in [range : Area, offset : [Indices("col") -> Int \cup {Null}]]
                 /\ ShiftFilter(op).range = ShiftRect(filter.range, op) /\ ShiftFilter(op).range # Null
           /\ ShiftFilter(op) # Null => \A j \in Indices("col") : ShiftFilter(op).offset[j] # Null =>
                 LET header == [row |-> filter.range["row"].lo, col |-> filter.range["col"].lo + filter.offset[j]]
                 IN  /\ filter.offset[j] \in Int /\ header \in Place /\ MapCell(header, op) # Null
                     /\ MapCell(header, op)["col"] = ShiftFilter(op).range["col"].lo + ShiftFilter(op).offset[j]
  <1> DEFINE old == filter.range
             range == ShiftRect(old, op)
             header(k) == [row |-> old["row"].lo, col |-> old["col"].lo + k]
             moved(k) == MapCell(header(k), op)
             column(k) == IF moved(k) # Null /\ Covers(range["col"], moved(k)["col"])
                          THEN moved(k)["col"] - range["col"].lo ELSE Null
             new == [j \in Indices("col") |-> IF filter.offset[j] = Null THEN Null ELSE column(filter.offset[j])]
  <1> SUFFICES ASSUME ShiftFilter(op) # Null
               PROVE  /\ filter # Null /\ ShiftFilter(op) \in [range : Area, offset : [Indices("col") -> Int \cup {Null}]]
                      /\ ShiftFilter(op).range = range /\ ShiftFilter(op).range # Null
                      /\ \A j \in Indices("col") : ShiftFilter(op).offset[j] # Null =>
                            /\ filter.offset[j] \in Int /\ header(filter.offset[j]) \in Place /\ moved(filter.offset[j]) # Null
                            /\ moved(filter.offset[j])["col"] = ShiftFilter(op).range["col"].lo + ShiftFilter(op).offset[j]
    OBVIOUS
  <1>1. filter # Null /\ range # Null /\ ShiftFilter(op) = [range |-> range, offset |-> new]
    BY DEF ShiftFilter
  <1>2. old \in Area /\ filter.offset \in [Indices("col") -> Int \cup {Null}]
    BY <1>1
  <1>3. range \in Area
    BY <1>1, <1>2, ShiftRectType
  <1>4. ASSUME NEW k \in Int
        PROVE  /\ header(k) \in Place
               /\ column(k) \in Int \cup {Null}
               /\ column(k) # Null => moved(k) # Null /\ moved(k)["col"] = range["col"].lo + column(k)
    <2>1. header(k) \in Place
      BY <1>2 DEF Place, Area, Span, Axes
    <2>2. moved(k) \in Place \cup {Null}
      BY <2>1, MapCellType
    <2>3. range["col"].lo \in Int /\ (moved(k) # Null => moved(k)["col"] \in Int)
      BY <1>3, <2>2 DEF Place, Area, Span, Axes
    <2> HIDE DEF moved, range
    <2>4. QED
      BY <2>1, <2>3
  <1> HIDE DEF column, moved, header, range
  <1>5. new \in [Indices("col") -> Int \cup {Null}]
    BY <1>2, <1>4
  <1>6. ASSUME NEW j \in Indices("col"), new[j] # Null
        PROVE  filter.offset[j] \in Int /\ new[j] = column(filter.offset[j])
    BY <1>2, <1>6
  <1> HIDE DEF new
  <1>7. QED
    BY <1>1, <1>3, <1>4, <1>5, <1>6

----------------------------------------------------------------------------
Roles == {"area", "cols", "rows"}

LEMMA InitType == Init => TypeOK
  <1> SUFFICES ASSUME Init
               PROVE  TypeOK
    OBVIOUS
  <1>1. home \in Areas /\ home \in Area /\ OnSheet(home)
    BY BlocksAreAreas, AreasAreAreas DEF Init
  <1>2. at \in [Cells -> Cells \cup {Null}]
    BY DEF Init
  <1>3. refs \in [Roles -> Area \cup {Null}]
    BY <1>1 DEF Init, Roles
  <1>4. merges \subseteq Area
    BY <1>1, BlocksAreAreas, AreasAreAreas DEF Init
  <1>5. protected \in Area \cup {Null}
    BY <1>1 DEF Init
  <1>6. filter \in [range : Area, offset : [Indices("col") -> Int \cup {Null}]]
    <2>1. \A j \in Indices("col") : j - home["col"].lo \in Int
      BY <1>1, CellsArePlaces DEF Area, Span, Axes
    <2>2. [j \in Indices("col") |-> IF Covers(home["col"], j) THEN j - home["col"].lo ELSE Null]
            \in [Indices("col") -> Int \cup {Null}]
      BY <2>1
    <2>3. QED
      BY <1>1, <2>2 DEF Init
  <1>7. titles \in [Axes -> Span \cup {Null}]
    BY <1>1 DEF Init, Area
  <1>8. plain \in BOOLEAN /\ last \in [kind : Kinds \cup {Null}, passed : BOOLEAN] /\ ops \in 0..MaxOps
    BY OpsAreCounted DEF Init
  <1>9. QED
    BY <1>1, <1>2, <1>3, <1>4, <1>5, <1>6, <1>7, <1>8 DEF TypeOK, Roles

LEMMA StepType ==
    ASSUME TypeOK, [Next]_vars
    PROVE  TypeOK'
  <1>1. CASE UNCHANGED vars
    BY <1>1 DEF TypeOK, vars
  <1>2. ASSUME NEW op \in Ops, Apply(op)
        PROVE  TypeOK'
    <2>1. home' \in Areas
      BY <1>2 DEF Apply, TypeOK
    <2>2. at' \in [Cells -> Cells \cup {Null}]
      <3>1. \A c \in Cells : MoveCells(op)[c] \in Cells \cup {Null}
        BY CellMoves
      <3>2. MoveCells(op) = [c \in Cells |-> MoveCells(op)[c]]
        BY DEF MoveCells
      <3>3. QED
        BY <1>2, <3>1, <3>2 DEF Apply
    <2>3. refs' \in [Roles -> Area \cup {Null}]
      <3>1. \A s \in Roles : ShiftRef(refs[s], s, op) \in Area \cup {Null}
        BY ShiftRefType DEF TypeOK, Roles
      <3>2. QED
        BY <1>2, <3>1 DEF Apply, Roles
    <2>4. merges' \subseteq Area
      BY <1>2, ShiftMergesFrom DEF Apply, TypeOK
    <2>5. protected' \in Area \cup {Null}
      <3>1. CASE protected = Null
        BY <1>2, <3>1 DEF Apply, ShiftRect
      <3>2. CASE protected \in Area
        BY <1>2, <3>2, ShiftRectType DEF Apply
      <3>3. QED
        BY <3>1, <3>2 DEF TypeOK
    <2>6. filter' # Null => filter' \in [range : Area, offset : [Indices("col") -> Int \cup {Null}]]
      BY <1>2, ShiftFilterType DEF Apply, TypeOK
    <2>7. titles' \in [Axes -> Span \cup {Null}]
      <3>1. \A x \in Axes : ShiftTitles(op)[x] \in Span \cup {Null}
        BY ShiftTitlesAlong DEF TypeOK
      <3>2. ShiftTitles(op) = [x \in Axes |-> ShiftTitles(op)[x]]
        BY DEF ShiftTitles
      <3>3. QED
        BY <1>2, <3>1, <3>2 DEF Apply
    <2>8. plain' \in BOOLEAN /\ last' \in [kind : Kinds \cup {Null}, passed : BOOLEAN]
      <3>1. op.kind \in Kinds
        BY DEF Ops, LineOps, CellOps, Kinds
      <3>2. CanChangeStructure(op) \in BOOLEAN
        BY DEF CanChangeStructure
      <3>3. QED
        BY <1>2, <3>1, <3>2 DEF Apply
    <2>9. ops' \in 0..MaxOps
      BY <1>2, OpsAreCounted DEF Apply, TypeOK
    <2>10. QED
      BY <2>1, <2>2, <2>3, <2>4, <2>5, <2>6, <2>7, <2>8, <2>9 DEF TypeOK, Roles
  <1>3. QED
    BY <1>1, <1>2 DEF Next

\* The variables keep their types.
THEOREM TypeCorrect == Spec => []TypeOK
  BY InitType, StepType, PTL DEF Spec

\* No operation, in a sheet of any size and after any others, lays a cell over
\* another one that stays.
THEOREM CellsNeverCollide == Spec => []CellsApart
  <1>1. Init => CellsApart
    BY DEF Init, CellsApart
  <1>2. TypeOK /\ CellsApart /\ [Next]_vars => CellsApart'
    <2> SUFFICES ASSUME TypeOK, CellsApart, [Next]_vars
                 PROVE  CellsApart'
      OBVIOUS
    <2>1. CASE UNCHANGED vars
      BY <2>1 DEF CellsApart, vars
    <2>2. ASSUME NEW op \in Ops, Apply(op)
          PROVE  CellsApart'
      <3> SUFFICES ASSUME NEW c \in Cells, NEW d \in Cells, c # d, MoveCells(op)[c] # Null
                   PROVE  MoveCells(op)[c] # MoveCells(op)[d]
        BY <2>2 DEF Apply, CellsApart
      <3>1. CASE MoveCells(op)[d] = Null
        BY <3>1
      <3>2. CASE MoveCells(op)[d] # Null
        <4>1. /\ at[c] \in Place /\ MapCell(at[c], op) # Null /\ MoveCells(op)[c] = MapCell(at[c], op)
              /\ at[d] \in Place /\ MoveCells(op)[d] = MapCell(at[d], op)
              /\ at[c] # Null
          BY <3>2, CellMoves, CellsArePlaces
        <4>2. at[c] # at[d]
          BY <4>1 DEF CellsApart
        <4>3. QED
          BY <4>1, <4>2, MapCellOneToOne
      <3>3. QED
        BY <3>1, <3>2
    <2>3. QED
      BY <2>1, <2>2 DEF Next
  <1>3. QED
    BY <1>1, <1>2, TypeCorrect, PTL DEF Spec

----------------------------------------------------------------------------
\* Insertions and deletions of whole lines keep what an area covers on each axis it has.
LEMMA AreaFollows ==
    ASSUME NEW op \in Ops, ~OnCells(op), op.kind # "move",
           NEW a \in Area, Upright(a), NEW span, ShiftArea(a, span, op) # Null,
           NEW c \in Place, MapCell(c, op) # Null,
           NEW x \in Axes, x = op.axis => Reaches(span, op)
    PROVE  Covers(a[x], c[x]) <=> Covers(ShiftArea(a, span, op)[x], MapCell(c, op)[x])
  <1>1. op.axis \in Axes /\ Across(op.axis) \in Axes /\ Across(op.axis) # op.axis /\ AxisOp(op) \in AxisOps
        /\ Axes = {op.axis, Across(op.axis)} /\ AxisOp(op).kind = op.kind
    BY OpTypes
  <1>2. InLane(a, op) /\ Carried(c, op)
    BY DEF InLane, Carried
  <1>3. CASE x = op.axis
    <2>1. ShiftArea(a, span, op)[x] = MapInterval(a[x], AxisOp(op)) /\ MapInterval(a[x], AxisOp(op)) # Null
      BY <1>2, <1>3, ShiftAreaType
    <2>2. MapCell(c, op)[x] = MapPos(c[x], AxisOp(op)) /\ MapPos(c[x], AxisOp(op)) # Null
      BY <1>2, <1>3, MapCellType
    <2>3. a[x] \in Span /\ a[x].lo <= a[x].hi /\ c[x] \in Int
      BY DEF Area, Place, Upright
    <2>4. QED
      BY <1>1, <2>1, <2>2, <2>3, IntervalExact
  <1>4. CASE x # op.axis
    <2>1. x = Across(op.axis)
      BY <1>1, <1>4
    <2>2. QED
      BY <2>1, ShiftAreaType, MapCellType
  <1>5. QED
    BY <1>3, <1>4

\* So do they with a rectangle, for the cells that stay on the sheet.
LEMMA RectFollows ==
    ASSUME NEW op \in Ops, ~OnCells(op), op.kind # "move",
           NEW a \in Area, Upright(a), ShiftRect(a, op) # Null,
           NEW c \in Place, MapCell(c, op) # Null, NEW x \in Axes, MapCell(c, op)[x] < Extent(x)
    PROVE  Covers(a[x], c[x]) <=> Covers(ShiftRect(a, op)[x], MapCell(c, op)[x])
  <1> DEFINE b == ShiftArea(a, "area", op)
             p == MapCell(c, op)
  <1>1. Normalize(a) = a
    BY NormalizeType
  <1>2. b # Null /\ ShiftRect(a, op)[x].lo = b[x].lo
        /\ ShiftRect(a, op)[x].hi = IF b[x].hi < Extent(x) THEN b[x].hi ELSE Extent(x) - 1
    BY <1>1, ShiftRectType
  <1>3. Reaches("area", op)
    BY OpTypes DEF Reaches, Axes
  <1>4. Covers(a[x], c[x]) <=> Covers(b[x], p[x])
    BY <1>2, <1>3, AreaFollows
  <1>5. b \in Area /\ p \in Place
    BY <1>2, ShiftAreaType, MapCellType
  <1>6. b[x].lo \in Int /\ b[x].hi \in Int /\ p[x] \in Int /\ Extent(x) \in Nat
    BY <1>5, CellsArePlaces DEF Area, Span, Place
  <1> HIDE DEF b
  <1>7. QED
    BY <1>2, <1>4, <1>6 DEF Covers

\* Whole lines carry the cells of a column along together.
LEMMA ColumnsMoveWhole ==
    ASSUME NEW op \in Ops, ~OnCells(op), NEW c \in Place, NEW d \in Place, NEW x \in Axes, c[x] = d[x],
           MapCell(c, op) # Null, MapCell(d, op) # Null
    PROVE  MapCell(c, op)[x] = MapCell(d, op)[x]
  <1>1. Axes = {op.axis, Across(op.axis)} /\ Carried(c, op) /\ Carried(d, op)
    BY OpTypes DEF Carried
  <1>2. QED
    BY <1>1, MapCellType

\* Merged areas apart are apart after insertions and deletions of whole lines.
LEMMA RectsApart ==
    ASSUME NEW op \in Ops, ~OnCells(op), op.kind # "move",
           NEW a \in Area, Upright(a), NEW b \in Area, Upright(b),
           ShiftRect(a, op) # Null, ShiftRect(b, op) # Null,
           NEW x \in Axes, a[x].hi < b[x].lo
    PROVE  ShiftRect(a, op)[x].hi < ShiftRect(b, op)[x].lo
  <1> DEFINE s == ShiftArea(a, "area", op)
             t == ShiftArea(b, "area", op)
  <1>1. op.axis \in Axes /\ Across(op.axis) \in Axes /\ AxisOp(op) \in AxisOps
        /\ Axes = {op.axis, Across(op.axis)} /\ AxisOp(op).kind = op.kind
    BY OpTypes
  <1>2. Normalize(a) = a /\ Normalize(b) = b
    BY NormalizeType
  <1>3. s # Null /\ t # Null /\ ShiftRect(b, op)[x].lo = t[x].lo
        /\ ShiftRect(a, op)[x].hi = IF s[x].hi < Extent(x) THEN s[x].hi ELSE Extent(x) - 1
    BY <1>2, ShiftRectType
  <1>4. Reaches("area", op) /\ InLane(a, op) /\ InLane(b, op)
    BY OpTypes DEF Reaches, Axes, InLane
  <1>5. a[x] \in Span /\ b[x] \in Span /\ a[x].lo <= a[x].hi /\ b[x].lo <= b[x].hi
    BY DEF Area, Upright
  <1>6. s[x].hi < t[x].lo
    <2>1. CASE x = op.axis
      BY <1>1, <1>3, <1>4, <1>5, <2>1, ShiftAreaType, IntervalsApart
    <2>2. CASE x = Across(op.axis)
      BY <1>3, <2>2, ShiftAreaType
    <2>3. QED
      BY <1>1, <2>1, <2>2
  <1>7. s \in Area /\ t \in Area
    BY <1>3, ShiftAreaType
  <1>8. s[x].hi \in Int /\ t[x].lo \in Int /\ Extent(x) \in Nat
    BY <1>7, CellsArePlaces DEF Area, Span
  <1> HIDE DEF s, t
  <1>9. QED
    BY <1>3, <1>6, <1>8

\* A reference to one cell is shifted to where the cell goes.
Point(c) == [x \in Axes |-> [lo |-> c[x], hi |-> c[x]]]

LEMMA PointFollows ==
    ASSUME NEW op \in Ops, NEW c \in Place
    PROVE  ShiftArea(Point(c), "area", op) = IF MapCell(c, op) = Null THEN Null ELSE Point(MapCell(c, op))
  <1> DEFINE a == Point(c)
             b == ShiftArea(a, "area", op)
  <1>1. op.axis \in Axes /\ Across(op.axis) \in Axes /\ AxisOp(op) \in AxisOps /\ Axes = {op.axis, Across(op.axis)}
    BY OpTypes
  <1>2. a \in Area /\ \A x \in Axes : a[x] = [lo |-> c[x], hi |-> c[x]] /\ c[x] \in Int
    BY DEF Area, Span, Place, Point
  <1>3. b \in Area \cup {Null}
    BY <1>2, ShiftAreaType
  <1>4. MapCell(c, op) = IF b = Null THEN Null ELSE [x \in Axes |-> b[x].lo]
    BY DEF MapCell, Point
  <1>5. b # Null => \A x \in Axes : b[x].lo = b[x].hi /\ b[x] \in Span
    <2> SUFFICES ASSUME b # Null
                 PROVE  \A x \in Axes : b[x].lo = b[x].hi /\ b[x] \in Span
      OBVIOUS
    <2>1. b \in Area
      BY <1>3
    <2>2. b[Across(op.axis)] = a[Across(op.axis)]
      BY <1>2, ShiftAreaType
    <2>3. b[op.axis] = a[op.axis] \/ (b[op.axis] = MapInterval(a[op.axis], AxisOp(op)) /\ MapInterval(a[op.axis], AxisOp(op)) # Null)
      BY <1>2, ShiftAreaType
    <2>4. MapInterval(a[op.axis], AxisOp(op)) # Null => MapInterval(a[op.axis], AxisOp(op)).lo = MapInterval(a[op.axis], AxisOp(op)).hi
      <3> DEFINE q == MapPos(c[op.axis], AxisOp(op))
      <3>1. c[op.axis] \in Int /\ a[op.axis] = [lo |-> c[op.axis], hi |-> c[op.axis]]
        BY <1>1, <1>2
      <3>2. MapInterval(a[op.axis], AxisOp(op)) = IF q = Null THEN Null ELSE [lo |-> q, hi |-> q]
        BY <1>1, <3>1, OneIndexFollows
      <3> HIDE DEF q
      <3>3. QED
        BY <3>2
    <2> HIDE DEF a, b
    <2>5. b[op.axis].lo = b[op.axis].hi
      BY <1>1, <1>2, <2>3, <2>4
    <2>6. b[Across(op.axis)].lo = b[Across(op.axis)].hi
      BY <1>1, <1>2, <2>2
    <2>7. QED
      BY <1>1, <2>1, <2>5, <2>6 DEF Area
  <1> HIDE DEF b
  <1>6. b # Null => [x \in Axes |-> b[x].lo] \in Place
    BY <1>5 DEF Place, Span
  <1>7. b # Null => b = Point([x \in Axes |-> b[x].lo])
    BY <1>3, <1>5 DEF Point, Area, Span
  <1>8. QED
    BY <1>4, <1>6, <1>7, NullIsNoPlace DEF b

----------------------------------------------------------------------------
\* While only whole lines come and go and every model stays on the sheet, what
\* names places of the sheet covers the cells it covered at first.
Following ==
    plain =>
        /\ Standing
        /\ \A s \in Roles : refs[s] # Null => Upright(refs[s])
        /\ \A s \in Roles, c \in Cells :
              refs[s] # Null /\ at[c] # Null => (Names(refs[s], s, at[c]) <=> Names(home, s, c))

PointsFollow ==
    \A c \in Cells : home = Point(c) => refs["area"] = IF at[c] = Null THEN Null ELSE Point(at[c])

Follows == Following /\ PointsFollow /\ TitlesExact /\ FilterFollows /\ MergesApart

LEMMA InitFollows == Init => Follows
  <1> SUFFICES ASSUME Init
               PROVE  Follows
    OBVIOUS
  <1>1. home \in Area /\ OnSheet(home) /\ Upright(home)
    BY BlocksAreAreas, AreasAreAreas DEF Init, OnSheet, Stands, Upright
  <1>2. Following
    <2>1. \A a \in merges : OnSheet(a)
      BY <1>1, BlocksAreAreas, AreasAreAreas DEF Init
    <2>2. Standing
      BY <1>1, <2>1 DEF Standing, Init, OnSheet
    <2>3. QED
      BY <1>1, <2>2 DEF Following, Init, Roles
  <1>3. PointsFollow
    BY NullIsNoPlace, CellsArePlaces DEF PointsFollow, Init, Point
  <1>4. TitlesExact
    BY DEF TitlesExact, Init
  <1>5. FilterFollows
    <2>1. \A c \in Cells : c["col"] \in Indices("col") /\ c["col"] \in Int
      BY CellsArePlaces DEF Cells, Axes
    <2>2. home["col"].lo \in Int
      BY <1>1 DEF Area, Span, Axes
    <2>3. \A c \in Cells : filter.offset[c["col"]] # Null => filter.offset[c["col"]] = c["col"] - home["col"].lo
      BY <2>1 DEF Init
    <2>4. \A c \in Cells : at[c] = c /\ filter.range = home
      BY DEF Init
    <2>5. QED
      BY <2>1, <2>2, <2>3, <2>4 DEF FilterFollows
  <1>6. MergesApart
    BY DEF MergesApart, Init, Apart
  <1>7. QED
    BY <1>2, <1>3, <1>4, <1>5, <1>6 DEF Follows

\* What a step that leaves plain TRUE says of its operation and of the models.
LEMMA PlainStep ==
    ASSUME TypeOK, Follows, NEW op \in Ops, Apply(op), plain'
    PROVE  /\ plain /\ Standing /\ Standing' /\ ~OnCells(op) /\ op.kind # "move"
           /\ \A a \in Area : OnSheet(a) => Upright(a)
  <1>1. plain /\ op.kind \in {"insert", "delete"} /\ Standing'
    BY DEF Apply
  <1>2. QED
    BY <1>1 DEF OnCells, Follows, Following, OnSheet, Stands, Upright

LEMMA RefsStep ==
    ASSUME TypeOK, Follows, NEW op \in Ops, Apply(op)
    PROVE  Following' /\ PointsFollow'
  <1>1. refs' = [s \in Roles |-> ShiftRef(refs[s], s, op)] /\ home' = home /\ at' = MoveCells(op)
    BY DEF Apply, Roles
  <1>2. \A s \in Roles : refs[s] \in Area \cup {Null}
    BY DEF TypeOK, Roles
  <1>3. Following'
    <2> SUFFICES ASSUME plain'
                 PROVE  /\ \A s \in Roles : refs'[s] # Null => Upright(refs'[s])
                        /\ \A s \in Roles, c \in Cells :
                              refs'[s] # Null /\ at'[c] # Null => (Names(refs'[s], s, at'[c]) <=> Names(home', s, c))
      BY PlainStep DEF Following
    <2>1. plain /\ ~OnCells(op) /\ op.kind # "move"
      BY PlainStep
    <2>2. ASSUME NEW s \in Roles, refs'[s] # Null
          PROVE  /\ refs[s] \in Area /\ Upright(refs[s])
                 /\ ShiftArea(refs[s], s, op) # Null /\ refs'[s] = ShiftArea(refs[s], s, op)
      <3>1. refs'[s] = ShiftRef(refs[s], s, op)
        BY <1>1
      <3>2. refs[s] \in Area /\ ShiftArea(refs[s], s, op) # Null /\ refs'[s] = ShiftArea(refs[s], s, op)
        BY <1>2, <2>2, <3>1, ShiftRefType
      <3>3. QED
        BY <2>1, <3>2, NullIsNoPlace DEF Follows, Following
    <2>3. \A s \in Roles : refs'[s] # Null => Upright(refs'[s])
      BY <2>2, ShiftAreaType
    <2>4. ASSUME NEW s \in Roles, NEW c \in Cells, refs'[s] # Null, at'[c] # Null
          PROVE  Names(refs'[s], s, at'[c]) <=> Names(home', s, c)
      <3>1. /\ at[c] \in Place /\ at[c] # Null /\ MapCell(at[c], op) # Null
            /\ at'[c] = MapCell(at[c], op)
        BY <1>1, <2>4, CellMoves, CellsArePlaces
      <3>2. Names(refs[s], s, at[c]) <=> Names(home, s, c)
        BY <2>1, <2>2, <2>4, <3>1, NullIsNoPlace DEF Follows, Following
      <3>3. op.axis \in Axes
        BY OpTypes
      <3>4. s # "rows" => (Covers(refs[s]["col"], at[c]["col"]) <=> Covers(refs'[s]["col"], at'[c]["col"]))
        <4>1. s # "rows" => ("col" = op.axis => Reaches(s, op))
          BY <2>1 DEF Reaches, Roles
        <4>2. QED
          BY <2>1, <2>2, <2>4, <3>1, <4>1, AreaFollows DEF Axes
      <3>5. s # "cols" => (Covers(refs[s]["row"], at[c]["row"]) <=> Covers(refs'[s]["row"], at'[c]["row"]))
        <4>1. s # "cols" => ("row" = op.axis => Reaches(s, op))
          BY <2>1 DEF Reaches, Roles
        <4>2. QED
          BY <2>1, <2>2, <2>4, <3>1, <4>1, AreaFollows DEF Axes
      <3>6. QED
        BY <1>1, <3>2, <3>4, <3>5 DEF Names
    <2>5. QED
      BY <2>3, <2>4
  <1>4. PointsFollow'
    <2> SUFFICES ASSUME NEW c \in Cells, home = Point(c)
                 PROVE  refs'["area"] = IF at'[c] = Null THEN Null ELSE Point(at'[c])
      BY <1>1 DEF PointsFollow
    <2>1. refs["area"] = IF at[c] = Null THEN Null ELSE Point(at[c])
      BY DEF Follows, PointsFollow
    <2>2. refs'["area"] = ShiftRef(refs["area"], "area", op)
      BY <1>1 DEF Roles
    <2>3. at[c] \in Cells \cup {Null}
      BY DEF TypeOK
    <2>4. CASE at[c] = Null
      <3>1. at'[c] = Null
        BY <1>1, <2>4, CellMoves, CellsArePlaces
      <3>2. QED
        BY <2>1, <2>2, <2>4, <3>1 DEF ShiftRef
    <2>5. CASE at[c] # Null
      <3> DEFINE p == MapCell(at[c], op)
      <3>1. at[c] \in Place /\ Point(at[c]) \in Area /\ Point(at[c]) # Null
        BY <2>3, <2>5, CellsArePlaces, NullIsNoPlace DEF Point, Area, Span, Place
      <3>2. refs["area"] = Point(at[c])
        BY <2>1, <2>5
      <3>3. ShiftArea(Point(at[c]), "area", op) = IF p = Null THEN Null ELSE Point(p)
        BY <3>1, PointFollows
      <3>4. at'[c] = IF p # Null /\ \A x \in Axes : p[x] < Extent(x) THEN p ELSE Null
        BY <1>1, <2>5 DEF MoveCells
      <3>5. p \in Place \cup {Null}
        BY <3>1, MapCellType
      <3> HIDE DEF p
      <3>6. CASE p = Null
        BY <2>2, <3>2, <3>3, <3>4, <3>6 DEF ShiftRef
      <3>7. CASE p # Null
        <4>1. Point(p) \in Area /\ Point(p) # Null /\ p # Null
          BY <3>5, <3>7, NullIsNoPlace DEF Point, Area, Span, Place
        <4>2. refs'["area"] = IF \E x \in Axes : Point(p)[x].hi >= Extent(x) THEN Null ELSE Point(p)
          BY <2>2, <3>1, <3>2, <3>3, <3>7, <4>1 DEF ShiftRef
        <4>3. \A x \in Axes : Point(p)[x].hi = p[x] /\ p[x] \in Int /\ Extent(x) \in Int
          BY <3>5, <3>7, CellsArePlaces DEF Point, Place
        <4>4. (\E x \in Axes : Point(p)[x].hi >= Extent(x)) <=> ~\A x \in Axes : p[x] < Extent(x)
          BY <4>3
        <4>5. QED
          BY <3>4, <3>7, <4>1, <4>2, <4>4
      <3>8. QED
        BY <3>6, <3>7
    <2>6. QED
      BY <2>4, <2>5
  <1>5. QED
    BY <1>3, <1>4

LEMMA TitlesStep ==
    ASSUME TypeOK, Follows, NEW op \in Ops, Apply(op)
    PROVE  TitlesExact'
  <1> SUFFICES ASSUME plain', NEW x \in Axes, NEW c \in Cells, titles'[x] # Null, at'[c] # Null
               PROVE  Covers(titles'[x], at'[c][x]) <=> Covers(home'[x], c[x])
    BY DEF TitlesExact
  <1> DEFINE a == [y \in Axes |-> IF y = x THEN titles[x] ELSE [lo |-> 0, hi |-> 0]]
  <1>1. titles' = ShiftTitles(op) /\ home' = home /\ at' = MoveCells(op)
    BY DEF Apply
  <1>2. plain /\ Standing /\ ~OnCells(op) /\ op.kind # "move"
    BY PlainStep
  <1>3. titles[x] # Null /\ a \in Area /\ ShiftRect(a, op) # Null /\ titles'[x] = ShiftRect(a, op)[x]
    BY <1>1, <1>2, ShiftTitlesAlong DEF TypeOK
  <1>4. Upright(a)
    BY <1>2, <1>3 DEF Standing, Stands, Upright
  <1>5. /\ at[c] \in Place /\ at[c] # Null /\ MapCell(at[c], op) # Null
        /\ at'[c] = MapCell(at[c], op) /\ at'[c][x] < Extent(x)
    BY <1>1, CellMoves, CellsArePlaces
  <1>6. a[x] = titles[x]
    OBVIOUS
  <1>7. Covers(titles[x], at[c][x]) <=> Covers(home[x], c[x])
    BY <1>2, <1>3, <1>5 DEF Follows, TitlesExact
  <1> HIDE DEF a
  <1>8. QED
    BY <1>1, <1>2, <1>3, <1>4, <1>5, <1>6, <1>7, RectFollows

LEMMA FilterStep ==
    ASSUME TypeOK, Follows, NEW op \in Ops, Apply(op)
    PROVE  FilterFollows'
  <1> SUFFICES ASSUME plain', filter' # Null, NEW c \in Cells, at'[c] # Null, filter'.offset[c["col"]] # Null
               PROVE  at'[c]["col"] = filter'.range["col"].lo + filter'.offset[c["col"]]
    BY DEF FilterFollows
  <1> DEFINE j == c["col"]
             header == [row |-> filter.range["row"].lo, col |-> filter.range["col"].lo + filter.offset[j]]
  <1>1. filter' = ShiftFilter(op) /\ at' = MoveCells(op)
    BY DEF Apply
  <1>2. plain /\ ~OnCells(op)
    BY PlainStep
  <1>3. j \in Indices("col")
    BY CellsArePlaces DEF Axes
  <1>4. /\ filter # Null /\ filter.offset[j] \in Int /\ header \in Place /\ MapCell(header, op) # Null
        /\ MapCell(header, op)["col"] = filter'.range["col"].lo + filter'.offset[j]
    BY <1>1, <1>3, ShiftFilterType DEF TypeOK
  <1>5. /\ at[c] \in Place /\ at[c] # Null /\ MapCell(at[c], op) # Null
        /\ at'[c] = MapCell(at[c], op)
    BY <1>1, CellMoves, CellsArePlaces
  <1>6. at[c]["col"] = filter.range["col"].lo + filter.offset[j]
    BY <1>2, <1>4, <1>5, NullIsNoPlace DEF Follows, FilterFollows
  <1>7. header["col"] = at[c]["col"]
    BY <1>6
  <1> HIDE DEF header
  <1>8. MapCell(at[c], op)["col"] = MapCell(header, op)["col"]
    BY <1>2, <1>4, <1>5, <1>7, ColumnsMoveWhole DEF Axes
  <1>9. QED
    BY <1>4, <1>5, <1>8

LEMMA MergesStep ==
    ASSUME TypeOK, Follows, NEW op \in Ops, Apply(op)
    PROVE  MergesApart'
  <1> SUFFICES ASSUME plain', NEW m \in merges', NEW n \in merges', m # n
               PROVE  Apart(m, n)
    BY DEF MergesApart
  <1>1. merges' = ShiftMerges(op) /\ merges \subseteq Area
    BY DEF Apply, TypeOK
  <1>2. PICK a \in merges : m = ShiftRect(a, op) /\ m # Null
    BY <1>1, ShiftMergesFrom
  <1>3. PICK b \in merges : n = ShiftRect(b, op) /\ n # Null
    BY <1>1, ShiftMergesFrom
  <1>4. plain /\ ~OnCells(op) /\ op.kind # "move" /\ Standing
    BY PlainStep
  <1>5. a \in Area /\ b \in Area /\ Upright(a) /\ Upright(b)
    BY <1>1, <1>4, PlainStep DEF Standing
  <1>6. PICK x \in Axes : a[x].hi < b[x].lo \/ b[x].hi < a[x].lo
    BY <1>2, <1>3, <1>4 DEF Follows, MergesApart, Apart
  <1>7. m[x].hi < n[x].lo \/ n[x].hi < m[x].lo
    BY <1>2, <1>3, <1>4, <1>5, <1>6, RectsApart
  <1>8. QED
    BY <1>7 DEF Apart

LEMMA StepFollows == TypeOK /\ Follows /\ [Next]_vars => Follows'
  <1> SUFFICES ASSUME TypeOK, Follows, [Next]_vars
               PROVE  Follows'
    OBVIOUS
  <1>1. CASE UNCHANGED vars
    BY <1>1 DEF vars, Follows, Following, Standing, PointsFollow, TitlesExact, FilterFollows, MergesApart
  <1>2. ASSUME NEW op \in Ops, Apply(op)
        PROVE  Follows'
    BY <1>2, RefsStep, TitlesStep, FilterStep, MergesStep DEF Follows
  <1>3. QED
    BY <1>1, <1>2 DEF Next

LEMMA FollowsAlways == Spec => []Follows
  BY InitFollows, StepFollows, TypeCorrect, PTL DEF Spec

\* References cover what they covered, and a reference to one cell follows it
\* through every operation.
THEOREM ReferencesFollow == Spec => []RefsFollow
  <1>1. Follows => RefsFollow
    BY DEF Follows, Following, PointsFollow, Point, RefsFollow, Roles
  <1>2. QED
    BY <1>1, FollowsAlways, PTL

\* Merged areas do not come to overlap.
THEOREM MergesStayApart == Spec => []MergesApart
  <1>1. Follows => MergesApart
    BY DEF Follows
  <1>2. QED
    BY <1>1, FollowsAlways, PTL

\* Filter criteria stay on their columns.
THEOREM CriteriaFollow == Spec => []FilterFollows
  <1>1. Follows => FilterFollows
    BY DEF Follows
  <1>2. QED
    BY <1>1, FollowsAlways, PTL

\* The print titles that are kept are the lines they were.
THEOREM TitlesKeepTheirLines == Spec => []TitlesExact
  <1>1. Follows => TitlesExact
    BY DEF Follows
  <1>2. QED
    BY <1>1, FollowsAlways, PTL

----------------------------------------------------------------------------
\* An operation passes a span by when it happens before or after it.
PassesBy(s, o) ==
    /\ o.kind = "insert" => ~(s.lo < o.index /\ o.index <= s.hi)
    /\ o.kind # "insert" => o.index > s.hi \/ o.index + o.count <= s.lo
    /\ o.kind = "move" => ~(s.lo < o.to /\ o.to <= s.hi)

\* A span passed by goes whole: its indices keep their distances, no other enters.
LEMMA SpanGoesWhole ==
    ASSUME NEW o \in AxisOps, NEW s \in Span, s.lo <= s.hi, PassesBy(s, o), NEW i \in Int
    PROVE  /\ MapInterval(s, o) # Null
           /\ Covers(s, i) => MapPos(i, o) # Null /\ MapPos(i, o) - MapInterval(s, o).lo = i - s.lo
           /\ MapPos(i, o) # Null => (Covers(s, i) <=> Covers(MapInterval(s, o), MapPos(i, o)))
  <1> DEFINE lo == MapPos(s.lo, o)
             hi == MapPos(s.hi, o)
             p == MapPos(i, o)
  <1>1. s.lo \in Int /\ s.hi \in Int
    BY DEF Span
  <1>2. lo \in Int /\ hi \in Int /\ hi - lo = s.hi - s.lo /\ p \in Int \cup {Null}
    BY <1>1, MapPosType, NullIsNoPlace, SMT DEF PassesBy, MapPos, Moved, Deleted, AxisOps
  <1>3. Covers(s, i) => p # Null /\ p - lo = i - s.lo
    BY <1>1, NullIsNoPlace, SMT DEF Covers, PassesBy, MapPos, Moved, Deleted, AxisOps
  <1>4. ~Covers(s, i) /\ p # Null => p < lo \/ hi < p
    BY <1>1, NullIsNoPlace, SMT DEF Covers, PassesBy, MapPos, Moved, Deleted, AxisOps
  <1>5. o.kind = "delete" => ~(o.index <= s.lo /\ s.hi < o.index + o.count)
    BY <1>1, SMT DEF PassesBy, AxisOps
  <1> HIDE DEF lo, hi, p
  <1>6. lo # Null /\ hi # Null /\ lo <= hi
    BY <1>1, <1>2, NullIsNoPlace
  <1>7. MapInterval(s, o) = [lo |-> lo, hi |-> hi]
    BY <1>5, <1>6 DEF MapInterval, lo, hi
  <1>8. [lo |-> lo, hi |-> hi] # Null
    BY <1>2, NullIsNoPlace DEF Span
  <1>9. Covers(s, i) /\ p # Null => lo <= p /\ p <= hi
    BY <1>1, <1>2, <1>3, NullIsNoPlace DEF Covers
  <1>10. p # Null => (Covers(MapInterval(s, o), p) <=> lo <= p /\ p <= hi)
    BY <1>7 DEF Covers
  <1>11. p # Null /\ (p < lo \/ hi < p) => ~(lo <= p /\ p <= hi)
    BY <1>2
  <1>12. QED
    BY <1>3, <1>4, <1>7, <1>8, <1>9, <1>10, <1>11 DEF p

\* What the guard leaves of an operation: it passes the area by on its axis, or
\* the area lies beside the lane of the cells that shift.
LEMMA GuardPassesBy ==
    ASSUME NEW op \in Ops, NEW a \in Area, Upright(a), ~Affects(a, op)
    PROVE  LET t == a[Across(op.axis)]
               lane == op.rect[Across(op.axis)]
               beside == lane.hi < t.lo \/ t.hi < lane.lo
           IN  \/ ~OnCells(op) /\ PassesBy(a[op.axis], AxisOp(op))
               \/ OnCells(op) /\ beside
               \/ OnCells(op) /\ ~beside /\ a[op.axis].hi < op.rect[op.axis].lo
               \/ OnCells(op) /\ Within(t, lane) /\ op.rect[op.axis].hi < a[op.axis].lo
  <1> DEFINE s == a[op.axis]
             t == a[Across(op.axis)]
             along == op.rect[op.axis]
             lane == op.rect[Across(op.axis)]
  <1>1. op.axis \in Axes /\ Across(op.axis) \in Axes
    BY OpTypes
  <1>2. s.lo \in Int /\ s.hi \in Int /\ t.lo \in Int /\ t.hi \in Int /\ s.lo <= s.hi /\ t.lo <= t.hi
    BY <1>1 DEF Area, Span, Upright
  <1>3. CASE OnCells(op)
    <2>1. op.rect \in Area
      BY <1>3, OpTypes, AreasAreAreas
    <2>2. along.lo \in Int /\ along.hi \in Int /\ lane.lo \in Int /\ lane.hi \in Int
      BY <1>1, <2>1 DEF Area, Span
    <2>3. ~(lane.lo <= t.hi /\ t.lo <= lane.hi /\ along.lo <= s.hi /\ (s.lo <= along.hi \/ ~Within(t, lane)))
      BY <1>3 DEF Affects
    <2> HIDE DEF s, t, along, lane
    <2>4. \/ lane.hi < t.lo \/ t.hi < lane.lo
          \/ s.hi < along.lo
          \/ Within(t, lane) /\ along.hi < s.lo
      BY <1>2, <2>2, <2>3
    <2>5. QED
      BY <1>3, <2>4 DEF s, t, along, lane
  <1>4. CASE ~OnCells(op)
    <2>1. op \in LineOps
      BY <1>4 DEF Ops, CellOps, OnCells
    <2>2. /\ op.kind \in {"insert", "delete", "move"} /\ op.index \in Nat /\ op.count \in Nat /\ op.to \in Nat
      BY <2>1, SheetHasCells DEF LineOps, Indices, Extent, Axes
    <2>3. /\ ~(op.kind = "insert" /\ s.lo < op.index /\ op.index <= s.hi)
          /\ ~(op.kind \in {"delete", "move"} /\ op.index <= s.hi /\ op.index + op.count - 1 >= s.lo)
          /\ ~(op.kind = "move" /\ s.lo < op.to /\ op.to <= s.hi)
      BY DEF Affects
    <2>4. AxisOp(op) = [kind |-> op.kind, index |-> op.index, count |-> op.count, to |-> op.to]
      BY <1>4 DEF AxisOp
    <2> HIDE DEF s
    <2>5. op.kind # "insert" => op.index > s.hi \/ op.index + op.count <= s.lo
      BY <1>2, <2>2, <2>3
    <2>6. PassesBy(s, AxisOp(op))
      BY <2>3, <2>4, <2>5 DEF PassesBy
    <2>7. QED
      BY <1>4, <2>6 DEF s
  <1>5. QED
    BY <1>3, <1>4

\* So the area goes whole: its cells keep their distances, no other enters it.
LEMMA BlockGoesWhole ==
    ASSUME NEW op \in Ops, NEW a \in Area, Upright(a), ~Affects(a, op), NEW c \in Place
    PROVE  LET b == ShiftArea(a, "area", op)
               p == MapCell(c, op)
           IN  /\ b # Null
               /\ Inside(c, a) => p # Null /\ \A x \in Axes : p[x] - b[x].lo = c[x] - a[x].lo
               /\ p # Null => (Inside(c, a) <=> Inside(p, b))
  <1> DEFINE b == ShiftArea(a, "area", op)
             p == MapCell(c, op)
             y == op.axis
             z == Across(op.axis)
             o == AxisOp(op)
             lane == op.rect[Across(op.axis)]
             along == op.rect[op.axis]
             beside == lane.hi < a[z].lo \/ a[z].hi < lane.lo
             whole == /\ b # Null
                      /\ Inside(c, a) => p # Null /\ \A x \in Axes : p[x] - b[x].lo = c[x] - a[x].lo
                      /\ p # Null => (Inside(c, a) <=> Inside(p, b))
  <1> SUFFICES whole
    OBVIOUS
  <1>1. y \in Axes /\ z \in Axes /\ z # y /\ o \in AxisOps /\ Axes = {y, z}
    BY OpTypes
  <1>2. /\ a[y].lo \in Int /\ a[y].hi \in Int /\ a[z].lo \in Int /\ a[z].hi \in Int
        /\ a[y].lo <= a[y].hi /\ a[z].lo <= a[z].hi /\ c[y] \in Int /\ c[z] \in Int
        /\ a[y] \in Span /\ a # Null
    BY <1>1, NullIsNoPlace DEF Area, Span, Upright, Place
  <1>3. Inside(c, a) <=> Covers(a[y], c[y]) /\ Covers(a[z], c[z])
    BY <1>1 DEF Inside
  <1>4. Reaches("area", op)
    BY <1>1 DEF Reaches, Axes
  \* The area is carried along with all of its cells.
  <1>5. ASSUME PassesBy(a[y], o), InLane(a, op)
        PROVE  whole
    <2>1. MapInterval(a[y], o) # Null
      BY <1>1, <1>2, <1>5, SpanGoesWhole
    <2>2. b # Null
      BY <2>1, ShiftAreaType
    <2>3. b[z] = a[z] /\ b[y] = MapInterval(a[y], o)
      BY <1>4, <1>5, <2>2, ShiftAreaType
    <2>4. p # Null => (Inside(p, b) <=> Covers(b[y], p[y]) /\ Covers(b[z], p[z]))
      BY <1>1 DEF Inside
    <2>5. p # Null => p[z] = c[z]
      BY MapCellType
    <2>6. CASE Carried(c, op)
      <3>1. p # Null => p[y] = MapPos(c[y], o) /\ MapPos(c[y], o) # Null
        BY <2>6, MapCellType
      <3>2. MapPos(c[y], o) # Null => p # Null
        BY <2>6, MapCellType
      <3>3. /\ Covers(a[y], c[y]) => MapPos(c[y], o) # Null /\ MapPos(c[y], o) - b[y].lo = c[y] - a[y].lo
            /\ MapPos(c[y], o) # Null => (Covers(a[y], c[y]) <=> Covers(b[y], MapPos(c[y], o)))
        BY <1>1, <1>2, <1>5, <2>3, SpanGoesWhole
      <3>4. Inside(c, a) => p # Null /\ p[y] - b[y].lo = c[y] - a[y].lo /\ p[z] - b[z].lo = c[z] - a[z].lo
        BY <1>3, <2>3, <2>5, <3>1, <3>2, <3>3
      <3>5. p # Null => (Inside(c, a) <=> Inside(p, b))
        BY <1>3, <2>3, <2>4, <2>5, <3>1, <3>3
      <3>6. QED
        BY <1>1, <2>2, <3>4, <3>5
    <2>7. CASE ~Carried(c, op)
      <3>1. p = c /\ p # Null
        BY <2>7, MapCellType
      <3>2. OnCells(op) /\ ~Covers(lane, c[z]) /\ Within(a[z], lane)
        BY <1>5, <2>7 DEF Carried, InLane
      <3>3. lane.lo \in Int /\ lane.hi \in Int
        BY <1>1, <3>2, OpTypes, AreasAreAreas DEF Area, Span
      <3>4. ~Covers(a[z], c[z])
        BY <1>2, <3>2, <3>3 DEF Covers, Within
      <3>5. QED
        BY <1>3, <2>2, <2>3, <2>4, <3>1, <3>4
    <2>8. QED
      BY <2>6, <2>7
  \* The area stays, and so do its cells.
  <1>6. ASSUME b = a, p # Null => (Inside(c, a) <=> Inside(p, a)), Inside(c, a) => p = c
        PROVE  whole
    <2>1. c # Null
      BY NullIsNoPlace
    <2> HIDE DEF p, b
    <2>2. QED
      BY <1>2, <1>6, <2>1
  <1>7. CASE ~OnCells(op) /\ PassesBy(a[y], o)
    BY <1>5, <1>7 DEF InLane
  <1>8. CASE OnCells(op) /\ beside
    <2>1. lane.lo \in Int /\ lane.hi \in Int
      BY <1>1, <1>8, OpTypes, AreasAreAreas DEF Area, Span
    <2>2. ~InLane(a, op)
      BY <1>2, <1>8, <2>1 DEF InLane, Within
    <2>3. b = a
      BY <2>2, ShiftAreaType
    <2>4. Covers(a[z], c[z]) => ~Carried(c, op)
      BY <1>2, <1>8, <2>1 DEF Covers, Carried
    <2>5. Inside(c, a) => p = c
      BY <1>3, <2>4, MapCellType
    <2>6. p # Null => (Inside(p, a) <=> Covers(a[y], p[y]) /\ Covers(a[z], c[z]))
      BY <1>1, MapCellType DEF Inside
    <2>7. p # Null /\ ~Carried(c, op) => p = c
      BY MapCellType
    <2> HIDE DEF p, b
    <2>8. QED
      BY <1>3, <1>6, <2>3, <2>4, <2>5, <2>6, <2>7
  <1>9. CASE OnCells(op) /\ ~beside /\ a[y].hi < along.lo
    <2>1. along.lo \in Int /\ along.hi \in Int /\ along.lo <= along.hi
      BY <1>1, <1>9, OpTypes, AreasAreAreas DEF Area, Span, OnSheet, Stands
    <2>2. /\ o.kind \in {"insert", "delete"} /\ o.index = along.lo /\ o.count = along.hi - along.lo + 1
      BY <1>9 DEF AxisOp
    <2>3. MapPos(c[y], o) = c[y] \/ ~Covers(a[y], c[y])
      BY <1>2, <1>9, <2>1, <2>2 DEF MapPos, Deleted, Covers
    <2>4. ~Covers(a[y], c[y]) /\ MapPos(c[y], o) # Null => ~Covers(a[y], MapPos(c[y], o))
      BY <1>2, <1>9, <2>1, <2>2, SMT DEF MapPos, Deleted, Covers
    <2>5. MapInterval(a[y], o) = a[y]
      <3>1. MapPos(a[y].lo, o) = a[y].lo /\ MapPos(a[y].hi, o) = a[y].hi
        BY <1>2, <1>9, <2>1, <2>2 DEF MapPos, Deleted
      <3>2. a[y].lo # Null /\ a[y].hi # Null
        BY <1>2, NullIsNoPlace
      <3>3. ~(o.index <= a[y].lo)
        BY <1>2, <1>9, <2>1, <2>2
      <3>4. [lo |-> a[y].lo, hi |-> a[y].hi] = a[y]
        BY <1>2 DEF Span
      <3>5. QED
        BY <1>2, <3>1, <3>2, <3>3, <3>4 DEF MapInterval
    <2>6. b = a
      <3>1. a[y] # Null
        BY <1>2, NullIsNoPlace
      <3>2. [a EXCEPT ![y] = a[y]] = a
        BY <1>1 DEF Area
      <3>3. QED
        BY <2>5, <3>1, <3>2 DEF ShiftArea
    <2>7. Inside(c, a) => p = c
      <3>1. CASE ~Carried(c, op)
        BY <3>1, MapCellType
      <3>2. CASE Carried(c, op) /\ Inside(c, a)
        <4>1. MapPos(c[y], o) = c[y] /\ c[y] # Null
          BY <1>2, <1>3, <2>3, <3>2, NullIsNoPlace
        <4>2. p # Null /\ p[y] = c[y] /\ p[z] = c[z] /\ p \in Place
          BY <3>2, <4>1, MapCellType
        <4>3. QED
          BY <1>1, <4>2 DEF Place
      <3>3. QED
        BY <3>1, <3>2
    <2>8. p # Null /\ ~Inside(c, a) => ~Inside(p, a)
      <3> SUFFICES ASSUME p # Null, ~Inside(c, a)
                   PROVE  ~Inside(p, a)
        OBVIOUS
      <3>1. Inside(p, a) <=> Covers(a[y], p[y]) /\ Covers(a[z], c[z])
        BY <1>1, MapCellType DEF Inside
      <3>2. CASE ~Carried(c, op)
        BY <3>2, MapCellType
      <3>3. CASE Carried(c, op)
        <4>1. p[y] = MapPos(c[y], o) /\ MapPos(c[y], o) # Null
          BY <3>3, MapCellType
        <4>2. QED
          BY <1>3, <2>4, <3>1, <4>1
      <3>4. QED
        BY <3>2, <3>3
    <2> HIDE DEF p, b
    <2>9. QED
      BY <1>6, <2>6, <2>7, <2>8
  <1>10. CASE OnCells(op) /\ Within(a[z], lane) /\ along.hi < a[y].lo
    <2>1. along.lo \in Int /\ along.hi \in Int /\ along.lo <= along.hi
      BY <1>1, <1>10, OpTypes, AreasAreAreas DEF Area, Span, OnSheet, Stands
    <2>2. /\ o.kind \in {"insert", "delete"} /\ o.index = along.lo /\ o.count = along.hi - along.lo + 1
      BY <1>10 DEF AxisOp
    <2>3. PassesBy(a[y], o)
      BY <1>2, <1>10, <2>1, <2>2 DEF PassesBy
    <2>4. InLane(a, op)
      BY <1>10 DEF InLane
    <2>5. QED
      BY <1>5, <2>3, <2>4
  <1>11. QED
    BY <1>7, <1>8, <1>9, <1>10, GuardPassesBy

\* It stays on the sheet, unless cells are inserted.
LEMMA BlockStaysOnSheet ==
    ASSUME NEW op \in Ops, op.kind # "insertCells", NEW a \in Area, OnSheet(a), ~Affects(a, op),
           NEW c \in Cells, c \in Place, Inside(c, a), MapCell(c, op) # Null
    PROVE  \A x \in Axes : MapCell(c, op)[x] < Extent(x)
  <1> DEFINE y == op.axis
             z == Across(op.axis)
             o == AxisOp(op)
             p == MapCell(c, op)
  <1>1. y \in Axes /\ z \in Axes /\ o \in AxisOps /\ Axes = {y, z}
    BY OpTypes
  <1>2. /\ c[y] \in Nat /\ c[z] \in Nat /\ c[y] < Extent(y) /\ c[z] < Extent(z)
        /\ Extent(y) \in Nat /\ Extent(z) \in Nat
        /\ a[y].lo \in Int /\ a[y].hi \in Int /\ a[y].lo <= c[y] /\ c[y] <= a[y].hi
    BY <1>1, CellsArePlaces DEF Area, Span, Inside, Covers
  <1>3. p[z] < Extent(z)
    BY <1>2, MapCellType
  <1>4. p[y] < Extent(y)
    <2>1. CASE ~Carried(c, op)
      BY <1>2, <2>1, MapCellType
    <2>2. CASE Carried(c, op)
      <3>1. p[y] = MapPos(c[y], o) /\ MapPos(c[y], o) # Null
        BY <2>2, MapCellType
      <3>2. CASE OnCells(op)
        <4>1. o.kind = "delete" /\ o.count \in Nat
          BY <1>1, <3>2 DEF AxisOp, AxisOps, OnCells
        <4>2. QED
          BY <1>2, <3>1, <4>1 DEF MapPos, Deleted
      <3>3. CASE ~OnCells(op)
        <4>1. op \in LineOps /\ op.index + op.count <= Extent(op.axis)
          BY <3>3 DEF Ops, CellOps, OnCells
        <4>2. /\ op.kind \in {"insert", "delete", "move"} /\ op.index \in Nat /\ op.count \in Nat /\ op.to \in Nat
              /\ op.kind = "move" => op.to <= Extent(op.axis)
          BY <4>1, SheetHasCells DEF LineOps, Indices, Extent, Axes
        <4>3. o = [kind |-> op.kind, index |-> op.index, count |-> op.count, to |-> op.to]
          BY <3>3 DEF AxisOp
        <4>4. /\ ~(op.kind = "insert" /\ a[y].lo < op.index /\ op.index <= a[y].hi)
              /\ ~(op.kind = "insert" /\ op.index <= a[y].lo /\ a[y].hi + op.count >= Extent(y))
          BY DEF Affects
        <4>5. CASE op.kind = "insert"
          BY <1>2, <3>1, <4>2, <4>3, <4>4, <4>5 DEF MapPos
        <4>6. CASE op.kind = "delete"
          BY <1>2, <3>1, <4>2, <4>3, <4>6 DEF MapPos, Deleted
        <4>7. CASE op.kind = "move"
          <5> DEFINE E == Extent(op.axis)
          <5>1. MapPos(c[y], o) = Moved(c[y], o)
            BY <4>3, <4>7 DEF MapPos
          <5>2. E \in Nat /\ c[y] \in Nat /\ c[y] < E /\ op.index + op.count <= E /\ op.to <= E
            BY <1>2, <4>1, <4>2, <4>7
          <5> HIDE DEF E
          <5>3. Moved(c[y], o) < E
            BY <4>2, <4>3, <5>2, SMT DEF Moved
          <5>4. QED
            BY <3>1, <5>1, <5>3 DEF E
        <4>8. QED
          BY <4>2, <4>5, <4>6, <4>7
      <3>4. QED
        BY <3>2, <3>3
    <2>3. QED
      BY <2>1, <2>2
  <1>5. QED
    BY <1>1, <1>3, <1>4

\* What the guard lets a guest run leaves the protected cells as a block, in a
\* sheet of any size.
THEOREM ProtectedStayWhole == Spec => ProtectedStay
  <1> DEFINE Kept ==
        last'.passed /\ protected # Null /\ OnSheet(protected) =>
          /\ protected' # Null
          /\ \A c \in Cells : at[c] # Null /\ at'[c] # Null =>
                /\ Inside(at[c], protected) <=> Inside(at'[c], protected')
                /\ Inside(at[c], protected) =>
                      \A x \in Axes : at'[c][x] - protected'[x].lo = at[c][x] - protected[x].lo
          /\ last'.kind # "insertCells" =>
                \A c \in Cells : at[c] # Null /\ Inside(at[c], protected) => at'[c] # Null
  <1>1. ASSUME TypeOK, Next
        PROVE  Kept
    <2> SUFFICES ASSUME last'.passed, protected # Null, OnSheet(protected)
                 PROVE  /\ protected' # Null
                        /\ \A c \in Cells : at[c] # Null /\ at'[c] # Null =>
                              /\ Inside(at[c], protected) <=> Inside(at'[c], protected')
                              /\ Inside(at[c], protected) =>
                                    \A x \in Axes : at'[c][x] - protected'[x].lo = at[c][x] - protected[x].lo
                        /\ last'.kind # "insertCells" =>
                              \A c \in Cells : at[c] # Null /\ Inside(at[c], protected) => at'[c] # Null
      OBVIOUS
    <2>1. PICK op \in Ops : Apply(op)
      BY <1>1 DEF Next
    <2> DEFINE a == protected
               b == ShiftArea(a, "area", op)
    <2>2. /\ at' = MoveCells(op) /\ protected' = ShiftRect(a, op)
          /\ last' = [kind |-> op.kind, passed |-> CanChangeStructure(op)]
      BY <2>1 DEF Apply
    <2>3. a \in Area /\ Upright(a) /\ Normalize(a) = a
      BY <1>1, NormalizeType DEF TypeOK, OnSheet, Stands, Upright
    <2>4. ~Affects(a, op)
      BY <2>2, <2>3 DEF CanChangeStructure
    <2>5. b # Null
      <3>1. [x \in Axes |-> 0] \in Place
        BY DEF Place
      <3>2. QED
        BY <2>3, <2>4, <3>1, BlockGoesWhole
    <2>6. /\ protected' # Null
          /\ \A x \in Axes : /\ protected'[x].lo = b[x].lo
                             /\ protected'[x].hi = IF b[x].hi < Extent(x) THEN b[x].hi ELSE Extent(x) - 1
      BY <2>2, <2>3, <2>5, ShiftRectType
    <2>7. ASSUME NEW c \in Cells, at[c] # Null, at'[c] # Null
          PROVE  /\ Inside(at[c], a) <=> Inside(at'[c], protected')
                 /\ Inside(at[c], a) =>
                       \A x \in Axes : at'[c][x] - protected'[x].lo = at[c][x] - a[x].lo
      <3>1. /\ at[c] \in Place /\ at'[c] \in Place /\ MapCell(at[c], op) # Null
            /\ at'[c] = MapCell(at[c], op)
            /\ \A x \in Axes : at'[c][x] < Extent(x)
        BY <1>1, <2>2, <2>7, CellMoves
      <3>2. /\ Inside(at[c], a) => \A x \in Axes : at'[c][x] - b[x].lo = at[c][x] - a[x].lo
            /\ Inside(at[c], a) <=> Inside(at'[c], b)
        BY <2>3, <2>4, <3>1, BlockGoesWhole
      <3>3. b \in Area
        BY <2>3, <2>5, ShiftAreaType
      <3> HIDE DEF b
      <3>4. \A x \in Axes : Covers(b[x], at'[c][x]) <=> Covers(protected'[x], at'[c][x])
        BY <2>6, <3>1, <3>3, CellsArePlaces DEF Covers, Area, Span, Place
      <3>5. QED
        BY <2>6, <3>2, <3>4 DEF Inside
    <2>8. ASSUME NEW c \in Cells, op.kind # "insertCells", at[c] # Null, Inside(at[c], a)
          PROVE  at'[c] # Null
      <3>1. at[c] \in Cells /\ at[c] \in Place
        BY <1>1, <2>8, CellsArePlaces DEF TypeOK
      <3>2. MapCell(at[c], op) # Null
        BY <2>3, <2>4, <2>8, <3>1, BlockGoesWhole
      <3>3. \A x \in Axes : MapCell(at[c], op)[x] < Extent(x)
        BY <2>3, <2>4, <2>8, <3>1, <3>2, BlockStaysOnSheet
      <3>4. QED
        BY <2>2, <2>8, <3>2, <3>3 DEF MoveCells
    <2>9. QED
      BY <2>2, <2>6, <2>7, <2>8
  <1>2. TypeOK /\ [Next]_vars => [Kept]_vars
    BY <1>1
  <1>3. QED
    BY <1>2, TypeCorrect, PTL DEF Spec, ProtectedStay
=============================================================================
