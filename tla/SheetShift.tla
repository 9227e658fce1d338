------------------------------ MODULE SheetShift ------------------------------
(***************************************************************************)
(* The arithmetic of the sheets' structure operations                      *)
(* (web/app/src/pages/sheets/formulaShift.ts, protection.ts): where a row, *)
(* a column, a cell, an area ends up when rows or columns are inserted,    *)
(* deleted or moved, and when cells are inserted or deleted with a shift.  *)
(*                                                                         *)
(* A cell gives its index on each axis, an area the first and the last     *)
(* index it spans on each axis. Null is what the code writes as null: gone.*)
(***************************************************************************)
EXTENDS Integers

CONSTANTS MAX_ROWS, MAX_COLS, Null

Axes == {"row", "col"}
Extent(x) == IF x = "row" THEN MAX_ROWS ELSE MAX_COLS
Across(x) == IF x = "row" THEN "col" ELSE "row"

Span == [lo : Int, hi : Int]
Area == [Axes -> Span]
Place == [Axes -> Int]

ASSUME SheetHasCells == MAX_ROWS \in Nat \ {0} /\ MAX_COLS \in Nat \ {0}
ASSUME NullIsNoPlace == Null \notin Int /\ Null \notin Span /\ Null \notin Area /\ Null \notin Place

Indices(x) == 0..Extent(x) - 1
Cells == {c \in [Axes -> Indices("row") \cup Indices("col")] : \A x \in Axes : c[x] \in Indices(x)}
Covers(s, i) == s.lo <= i /\ i <= s.hi
Inside(c, a) == \A x \in Axes : Covers(a[x], c[x])
Within(s, t) == t.lo <= s.lo /\ s.hi <= t.hi
Stands(s, x) == 0 <= s.lo /\ s.lo <= s.hi /\ s.hi < Extent(x)
OnSheet(a) == \A x \in Axes : Stands(a[x], x)

----------------------------------------------------------------------------
(***************************************************************************)
(* Operations. Whole rows or columns: [kind, axis, index, count, to], to   *)
(* being read by a move only. Cells: [kind, axis, rect], the axis along    *)
(* which the other cells give way ("row" is shift down or up).             *)
(***************************************************************************)
LineOps == UNION {
    [kind : {"insert", "delete"}, axis : {x}, index : Indices(x), count : 1..Extent(x), to : {0}] \cup
    [kind : {"move"}, axis : {x}, index : Indices(x), count : 1..Extent(x), to : 0..Extent(x)] : x \in Axes}
Areas == {a \in [Axes -> [lo : Indices("row") \cup Indices("col"), hi : Indices("row") \cup Indices("col")]] : OnSheet(a)}
CellOps == [kind : {"insertCells", "deleteCells"}, axis : Axes, rect : Areas]
Ops == {op \in LineOps : op.index + op.count <= Extent(op.axis)} \cup CellOps

OnCells(op) == op.kind \in {"insertCells", "deleteCells"}

\* The one-dimensional operation behind op.
AxisOp(op) ==
    IF OnCells(op)
    THEN [kind |-> IF op.kind = "insertCells" THEN "insert" ELSE "delete",
          index |-> op.rect[op.axis].lo, count |-> op.rect[op.axis].hi - op.rect[op.axis].lo + 1, to |-> 0]
    ELSE [kind |-> op.kind, index |-> op.index, count |-> op.count, to |-> op.to]

----------------------------------------------------------------------------
\* Mutant of Moved: without the room that the block leaves behind.
MovedTooFar(i, o) ==
    LET end == o.index + o.count
    IN  IF o.index <= o.to /\ o.to <= end THEN i
        ELSE IF o.index <= i /\ i < end THEN i + o.to - o.index
        ELSE IF end <= i /\ i < o.to THEN i - o.count
        ELSE IF o.to <= i /\ i < o.index THEN i + o.count
        ELSE i

\* A block is moved before the index `to`, counted before the move; those in between give way.
Moved(i, o) ==
    LET end == o.index + o.count
    IN  IF o.index <= o.to /\ o.to <= end THEN i
        ELSE IF o.index <= i /\ i < end THEN IF o.to > end THEN i + (o.to - end) ELSE i - (o.index - o.to)
        ELSE IF end <= i /\ i < o.to THEN i - o.count
        ELSE IF o.to <= i /\ i < o.index THEN i + o.count
        ELSE i

Deleted(i, o) ==
    IF i < o.index THEN i ELSE IF i >= o.index + o.count THEN i - o.count ELSE Null

\* The new index of the row or column i, Null when it is deleted.
MapPos(i, o) ==
    IF o.kind = "insert" THEN IF i >= o.index THEN i + o.count ELSE i
    ELSE IF o.kind = "delete" THEN Deleted(i, o)
    ELSE Moved(i, o)

\* Mutant of MapInterval: a span whose end is deleted takes one line more.
MapIntervalOneMore(s, o) ==
    LET end == o.index + o.count
        lo == MapPos(s.lo, o)
        hi == MapPos(s.hi, o)
    IN  IF o.kind = "delete"
        THEN IF o.index <= s.lo /\ s.hi < end THEN Null
             ELSE [lo |-> IF lo = Null THEN o.index ELSE lo, hi |-> IF hi = Null THEN o.index ELSE hi]
        ELSE [lo |-> IF lo <= hi THEN lo ELSE hi, hi |-> IF lo <= hi THEN hi ELSE lo]

\* The new span, Null when every index of it is deleted; one half deleted, it shrinks.
MapInterval(s, o) ==
    LET end == o.index + o.count
        lo == MapPos(s.lo, o)
        hi == MapPos(s.hi, o)
    IN  IF o.kind = "delete"
        THEN IF o.index <= s.lo /\ s.hi < end THEN Null
             ELSE [lo |-> IF lo = Null THEN o.index ELSE lo, hi |-> IF hi = Null THEN o.index - 1 ELSE hi]
        ELSE [lo |-> IF lo <= hi THEN lo ELSE hi, hi |-> IF lo <= hi THEN hi ELSE lo]

\* The spans of an area that an operation works on: whole columns ignore row
\* operations, whole rows column operations, and both ignore cell shifts.
Reaches(span, op) ==
    IF OnCells(op) THEN span = "area" ELSE span # (IF op.axis = "row" THEN "cols" ELSE "rows")

\* Cell shifts leave alone an area that sticks out of the shifted lane.
InLane(a, op) == OnCells(op) => Within(a[Across(op.axis)], op.rect[Across(op.axis)])

ShiftArea(a, span, op) ==
    LET s == MapInterval(a[op.axis], AxisOp(op))
    IN  IF ~Reaches(span, op) \/ ~InLane(a, op) THEN a
        ELSE IF s = Null THEN Null
        ELSE [a EXCEPT ![op.axis] = s]

\* A reference in a formula: #REF! (Null) once its area is deleted or leaves the sheet.
ShiftRef(a, span, op) ==
    LET b == IF a = Null THEN Null ELSE ShiftArea(a, span, op)
    IN  IF b = Null THEN Null
        ELSE IF \E x \in Axes : b[x].hi >= Extent(x) THEN Null
        ELSE b

\* The corners of an area in order.
Normalize(a) ==
    [x \in Axes |-> IF a[x].lo <= a[x].hi THEN a[x] ELSE [lo |-> a[x].hi, hi |-> a[x].lo]]

\* A rectangle of a model (merge, filter, protection, print area). Its end is cut
\* at the sheet's end, its beginning is not.
ShiftRect(a, op) ==
    LET b == IF a = Null THEN Null ELSE ShiftArea(Normalize(a), "area", op)
        cut(s, x) == [lo |-> s.lo, hi |-> IF s.hi < Extent(x) THEN s.hi ELSE Extent(x) - 1]
    IN  IF b = Null THEN Null ELSE [x \in Axes |-> cut(b[x], x)]

MapCell(c, op) ==
    LET b == ShiftArea([x \in Axes |-> [lo |-> c[x], hi |-> c[x]]], "area", op)
    IN  IF b = Null THEN Null ELSE [x \in Axes |-> b[x].lo]

----------------------------------------------------------------------------
\* Mutant of Affects: the cells of a wider protected area beside the lane are forgotten.
AffectsWithinLane(a, op) ==
    LET s == a[op.axis]
        t == a[Across(op.axis)]
        along == op.rect[op.axis]
        lane == op.rect[Across(op.axis)]
    IN  \/ op.kind = "insert" /\ s.lo < op.index /\ op.index <= s.hi
        \/ op.kind = "insert" /\ op.index <= s.lo /\ s.hi + op.count >= Extent(op.axis)
        \/ op.kind \in {"delete", "move"} /\ op.index <= s.hi /\ op.index + op.count - 1 >= s.lo
        \/ op.kind = "move" /\ s.lo < op.to /\ op.to <= s.hi
        \/ OnCells(op) /\ lane.lo <= t.hi /\ t.lo <= lane.hi /\ along.lo <= s.hi /\ s.lo <= along.hi

\* What op would do to the protected area a, other than moving it whole: split it
\* or push it off the sheet; delete or move some of it, or move lines into it;
\* shift cells of it, or only some of the lanes it lies on.
Affects(a, op) ==
    LET s == a[op.axis]
        t == a[Across(op.axis)]
        along == op.rect[op.axis]
        lane == op.rect[Across(op.axis)]
    IN  \/ op.kind = "insert" /\ s.lo < op.index /\ op.index <= s.hi
        \/ op.kind = "insert" /\ op.index <= s.lo /\ s.hi + op.count >= Extent(op.axis)
        \/ op.kind \in {"delete", "move"} /\ op.index <= s.hi /\ op.index + op.count - 1 >= s.lo
        \/ op.kind = "move" /\ s.lo < op.to /\ op.to <= s.hi
        \/ /\ OnCells(op) /\ lane.lo <= t.hi /\ t.lo <= lane.hi /\ along.lo <= s.hi
           /\ s.lo <= along.hi \/ ~Within(t, lane)
=============================================================================
