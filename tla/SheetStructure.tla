---------------------------- MODULE SheetStructure ----------------------------
(***************************************************************************)
(* A sheet under structure operations: applyStructureOp                    *)
(* (web/app/src/pages/sheets/formulaShift.ts) moves the cells and rewrites *)
(* everything that names places of the sheet (formula references, merges,  *)
(* the protected range, the filter, the print titles), and                 *)
(* canChangeStructure (protection.ts) says which operations a user may     *)
(* run who may not edit the protected range.                               *)
(*                                                                         *)
(* Contents are left out: a cell is known by the place it had at first, so *)
(* `at` tells where each first cell is now. All that names places starts   *)
(* on one area, `home`. Left out too: conditional formats, validations,    *)
(* comments, borders, charts and tables, which follow by the same ShiftRect*)
(* and MapCell, and every other sheet of the workbook.                     *)
(***************************************************************************)
EXTENDS SheetShift

CONSTANTS
    Homes,      \* the areas that the models of the sheet may start on
    Others,     \* other areas that may be merged
    MaxOps      \* bound: operations run

ASSUME BlocksAreAreas == Homes \subseteq Areas /\ Others \subseteq Areas
ASSUME OpsAreCounted == MaxOps \in Nat

VARIABLES
    home,       \* where the models started
    at,         \* at[c]: where the first cell c is, Null once it is gone
    refs,       \* refs[span]: a formula's reference to home, to its columns, to its rows
    merges,     \* the merged areas (config.merge)
    protected,  \* the protected range (grownProtection), Null when dropped
    filter,     \* grownFilter: its range, and for each criterion its offset; Null when dropped
    titles,     \* titles[x]: the print titles of that axis (grownPrint), Null when none
    plain,      \* history: whole rows and columns were inserted and deleted, nothing else,
                \* and no model was carried past the sheet's end
    last,       \* history: the last operation, and whether the guard lets a guest run it
    ops         \* history: operations run

vars == <<home, at, refs, merges, protected, filter, titles, plain, last, ops>>

Kinds == {"insert", "delete", "move", "insertCells", "deleteCells"}
Apart(a, b) == \E x \in Axes : a[x].hi < b[x].lo \/ b[x].hi < a[x].lo
Width(s) == s.hi - s.lo + 1
Wide(a) == \E x \in Axes : Width(a[x]) # 1

TypeOK ==
    /\ home \in Areas
    /\ at \in [Cells -> Cells \cup {Null}]
    /\ refs \in [{"area", "cols", "rows"} -> Area \cup {Null}]
    /\ merges \subseteq Area
    /\ protected \in Area \cup {Null}
    /\ filter # Null => filter \in [range : Area, offset : [Indices("col") -> Int \cup {Null}]]
    /\ titles \in [Axes -> Span \cup {Null}]
    /\ plain \in BOOLEAN
    /\ last \in [kind : Kinds \cup {Null}, passed : BOOLEAN]
    /\ ops \in 0..MaxOps

Init ==
    /\ home \in Homes
    /\ at = [c \in Cells |-> c]
    /\ refs = [s \in {"area", "cols", "rows"} |-> home]
    /\ merges \in SUBSET {a \in {home} \cup Others : Wide(a)}
    /\ \A a, b \in merges : a # b => Apart(a, b)
    /\ protected = home
    /\ filter = [range |-> home,
                 offset |-> [j \in Indices("col") |-> IF Covers(home["col"], j) THEN j - home["col"].lo ELSE Null]]
    /\ titles = [x \in Axes |-> home[x]]
    /\ plain = TRUE
    /\ last = [kind |-> Null, passed |-> FALSE]
    /\ ops = 0

----------------------------------------------------------------------------
\* Mutant of MoveCells: cells carried past the sheet's end are kept.
MoveCellsPastEnd(op) == [c \in Cells |-> IF at[c] = Null THEN Null ELSE MapCell(at[c], op)]

\* Cells carried past the sheet's end are dropped.
MoveCells(op) ==
    [c \in Cells |->
        LET p == IF at[c] = Null THEN Null ELSE MapCell(at[c], op)
        IN  IF p # Null /\ \A x \in Axes : p[x] < Extent(x) THEN p ELSE Null]

\* Mutant of ShiftMerges: keeps the size of a merge whose lines are deleted.
ShiftMergesBySize(op) ==
    LET moved(a) == ShiftRect(a, op)
    IN  {[x \in Axes |-> [lo |-> moved(a)[x].lo, hi |-> moved(a)[x].lo + Width(a[x]) - 1]] :
            a \in {b \in merges : moved(b) # Null}}

\* Merges reduced to a cell are dropped; they are kept by their first cell, so
\* of two that come to share it one is lost.
ShiftMerges(op) ==
    LET moved == {ShiftRect(a, op) : a \in merges} \ {Null}
        corner(a) == [x \in Axes |-> a[x].lo]
        wide == {a \in moved : Wide(a)}
    IN  {CHOOSE a \in wide : corner(a) = k : k \in {corner(a) : a \in wide}}

\* Mutant of ShiftFilter: counts the offset of a criterion from where the range began before.
ShiftFilterFromOld(op) ==
    LET old == filter.range
        range == ShiftRect(old, op)
        moved(k) == MapCell([row |-> old["row"].lo, col |-> old["col"].lo + k], op)
        column(k) == IF moved(k) = Null THEN Null ELSE moved(k)["col"] - old["col"].lo
    IN  IF filter = Null THEN Null
        ELSE IF range = Null THEN Null
        ELSE [range |-> range,
              offset |-> [j \in Indices("col") |->
                             IF filter.offset[j] = Null THEN Null ELSE column(filter.offset[j])]]

\* The criterion at offset k stays with the header cell it was set on.
ShiftFilter(op) ==
    LET old == filter.range
        range == ShiftRect(old, op)
        moved(k) == MapCell([row |-> old["row"].lo, col |-> old["col"].lo + k], op)
        column(k) == IF moved(k) # Null /\ Covers(range["col"], moved(k)["col"])
                     THEN moved(k)["col"] - range["col"].lo ELSE Null
    IN  IF filter = Null THEN Null
        ELSE IF range = Null THEN Null
        ELSE [range |-> range,
              offset |-> [j \in Indices("col") |->
                             IF filter.offset[j] = Null THEN Null ELSE column(filter.offset[j])]]

\* Mutant of ShiftTitles: moves the first title line and keeps their number.
ShiftTitlesBySize(op) ==
    [x \in Axes |->
        LET line == [lo |-> 0, hi |-> 0]
            moved == ShiftRect([y \in Axes |-> IF y = x THEN titles[x] ELSE line], op)
        IN  IF titles[x] = Null \/ OnCells(op) THEN titles[x]
            ELSE IF moved = Null THEN Null
            ELSE [lo |-> moved[x].lo, hi |-> moved[x].lo + Width(titles[x]) - 1]]

\* A span of titles is shifted as a rectangle on the first line across it.
ShiftTitles(op) ==
    [x \in Axes |->
        LET line == [lo |-> 0, hi |-> 0]
            moved == ShiftRect([y \in Axes |-> IF y = x THEN titles[x] ELSE line], op)
        IN  IF titles[x] = Null \/ OnCells(op) THEN titles[x]
            ELSE IF moved = Null THEN Null ELSE moved[x]]

\* A protected range does not stand in the way unless the operation affects it.
CanChangeStructure(op) == protected # Null => ~Affects(Normalize(protected), op)

\* Every model that there is lies on the sheet.
Standing ==
    /\ protected # Null => OnSheet(protected)
    /\ filter # Null => OnSheet(filter.range)
    /\ \A a \in merges : OnSheet(a)
    /\ \A x \in Axes : titles[x] # Null => Stands(titles[x], x)

Apply(op) ==
    /\ ops < MaxOps
    /\ at' = MoveCells(op)
    /\ refs' = [s \in {"area", "cols", "rows"} |-> ShiftRef(refs[s], s, op)]
    /\ merges' = ShiftMerges(op)
    /\ protected' = ShiftRect(protected, op)
    /\ filter' = ShiftFilter(op)
    /\ titles' = ShiftTitles(op)
    /\ plain' = (plain /\ op.kind \in {"insert", "delete"} /\ Standing')
    /\ last' = [kind |-> op.kind, passed |-> CanChangeStructure(op)]
    /\ ops' = ops + 1
    /\ UNCHANGED home

Next == \E op \in Ops : Apply(op)

Spec == Init /\ [][Next]_vars

----------------------------------------------------------------------------
Names(a, span, c) ==
    /\ span # "rows" => Covers(a["col"], c["col"])
    /\ span # "cols" => Covers(a["row"], c["row"])

\* No operation lays a cell over another one that stays (moveCells collects
\* the moved cells by their new place, and the later of two would win).
CellsApart == \A c, d \in Cells : c # d /\ at[c] # Null => at[c] # at[d]

\* While only whole rows and columns come and go, a reference that is not
\* #REF! covers exactly the cells it covered at first, wherever they are now;
\* a reference to one cell follows it through every operation, and is #REF!
\* exactly when the cell is gone (shiftFormula, moveCells).
RefsFollow ==
    /\ plain => \A s \in {"area", "cols", "rows"}, c \in Cells :
          refs[s] # Null /\ at[c] # Null => (Names(refs[s], s, at[c]) <=> Names(home, s, c))
    /\ \A c \in Cells : home = [x \in Axes |-> [lo |-> c[x], hi |-> c[x]]] =>
          refs["area"] = IF at[c] = Null THEN Null ELSE [x \in Axes |-> [lo |-> at[c][x], hi |-> at[c][x]]]

\* Inserting and deleting whole rows and columns never makes two merged areas
\* overlap (shiftMerges).
MergesApart == plain => \A a, b \in merges : a # b => Apart(a, b)

\* While only whole rows and columns come and go, a criterion of the filter
\* stands on the column whose values it was set for (shiftFilter).
FilterFollows ==
    plain /\ filter # Null =>
        \A c \in Cells : at[c] # Null /\ filter.offset[c["col"]] # Null =>
            at[c]["col"] = filter.range["col"].lo + filter.offset[c["col"]]

\* Print titles that are kept are the lines they were set to (shiftPrintField).
TitlesExact ==
    plain => \A x \in Axes, c \in Cells :
        titles[x] # Null /\ at[c] # Null => (Covers(titles[x], at[c][x]) <=> Covers(home[x], c[x]))

\* An operation the guard lets a guest run leaves the protected cells as a
\* block: the range is kept, its cells keep their places within it and no
\* other cell enters it; no operation but an insertion of cells, which the
\* guard does not hold against the sheet's end, loses a cell of it
\* (canChangeStructure).
ProtectedStay ==
    [][last'.passed /\ protected # Null /\ OnSheet(protected) =>
          /\ protected' # Null
          /\ \A c \in Cells : at[c] # Null /\ at'[c] # Null =>
                /\ Inside(at[c], protected) <=> Inside(at'[c], protected')
                /\ Inside(at[c], protected) =>
                      \A x \in Axes : at'[c][x] - protected'[x].lo = at[c][x] - protected[x].lo
          /\ last'.kind # "insertCells" =>
                \A c \in Cells : at[c] # Null /\ Inside(at[c], protected) => at'[c] # Null]_vars

\* Print titles follow their rows and columns: they are there as long as one of
\* the lines is (the comment on shiftPrintField).
TitlesFollow ==
    plain => \A x \in Axes, c \in Cells :
        at[c] # Null /\ Covers(home[x], c[x]) => titles[x] # Null /\ Covers(titles[x], at[c][x])
=============================================================================
