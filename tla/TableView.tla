------------------------------ MODULE TableView ------------------------------
(***************************************************************************)
(* The table component (server/web/src/components/Table.vue) and the       *)
(* formats of its labels (server/web/src/helper.ts), as operators.         *)
(*                                                                         *)
(* A column is a record [id, order, sticky, mergeable], a row a function   *)
(* from the ids of its columns to cells [label, value].  Names are         *)
(* numbers, ordered as the strings they stand for; Undefined is below      *)
(* every value, as the comparison of the code has it.                      *)
(***************************************************************************)
EXTENDS Integers, SequencesExt

Undefined == -1

---------------------------------------------------------------------------
(* Numbers with a unit (helper.ts).                                        *)

NoUnit == -1

\* v in each of the units there may be: each is worth `base` of the one before.
Scaled(v, base) ==
    LET scaled[e \in 0 .. 4] == IF e = 0 THEN v ELSE scaled[e - 1] \div base
    IN  scaled

\* floor(log v / log base), at most top; the logarithm of 0 and of a fraction
\* leads to no unit.
Exponent(v, base, top) ==
    IF v < 1 THEN NoUnit ELSE Max({e \in 0 .. top : Scaled(v, base)[e] >= 1})

\* Mutant: the unit is that of the greatest.
FormatNumbersByMax(top, values, binary) ==
    LET base     == IF binary THEN 1024 ELSE 1000
        exponent == Max({Exponent(values[i], base, top) : i \in DOMAIN values})
    IN  [unit   |-> exponent,
         values |-> [i \in DOMAIN values |->
                        IF exponent = NoUnit THEN Undefined ELSE Scaled(values[i], base)[exponent]]]

\* formatNumbers: one unit for all the values, that of the smallest of them.
FormatNumbers(top, values, binary) ==
    LET base     == IF binary THEN 1024 ELSE 1000
        exponent == Min({Exponent(values[i], base, top) : i \in DOMAIN values})
    IN  [unit   |-> exponent,
         values |-> [i \in DOMAIN values |->
                        IF exponent = NoUnit THEN Undefined ELSE Scaled(values[i], base)[exponent]]]

\* formatStat: bytes are shown as bits; other units are not scaled.
FormatStat(value, unit) ==
    IF value = Undefined THEN [unit |-> NoUnit, values |-> <<Undefined>>]
    ELSE CASE unit = "Bps" -> FormatNumbers(3, <<value * 8>>, FALSE)
           [] unit \in {"bps", "ns"} -> FormatNumbers(3, <<value>>, FALSE)
           [] OTHER -> [unit |-> 0, values |-> <<value>>]

---------------------------------------------------------------------------
(* Ordering rows.                                                          *)

ValueOf(row, id) == IF id \in DOMAIN row THEN row[id].value ELSE Undefined
LabelOf(row, id) == IF id \in DOMAIN row THEN row[id].label ELSE Undefined

\* The columns a table is ordered by when it is mounted.
OrderAtMount(columns) ==
    LET asked == SelectSeq(columns, LAMBDA c : c.order # "none")
    IN  [i \in DOMAIN asked |-> [id |-> asked[i].id, order |-> asked[i].order]]

\* The comparison: the first ordered column in which the rows differ decides; rows
\* that differ in none stay in the order they came in.
Precedes(rows, ordered, i, j) ==
    LET diff == SelectInSeq(ordered, LAMBDA oc : ValueOf(rows[i], oc.id) # ValueOf(rows[j], oc.id))
        oc   == ordered[diff]
    IN  IF diff = 0 THEN i < j
        ELSE IF oc.order = "desc" THEN ValueOf(rows[j], oc.id) < ValueOf(rows[i], oc.id)
        ELSE ValueOf(rows[i], oc.id) < ValueOf(rows[j], oc.id)

SortRows(rows, ordered) ==
    LET order == SortSeq([i \in DOMAIN rows |-> i], LAMBDA i, j : Precedes(rows, ordered, i, j))
    IN  [i \in DOMAIN rows |-> rows[order[i]]]

\* A click on a title: ascending, descending, then not at all; a column that was not
\* ordered comes after those that are.
OnOrderColumn(ordered, id) ==
    LET i == SelectInSeq(ordered, LAMBDA oc : oc.id = id)
    IN  IF i = 0 THEN Append(ordered, [id |-> id, order |-> "asc"])
        ELSE IF ordered[i].order = "asc" THEN [ordered EXCEPT ![i].order = "desc"]
        ELSE RemoveAt(ordered, i)

---------------------------------------------------------------------------
(* Cells.                                                                  *)

\* Mutant: the cell of the same label grows, wherever it is.
MergeAnywhere(cells, label) ==
    LET k == SelectInSeq(cells, LAMBDA c : c.label = label)
    IN  IF k # 0 THEN [cells EXCEPT ![k].rowspan = @ + 1]
        ELSE Append(cells, [label |-> label, first |-> 1 + FoldLeft(LAMBDA n, c : n + c.rowspan, 0, cells),
                            rowspan |-> 1])

\* One more row in a mergeable column: the cell of the row before grows when the
\* label is the same.  (The code finds that cell by the index of its column, which is
\* right for the one column that is mergeable, the first.)
Merge(cells, label) ==
    IF cells # <<>> /\ Last(cells).label = label
    THEN [cells EXCEPT ![Len(cells)].rowspan = @ + 1]
    ELSE Append(cells, [label |-> label, first |-> 1 + FoldLeft(LAMBDA n, c : n + c.rowspan, 0, cells),
                        rowspan |-> 1])

\* The cells of a column, each with the row it starts on.
CellsOf(column, rows) ==
    LET labels == [i \in DOMAIN rows |-> LabelOf(rows[i], column.id)]
    IN  IF column.mergeable THEN FoldLeft(Merge, <<>>, labels)
        ELSE [i \in DOMAIN rows |-> [label |-> labels[i], first |-> i, rowspan |-> 1]]

OrderOf(ordered, id) ==
    LET i == SelectInSeq(ordered, LAMBDA oc : oc.id = id)
    IN  IF i = 0 THEN "none" ELSE ordered[i].order

\* The columns of one of the two tables, the one that stays and the one that scrolls.
Part(sticky, table, rows, ordered) ==
    LET columns == SelectSeq(table.columns, LAMBDA c : c.sticky = sticky)
    IN  [i \in DOMAIN columns |->
            [id |-> columns[i].id, order |-> OrderOf(ordered, columns[i].id),
             cells |-> CellsOf(columns[i], rows)]]

\* The two tables side by side; one without columns is not drawn.
Tables(table, ordered) ==
    LET rows == SortRows(table.rows, ordered)
    IN  SelectSeq(<<Part(TRUE, table, rows, ordered), Part(FALSE, table, rows, ordered)>>,
                  LAMBDA t : t # <<>>)
=============================================================================
