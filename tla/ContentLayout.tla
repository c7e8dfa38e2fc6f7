---------------------------- MODULE ContentLayout ----------------------------
(***************************************************************************)
(* The rows and columns in which a block or an apartado shows its concepts *)
(* and its tables (features/valuations/services/content-layout.ts,         *)
(* content-layout-v2-operations.ts and content-transfer.ts).               *)
(*                                                                         *)
(* An item is a number: a concept is positive, a table or an image (they   *)
(* are placed alike) negative.  An id is a tuple of numbers: r-n and c-n   *)
(* are <<n>>, c-i-j is <<i, j>>, a "-split-k" and a "-dup-p" are appended, *)
(* and an id drawn at random starts with -3.  A column holds one item.     *)
(* Malformed rows and items listed twice, which no edit leaves behind, are *)
(* left out, and so are the widths and styles the user gives.              *)
(***************************************************************************)
EXTENDS Integers, Sequences, FiniteSets
LOCAL INSTANCE SequencesExt
LOCAL INSTANCE FiniteSetsExt

CONTENT_LAYOUT_V2_MAX_COLUMNS_PER_ROW == 3

IsConcept(item) == item > 0

ContentOf(container) == container.concepts \o container.tables

-----------------------------------------------------------------------------
(* Reading a layout *)

RowIdsOf(layout) == {layout[i].id : i \in DOMAIN layout}
AllColumns(layout) == UNION {ToSet(layout[i].columns) : i \in DOMAIN layout}
ColumnIdsOf(layout) == {column.id : column \in AllColumns(layout)}
ItemsOf(layout) == {column.item : column \in AllColumns(layout)}

\* The first of some places, or 0.
FirstOf(places) == IF places = {} THEN 0 ELSE Min(places)

ColumnPlace(columns, columnId) == FirstOf({j \in DOMAIN columns : columns[j].id = columnId})

\* The items of a layout as a grid.
layoutArrangement(layout) ==
    [i \in DOMAIN layout |-> [j \in DOMAIN layout[i].columns |-> layout[i].columns[j].item]]

findRowIndex(layout, rowId) == FirstOf({i \in DOMAIN layout : layout[i].id = rowId})

RowOfColumn(layout, columnId) == FirstOf({i \in DOMAIN layout : ColumnPlace(layout[i].columns, columnId) > 0})

ColumnOfItem(layout, item) == CHOOSE column \in AllColumns(layout) : column.item = item

ColumnOf(layout, columnId) == CHOOSE column \in AllColumns(layout) : column.id = columnId

removeEmptyRows(layout) == SelectSeq(layout, LAMBDA row : row.columns # << >>)

\* The rows with the columns that pass, without the ones left empty.
Keeping(layout, Passes(_)) ==
    removeEmptyRows([i \in DOMAIN layout |-> [layout[i] EXCEPT !.columns = SelectSeq(@, Passes)]])

-----------------------------------------------------------------------------
(* Ids *)

\* The id, or the first variant of it that is not taken.
claimUniqueId(id, used, position) ==
    LET Candidate(k) == IF k = 0 THEN id ELSE id \o <<-2, position, k>>
    IN  Candidate(Min({k \in 0..Cardinality(used) : Candidate(k) \notin used}))

\* Numbers of the ids that are a number alone.
Indices(ids) == {id[1] : id \in {taken \in ids : Len(taken) = 1 /\ taken[1] >= 0}}

\* "r-{n} where n is the first unused index."
generateRowId(layout) ==
    LET taken == Indices(RowIdsOf(layout)) IN <<Min((0..Cardinality(taken)) \ taken)>>

\* The number after the highest of the row ids, or of the column ids.
NextRowIndex(layout) == Max(Indices(RowIdsOf(layout)) \cup {-1}) + 1
NextColumnIndex(layout) == Max(Indices(ColumnIdsOf(layout)) \cup {-1}) + 1

ensureUniqueColumnIds(columns, used) ==
    LET Next(done, i) ==
            Append(done, [columns[i] EXCEPT !.id = claimUniqueId(@, used \cup {done[j].id : j \in DOMAIN done}, i - 1)])
        repaired[n \in 0..Len(columns)] == IF n = 0 THEN << >> ELSE Next(repaired[n - 1], n)
    IN  repaired[Len(columns)]

-----------------------------------------------------------------------------
(* What a container shows *)

\* A row of more columns than fit, in as many rows as it takes.
SplitRow(row) ==
    LET most == CONTENT_LAYOUT_V2_MAX_COLUMNS_PER_ROW
        chunks == (Len(row.columns) + most - 1) \div most
    IN  [k \in 1..chunks |->
            [id |-> IF chunks = 1 THEN row.id ELSE row.id \o <<-1, k - 1>>,
             columns |-> SubSeq(row.columns, most * (k - 1) + 1, Min({most * k, Len(row.columns)}))]]

\* Ids that are taken are repaired, where any is.
UniqueColumnIds(layout) ==
    LET Next(done, row) == Append(done, [row EXCEPT !.columns = ensureUniqueColumnIds(@, ColumnIdsOf(done))])
        repaired[n \in 0..Len(layout)] == IF n = 0 THEN << >> ELSE Next(repaired[n - 1], layout[n])
    IN  IF Cardinality(ColumnIdsOf(layout)) = Cardinality(AllColumns(layout)) THEN layout ELSE repaired[Len(layout)]

UniqueRowIds(layout) ==
    LET Next(done, row) == Append(done, [row EXCEPT !.id = claimUniqueId(@, RowIdsOf(done), Len(done))])
        repaired[n \in 0..Len(layout)] == IF n = 0 THEN << >> ELSE Next(repaired[n - 1], layout[n])
    IN  IF Cardinality(RowIdsOf(layout)) = Len(layout) THEN layout ELSE repaired[Len(layout)]

SplitRows(layout) ==
    LET split[n \in 0..Len(layout)] == IF n = 0 THEN << >> ELSE split[n - 1] \o SplitRow(layout[n])
    IN  split[Len(layout)]

\* The rows with the items that are live, their ids repaired and the full ones
\* split.
reconcileContentLayout(live, layout) ==
    UniqueRowIds(SplitRows(UniqueColumnIds(Keeping(layout, LAMBDA column : column.item \in live))))

normalizeContentLayout(layout) == reconcileContentLayout(ItemsOf(layout), layout)

NewColumn(layout, index, position, item) ==
    [id |-> claimUniqueId(<<index, position>>, ColumnIdsOf(layout), position), item |-> item]

\* What the layout misses fills the last row, and then rows of its own.
appendMissingContentToV2(container, layout) ==
    LET missing == SelectSeq(ContentOf(container), LAMBDA item : item \notin ItemsOf(layout))
        Next(done, item) ==
            LET last == Len(done)
                index == NextRowIndex(done)
            IN  IF last > 0 /\ Len(done[last].columns) < CONTENT_LAYOUT_V2_MAX_COLUMNS_PER_ROW
                THEN [done EXCEPT ![last].columns = Append(@, NewColumn(done, last - 1, Len(@), item))]
                ELSE Append(done, [id |-> <<index>>, columns |-> <<NewColumn(done, index, 0, item)>>])
        appended[n \in 0..Len(missing)] == IF n = 0 THEN layout ELSE Next(appended[n - 1], missing[n])
    IN  appended[Len(missing)]

\* Two concepts fill the grid of 12 units of a row; anything else is alone.
bootstrapContentLayout(container) ==
    LET concepts == container.concepts
        tables == container.tables
        pairs == (Len(concepts) + 1) \div 2
        Packed(i) == IF i > pairs THEN <<tables[i - pairs]>> ELSE SubSeq(concepts, 2 * i - 1, Min({2 * i, Len(concepts)}))
        Columns(i, items) == [j \in DOMAIN items |-> [id |-> <<i - 1, j - 1>>, item |-> items[j]]]
    IN  [i \in 1..pairs + Len(tables) |-> [id |-> <<i - 1>>, columns |-> Columns(i, Packed(i))]]

resolveContentLayout(container) ==
    IF container.laid
    THEN appendMissingContentToV2(container,
             reconcileContentLayout(ToSet(ContentOf(container)), normalizeContentLayout(container.layout)))
    ELSE bootstrapContentLayout(container)

WithoutItems(container, items) ==
    [container EXCEPT !.concepts = SelectSeq(@, LAMBDA item : item \notin items),
                      !.tables = SelectSeq(@, LAMBDA item : item \notin items)]

\* "What was there keeps its place and the new item gets a row of its own at
\* the end."
contentLayoutWithOwnRowFor(container, added) ==
    LET After(previous, index) ==
            Append(previous, [id |-> claimUniqueId(<<index>>, RowIdsOf(previous), Len(previous)),
                              columns |-> <<NewColumn(previous, index, 0, added)>>])
        To(previous) == After(previous, NextRowIndex(previous))
    IN  To(resolveContentLayout(WithoutItems(container, {added})))

-----------------------------------------------------------------------------
(* Moving a column of a layout *)

\* Beside another column, when it is of the same row or there is room in the
\* other's.
moveColumnBeside(layout, columnId, target, after) ==
    LET source == RowOfColumn(layout, columnId)
        row == RowOfColumn(layout, target)
        column == ColumnOf(layout, columnId)
        rest == SelectSeq(layout[row].columns, LAMBDA other : other.id # columnId)
        place == ColumnPlace(rest, target) + (IF after THEN 1 ELSE 0)
    IN  IF source # row /\ Len(layout[row].columns) >= CONTENT_LAYOUT_V2_MAX_COLUMNS_PER_ROW THEN layout
        ELSE removeEmptyRows([i \in DOMAIN layout |->
                IF i = row THEN [layout[i] EXCEPT !.columns = InsertAt(rest, place, column)]
                ELSE [layout[i] EXCEPT !.columns = SelectSeq(@, LAMBDA other : other.id # columnId)]])

\* Mutant: the row the column leaves is taken to be above the other.
AlwaysFromAbove(layout, columnId, rowId, after) ==
    LET source == RowOfColumn(layout, columnId)
        target == findRowIndex(layout, rowId)
        alone == Len(layout[source].columns) = 1
        rest == Keeping(layout, LAMBDA column : column.id # columnId)
        place == IF after THEN (IF alone THEN target ELSE target + 1)
                 ELSE IF source = target /\ ~alone THEN target + 1 ELSE target
    IN  InsertAt(rest, place, [id |-> generateRowId(layout), columns |-> <<ColumnOf(layout, columnId)>>])

\* In a row of its own before or after a row.  Before its own row, when it is
\* not alone in it, it takes the place after what is left.
moveColumnToNewRow(layout, columnId, rowId, after) ==
    LET source == RowOfColumn(layout, columnId)
        target == findRowIndex(layout, rowId)
        alone == Len(layout[source].columns) = 1
        rest == Keeping(layout, LAMBDA column : column.id # columnId)
        place == IF alone
                 THEN IF after THEN (IF source <= target THEN target ELSE target + 1)
                      ELSE IF source < target THEN target - 1 ELSE target
                 ELSE IF after \/ source = target THEN target + 1 ELSE target
    IN  InsertAt(rest, place, [id |-> generateRowId(layout), columns |-> <<ColumnOf(layout, columnId)>>])

\* A move is [placement, column, row, anchor]: the column it takes and the row
\* or the column it is placed by.
moveContentLayout(layout, move) ==
    IF move.placement \in {"before-column", "after-column"}
    THEN IF move.column = move.anchor THEN layout
         ELSE moveColumnBeside(layout, move.column, move.anchor, move.placement = "after-column")
    ELSE moveColumnToNewRow(layout, move.column, move.row, move.placement = "new-row-after")

-----------------------------------------------------------------------------
(* Taking a column of a layout to another *)

extractColumnFromLayout(layout, item) == Keeping(layout, LAMBDA column : column.item # item)

ensureUniqueColumnId(column, layout) ==
    IF column.id \in ColumnIdsOf(layout) THEN [column EXCEPT !.id = <<NextColumnIndex(layout)>>] ELSE column

insertBesideColumn(layout, column, anchor, after) ==
    LET row == RowOfColumn(layout, anchor)
        place == ColumnPlace(layout[row].columns, anchor) + (IF after THEN 1 ELSE 0)
    IN  IF Len(layout[row].columns) >= CONTENT_LAYOUT_V2_MAX_COLUMNS_PER_ROW THEN layout
        ELSE [layout EXCEPT ![row].columns = InsertAt(@, place, column)]

\* A placement is [type, anchor].  The layout itself when it is refused.
insertColumnAtPlacement(layout, column, placement) ==
    LET newRow == [id |-> generateRowId(layout), columns |-> <<column>>]
        anchor == findRowIndex(layout, placement.anchor)
    IN  CASE placement.type = "new-row" -> Append(layout, newRow)
          [] placement.type = "new-row-before" -> InsertAt(layout, anchor, newRow)
          [] placement.type = "new-row-after" -> InsertAt(layout, anchor + 1, newRow)
          [] OTHER -> insertBesideColumn(layout, column, placement.anchor, placement.type = "after-column")

\* Rows of columns at the end, under ids drawn for them.
appendRows(layout, rows, drawn) ==
    FoldLeftDomain(LAMBDA done, i :
        LET columns == FoldLeftDomain(LAMBDA placed, j :
                LET taken == ColumnIdsOf(done) \cup {placed[k].id : k \in DOMAIN placed}
                IN  Append(placed, [rows[i][j] EXCEPT !.id = IF @ \in taken THEN drawn \o <<i, j>> ELSE @]), << >>, rows[i])
        IN  Append(done, [id |-> drawn \o <<i, 0>>, columns |-> columns]), layout, rows)
=============================================================================
