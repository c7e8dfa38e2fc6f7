---------------------------- MODULE DocumentTable ----------------------------
(***************************************************************************)
(* A table of the document as the appraiser edits it                       *)
(* (features/valuations/services/table.ts, through the handlers of         *)
(* components/editor/table-editor.tsx).  The columns are stored twice, in  *)
(* the table and in the zones of its structure, and shown by a third list, *)
(* the header in one or two rows: every operation has to keep the three    *)
(* together.                                                               *)
(*                                                                         *)
(* A row is the columns it has cells for, and one stands for all: what is  *)
(* done to rows does not touch the columns.  Names, widths, formats and    *)
(* formulas are left out.  A header group is the zone it titles:           *)
(* groupTableHeaders makes both together, and no other operation makes one.*)
(* The id of a new column is a number no column had before, and that of a  *)
(* new zone one no zone has.  MaxInserted bounds the columns inserted and  *)
(* MaxHidden those hidden at once.                                         *)
(***************************************************************************)
EXTENDS Integers, Sequences, FiniteSets, SequencesExt

CONSTANTS
    Homologation,   \* the table createHomologationTable makes
    FreeTable,      \* a table of the appraiser's, with no structure
    MaxInserted, MaxHidden

ASSUME TableBoundsAssumption == {MaxInserted, MaxHidden} \subseteq Nat

VARIABLES
    table,          \* columns, zones, grouped zones, hidden columns, cells of a row
    inserted        \* columns inserted so far

tableVars == <<table, inserted>>

NoZone == -1

\* The members of a sequence that are in a set, in their order.
Only(s, S) ==
    LET kept[n \in 0..Len(s)] ==
            IF n = 0 THEN << >> ELSE IF s[n] \in S THEN Append(kept[n - 1], s[n]) ELSE kept[n - 1]
    IN  kept[Len(s)]

-----------------------------------------------------------------------------
(* The tables there are to edit *)

Zone == [id : Int, minColumns : Nat, columnIds : Seq(Int)]

Table == [columns : Seq(Int), cells : SUBSET Int, hidden : SUBSET Int, preset : BOOLEAN, grouped : SUBSET Int,
          zones : Seq(Zone)]

zoneIds(t) == {t.zones[i].id : i \in DOMAIN t.zones}

\* No column twice, and no two zones of one id.
NamedOnce(t) ==
    /\ \A i, j \in DOMAIN t.columns : t.columns[i] = t.columns[j] => i = j
    /\ \A i, j \in DOMAIN t.zones : t.zones[i].id = t.zones[j].id => i = j

\* Each zone has the columns that are given it, and they come zone after zone.
ZonedBy(t, zoneOf) ==
    /\ \A i, j \in DOMAIN t.columns : i <= j => zoneOf[t.columns[i]] <= zoneOf[t.columns[j]]
    /\ \A k \in DOMAIN t.zones : t.zones[k].columnIds = Only(t.columns, {c \in ToSet(t.columns) : zoneOf[c] = k})

Zoned(t) == t.zones = << >> \/ \E zoneOf \in [ToSet(t.columns) -> DOMAIN t.zones] : ZonedBy(t, zoneOf)

\* The columns, the zones, the cells and the titles of one table.
Arranged(t) ==
    /\ t \in Table /\ NamedOnce(t) /\ Zoned(t)
    /\ t.columns # << >> /\ t.cells = ToSet(t.columns)
    /\ t.grouped \subseteq zoneIds(t) \ {NoZone}

\* As createHomologationTable and the appraiser make them.
ASSUME TablesAssumption == \A t \in {Homologation, FreeTable} : Arranged(t) /\ t.cells \subseteq Nat

-----------------------------------------------------------------------------
(* What a table shows *)

\* The id of the first zone that holds a column.
findZoneForColumn(t, c) ==
    LET i == SelectInSeq(t.zones, LAMBDA z : c \in ToSet(z.columnIds))
    IN  IF i = 0 THEN NoZone ELSE t.zones[i].id

\* "The SINGLE source of truth for column display order."
getDisplayColumns(t) ==
    IF t.zones = << >> THEN t.columns
    ELSE Only(FlattenSeq([i \in DOMAIN t.zones |-> t.zones[i].columnIds]), ToSet(t.columns))

printableColumns(t) == Only(getDisplayColumns(t), ToSet(t.columns) \ t.hidden)

\* Mutant: a title counts the columns that are not printed.
AllOfZone(zone, printed) == zone.columnIds

\* The columns of a zone that are among the ones printed.
ColumnsOfZone(zone, printed) == Only(zone.columnIds, ToSet(printed))

\* The top row of the header: the title of a grouped zone over as many columns
\* as it prints, and the columns of the others by themselves.
topRow(t, printed) ==
    IF t.grouped = {} THEN [i \in DOMAIN printed |-> [title |-> NoZone, column |-> printed[i], colSpan |-> 1]]
    ELSE FlattenSeq([i \in DOMAIN t.zones |->
        LET own == ColumnsOfZone(t.zones[i], printed)
        IN  IF own = << >> THEN << >>
            ELSE IF t.zones[i].id \in t.grouped
                 THEN <<[title |-> t.zones[i].id, column |-> NoZone, colSpan |-> Len(own)]>>
                 ELSE [k \in DOMAIN own |-> [title |-> NoZone, column |-> own[k], colSpan |-> 1]]])

\* The bottom row: the columns of the grouped zones.
bottomRow(t, printed) ==
    Only(FlattenSeq([i \in DOMAIN t.zones |-> ColumnsOfZone(t.zones[i], printed)]),
         {c \in ToSet(printed) : findZoneForColumn(t, c) \in t.grouped})

-----------------------------------------------------------------------------
(* The operations *)

PositionOf(c, order) == SelectInSeq(order, LAMBDA d : d = c)

Moved(s, from, to) == InsertAt(RemoveAt(s, from), to, s[from])

\* Mutant: only the zones take the order.
ZonesInOrder(t, order, zoneOf) ==
    [t EXCEPT !.zones = [i \in DOMAIN t.zones |->
        [t.zones[i] EXCEPT !.columnIds = Only(order, {c \in ToSet(order) : zoneOf[c] = t.zones[i].id})]]]

\* The columns in an order, each in the zone it is given.
withColumnOrder(t, order, zoneOf) ==
    [t EXCEPT !.columns = Only(order, ToSet(t.columns)) \o Only(t.columns, ToSet(t.columns) \ ToSet(order)),
              !.zones = [i \in DOMAIN t.zones |->
                  [t.zones[i] EXCEPT !.columnIds = Only(order, {c \in ToSet(order) : zoneOf[c] = t.zones[i].id})]]]

ZonesOf(t, order) == [c \in ToSet(order) |-> findZoneForColumn(t, c)]

\* A column takes the place of another, and its zone.
moveTableColumnTo(t, c, target) ==
    LET shown == getDisplayColumns(t)
        order == Moved(shown, PositionOf(c, shown), PositionOf(target, shown))
    IN  IF t.zones = << >>
        THEN [t EXCEPT !.columns = Moved(@, PositionOf(c, @), PositionOf(target, @))]
        ELSE withColumnOrder(t, order, [ZonesOf(t, shown) EXCEPT ![c] = findZoneForColumn(t, target)])

\* One of a table's columns, unless it is its only one or the last of the
\* factors of the homologation.
canRemoveTableColumn(t, c) ==
    /\ Len(t.columns) > 1
    /\ \A i \in DOMAIN t.zones :
          t.zones[i].id = findZoneForColumn(t, c) => Len(t.zones[i].columnIds) > t.zones[i].minColumns

\* Mutant: the cells of the column stay.
RemoveKeepingCells(t, c) ==
    [t EXCEPT !.columns = Only(@, ToSet(@) \ {c}),
              !.zones = [i \in DOMAIN t.zones |->
                  [t.zones[i] EXCEPT !.columnIds = Only(@, ToSet(@) \ {c})]]]

removeTableColumn(t, c) ==
    [t EXCEPT !.columns = Only(@, ToSet(@) \ {c}),
              !.cells = @ \ {c},
              !.zones = [i \in DOMAIN t.zones |->
                  [t.zones[i] EXCEPT !.columnIds = Only(@, ToSet(@) \ {c})]]]

\* An empty column beside another, in its zone.
insertTableColumnBeside(t, c, side, new) ==
    LET shown == getDisplayColumns(t)
        at == PositionOf(c, shown)
        order == InsertAt(shown, IF side = "left" THEN at ELSE at + 1, new)
        filled == [t EXCEPT !.columns = Append(@, new), !.cells = @ \cup {new}]
        zoneOf == [d \in ToSet(order) |-> findZoneForColumn(t, IF d = new THEN c ELSE d)]
    IN  withColumnOrder(filled, order, zoneOf)

\* The groups that are left of a table, and the new one.  Mutant: it alone.
OnlyGroup(t, new) == {new}
Groups(t, new) == (t.grouped \cap zoneIds(t)) \cup {new}

\* "Each run of columns of one zone becomes a zone; the range becomes one of
\* its own", with a title: new is its id, and cut the one of the rest of a zone
\* the range cuts in two.
groupTableHeaders(t, from, to, new, cut) ==
    LET shown == getDisplayColumns(t)
        key == [i \in DOMAIN shown |-> IF i \in from..to THEN new ELSE findZoneForColumn(t, shown[i])]
        starts == Only([i \in DOMAIN shown |-> i], {i \in DOMAIN shown : i = 1 \/ key[i] # key[i - 1]})
        End(k) == IF k = Len(starts) THEN Len(shown) ELSE starts[k + 1] - 1
        zones == [k \in DOMAIN starts |->
            [id |-> IF \E j \in 1..(k - 1) : key[starts[j]] = key[starts[k]] THEN cut ELSE key[starts[k]],
             minColumns |-> 0,
             columnIds |-> SubSeq(shown, starts[k], End(k))]]
        structured == [t EXCEPT !.zones = zones]
    IN  withColumnOrder([structured EXCEPT !.grouped = Groups(structured, new)],
                        shown, ZonesOf(structured, shown))

-----------------------------------------------------------------------------
(* The editor *)

TableInit == table \in {Homologation, FreeTable} /\ inserted = 0

\* A header dropped on another one, or moved one step.
MoveColumn ==
    /\ \E c, target \in ToSet(getDisplayColumns(table)) :
          c # target /\ table' = moveTableColumnTo(table, c, target)
    /\ UNCHANGED inserted

NewColumn == -(inserted + 1)

\* "Insertar columna", and "Agregar columna" after the last one.
InsertColumn ==
    /\ inserted < MaxInserted /\ inserted' = inserted + 1
    /\ \E c \in ToSet(getDisplayColumns(table)), side \in {"left", "right"} :
          table' = insertTableColumnBeside(table, c, side, NewColumn)

DeleteColumn ==
    /\ \E c \in ToSet(getDisplayColumns(table)) :
          canRemoveTableColumn(table, c) /\ table' = removeTableColumn(table, c)
    /\ UNCHANGED inserted

NewZone(taken) == CHOOSE z \in 1..(Cardinality(taken) + 1) : z \notin taken

\* "Combinar encabezados", in the appraiser's own tables.
GroupHeaders ==
    /\ ~table.preset
    /\ LET shown == getDisplayColumns(table)
           new == NewZone(zoneIds(table))
       IN  \E from, to \in DOMAIN shown :
              /\ from <= to /\ Len(shown) > 1
              /\ table' = groupTableHeaders(table, from, to, new, NewZone(zoneIds(table) \cup {new}))
    /\ UNCHANGED inserted

\* "Separar los encabezados."
UngroupHeaders ==
    /\ ~table.preset
    /\ \E g \in table.grouped : table' = [table EXCEPT !.grouped = @ \ {g}]
    /\ UNCHANGED inserted

\* A column left out of the dictamen, or printed again.
SetColumnHidden ==
    /\ \E c \in ToSet(table.columns) :
          /\ c \in table.hidden \/ Cardinality(table.hidden) < MaxHidden
          /\ table' = [table EXCEPT !.hidden = IF c \in @ THEN @ \ {c} ELSE @ \cup {c}]
    /\ UNCHANGED inserted

TableNext ==
    \/ MoveColumn \/ InsertColumn \/ DeleteColumn
    \/ GroupHeaders \/ UngroupHeaders \/ SetColumnHidden

TableSpec == TableInit /\ [][TableNext]_tableVars

-----------------------------------------------------------------------------
(* Properties *)

\* "Every row has a cells entry for every column", and no other; columns and
\* zones are named once, and a group titles a zone of the table.
TableTypeOK ==
    /\ table.cells = ToSet(table.columns)
    /\ Cardinality(ToSet(table.columns)) = Len(table.columns)
    /\ Cardinality(zoneIds(table)) = Len(table.zones)
    /\ table.grouped \subseteq zoneIds(table)
    /\ table.columns # << >>

\* "The stored order and the printed one never disagree": the zones one after
\* another list the columns of the table in its own order, with none missing or
\* twice, after any sequence of moves, insertions, deletions and groupings.
OneOrder == getDisplayColumns(table) = table.columns

\* The columns each cell of the header is over, from left to right, as the
\* browser lays a two-row header: a title is over as many cells of the bottom
\* row as it spans.
HeadedColumns(printed) ==
    LET top == topRow(table, printed)
        bottom == bottomRow(table, printed)
        before[i \in 0..Len(top)] ==
            IF i = 0 THEN 0 ELSE before[i - 1] + (IF top[i].title = NoZone THEN 0 ELSE top[i].colSpan)
    IN  FlattenSeq([i \in DOMAIN top |->
            IF top[i].title = NoZone THEN <<top[i].column>> ELSE SubSeq(bottom, before[i - 1] + 1, before[i])])

\* Every header is over its own column, in the editor and in the dictamen,
\* where hidden columns print neither their cells nor their place under a title.
HeaderIsOverItsColumn ==
    /\ HeadedColumns(printableColumns(table)) = printableColumns(table)
    /\ HeadedColumns(getDisplayColumns(table)) = table.columns

TitleOf(t, c) == IF findZoneForColumn(t, c) \in t.grouped THEN findZoneForColumn(t, c) ELSE NoZone

\* The title over a column changes only by moving that column, which takes the
\* one where it lands; by grouping a range, which leaves every other column its
\* title or, past the end of a group the range cut, none; or by separating its
\* group.  Nothing else done to a table retitles a column.
TitlesStay ==
    [][table' # table =>
       LET kept == ToSet(table.columns) \cap ToSet(table'.columns)
           retitled == {c \in kept : TitleOf(table', c) # TitleOf(table, c)}
           new == table'.grouped \ table.grouped
       IN  IF new = {}
           THEN \/ Cardinality(retitled) <= 1 /\ table.grouped = table'.grouped
                \/ \A c \in kept : TitleOf(table', c) = IF TitleOf(table, c) \in table'.grouped THEN TitleOf(table, c) ELSE NoZone
           ELSE \A c \in retitled :
                   \/ TitleOf(table', c) \in new
                   \/ /\ TitleOf(table', c) = NoZone
                      /\ \E d, e \in kept :
                            /\ TitleOf(table, d) = TitleOf(table, c) /\ TitleOf(table', d) = TitleOf(table, c)
                            /\ TitleOf(table, e) = TitleOf(table, c) /\ TitleOf(table', e) \in new
    ]_tableVars
=============================================================================
