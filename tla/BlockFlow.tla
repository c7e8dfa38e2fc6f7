------------------------------ MODULE BlockFlow ------------------------------
(***************************************************************************)
(* The order in which a block shows the rows of its own content and its    *)
(* apartados (features/valuations/services/block-flow.ts): structural rows *)
(* with one content row or with one or two apartados, as the block stores  *)
(* them or else as they follow from its content.                           *)
(*                                                                         *)
(* A block is [apartados, held, flow, flowed]: the ids of its apartados,   *)
(* what it (NoApartado) and each of them hold, and its stored flow, if it  *)
(* has one.  A structural id is bf-c-(row), bf-a-(apartado) or drawn at    *)
(* random.  Rows of any other shape, which no edit leaves behind, are left *)
(* out (normalizeStructuralRow).                                           *)
(***************************************************************************)
EXTENDS ContentLayout
LOCAL INSTANCE SequencesExt

NoApartado == 0

RowItem(rowId) == [row |-> rowId, apartado |-> NoApartado]
ApartadoItem(a) == [row |-> << >>, apartado |-> a]

contentRowStructuralId(rowId) == <<-1>> \o rowId
apartadoStructuralId(a) == <<-2, a>>

StructuralRow(item) ==
    [id |-> IF item.apartado = NoApartado THEN contentRowStructuralId(item.row) ELSE apartadoStructuralId(item.apartado),
     items |-> <<item>>]

\* The items a block has to show: the rows of its stored layout, or of the one
\* its content makes, and its apartados.
LiveItems(block) ==
    LET RowItems(layout) == [i \in DOMAIN layout |-> RowItem(layout[i].id)]
        home == block.held[NoApartado]
    IN  RowItems(IF home.laid THEN home.layout ELSE resolveContentLayout(home))
        \o [i \in DOMAIN block.apartados |-> ApartadoItem(block.apartados[i])]

FlowItems(flow) == UNION {ToSet(flow[i].items) : i \in DOMAIN flow}

\* The stored rows with the items that are live, each where it is first.
LiveRows(flow, live) ==
    LET Next(done, row) ==
            LET items == SelectSeq(row.items, LAMBDA item : item \in ToSet(live) \ FlowItems(done))
            IN  IF items = << >> THEN done ELSE Append(done, [row EXCEPT !.items = items])
        kept[n \in 0..Len(flow)] == IF n = 0 THEN << >> ELSE Next(kept[n - 1], flow[n])
    IN  kept[Len(flow)]

\* The items that are missing, after them.
WithMissing(flow, live) ==
    LET missing == SelectSeq(live, LAMBDA item : item \notin FlowItems(flow))
    IN  flow \o [i \in DOMAIN missing |-> StructuralRow(missing[i])]

FlowShowing(flow, live) == WithMissing(LiveRows(flow, live), live)

normalizeBlockFlowV2(block, flow) == FlowShowing(flow, LiveItems(block))

resolveBlockFlowV2(block) == normalizeBlockFlowV2(block, IF block.flowed THEN block.flow ELSE << >>)

\* The row of an item, the first one.
RowOfItem(flow, item) == FirstOf({i \in DOMAIN flow : item \in ToSet(flow[i].items)})

RowWithId(flow, id) == FirstOf({i \in DOMAIN flow : flow[i].id = id})

-----------------------------------------------------------------------------
(* Moving an apartado in its block *)

\* Out of its row: every row with the id of that one goes, and what is left of
\* it takes its place.
WithoutApartado(flow, a) ==
    LET source == RowOfItem(flow, ApartadoItem(a))
        remaining == SelectSeq(flow[source].items, LAMBDA item : item # ApartadoItem(a))
        others == SelectSeq(flow, LAMBDA row : row.id # flow[source].id)
    IN  IF remaining = << >> THEN others ELSE InsertAt(others, source, [flow[source] EXCEPT !.items = remaining])

\* In a row of its own before or after a structural row.
moveApartadoToRow(flow, a, rowId, after, drawn) ==
    LET source == RowOfItem(flow, ApartadoItem(a))
        gone == Len(flow[source].items) = 1
        alone == [id |-> drawn, items |-> <<ApartadoItem(a)>>]
        Adjusted(place, target) == IF flow[source].id # rowId /\ source < target /\ gone THEN place - 1 ELSE place
        At(rest, target) ==
            IF target = 0 THEN flow
            ELSE InsertAt(rest, Adjusted(IF after THEN target + 1 ELSE target, target), alone)
        In(rest) == At(rest, RowWithId(rest, rowId))
    IN  In(WithoutApartado(flow, a))

\* To the left or to the right of another apartado, when it is alone.
moveApartadoBeside(flow, a, other, after) ==
    LET place == IF after THEN 2 ELSE 1
        At(rest, target) ==
            IF a = other \/ target = 0 THEN flow
            ELSE IF Len(rest[target].items) >= 2 THEN flow
            ELSE [i \in DOMAIN rest |->
                    IF rest[i].id = rest[target].id
                    THEN [rest[i] EXCEPT !.items = InsertAt(rest[target].items, place, ApartadoItem(a))] ELSE rest[i]]
        In(rest) == At(rest, RowOfItem(rest, ApartadoItem(other)))
    IN  In(WithoutApartado(flow, a))

\* One step up or down: out of its pair, or past the row next to its own.
moveBlockFlowV2ApartadoOneStep(flow, a, down, drawn) ==
    LET source == RowOfItem(flow, ApartadoItem(a))
        target == IF Len(flow[source].items) = 2 THEN source ELSE IF down THEN source + 1 ELSE source - 1
    IN  IF target \notin DOMAIN flow THEN flow ELSE moveApartadoToRow(flow, a, flow[target].id, down, drawn)

-----------------------------------------------------------------------------
(* The rows of the content *)

\* A new row of the content before or after the row of an item.
insertContentRowIntoBlockFlowV2(flow, rowId, anchor, after, drawn) ==
    LET at == RowOfItem(flow, anchor)
    IN  IF RowItem(rowId) \in FlowItems(flow) \/ at = 0 THEN flow
        ELSE InsertAt(flow, IF after THEN at + 1 ELSE at, [id |-> drawn, items |-> <<RowItem(rowId)>>])

removeContentRowsFromBlockFlowV2(flow, rowIds) ==
    LET Live(item) == item.apartado # NoApartado \/ item.row \in rowIds
    IN  SelectSeq([i \in DOMAIN flow |-> [flow[i] EXCEPT !.items = SelectSeq(@, Live)]], LAMBDA row : row.items # << >>)

\* A column in a row of its own next to a structural row: the layout and the
\* flow after it.  Next to a row of apartados it is laid after the first row,
\* and the flow alone says where it shows.
moveContentColumnToBlockFlowBoundary(layout, flow, columnId, structuralId, after, drawn) ==
    LET anchor == flow[RowWithId(flow, structuralId)].items[1]
        within == anchor.apartado = NoApartado
        Left(moved) == removeContentRowsFromBlockFlowV2(flow, RowIdsOf(moved))
        Both(moved) ==
            [layout |-> moved,
             flow |-> insertContentRowIntoBlockFlowV2(Left(moved), generateRowId(layout), anchor, after, drawn)]
    IN  Both(moveColumnToNewRow(layout, columnId, IF within THEN anchor.row ELSE layout[1].id, after \/ ~within))
=============================================================================
