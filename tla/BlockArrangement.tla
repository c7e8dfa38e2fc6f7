--------------------------- MODULE BlockArrangement ---------------------------
(***************************************************************************)
(* What the editor does with the content of a section: where an item may   *)
(* be dropped and what the drop does (services/content-drop.ts and         *)
(* content-transfer.ts), concepts and apartados added, removed, copied and *)
(* sent to another place (workspace/model/section-content.ts, workspace/   *)
(* hooks/use-block-mutations.ts, services/structure-transfer.ts), and      *)
(* apartados moved in their block (components/editor/                      *)
(* block-flow-renderer.tsx).  Each edit is computed on the layouts and the *)
(* flow the editor shows, and stores what it needs of them.                *)
(*                                                                         *)
(* A container is <<block, apartado>>, the block itself with NoApartado.   *)
(* What is drawn at random in an edit is numbered after the edit.          *)
(***************************************************************************)
EXTENDS BlockFlow
LOCAL INSTANCE SequencesExt
LOCAL INSTANCE TLC

CONSTANTS
    Blocks,         \* the blocks of the section
    Locked,         \* those the calculation writes or replaces
    Pinned,         \* tables that are filled, or printed, where they are
    Arrangements,   \* the sections an edit may start from
    MaxArranging    \* bound: edits of a behaviour

VARIABLES
    section,        \* the blocks, as they are stored
    arranged        \* edits made

arrangementVars == <<section, arranged>>

Containers(s) == UNION {{b} \X DOMAIN s[b].held : b \in Blocks}
HeldBy(s, c) == s[c[1]].held[c[2]]
LayoutOf(s, c) == resolveContentLayout(HeldBy(s, c))
ContainerOf(s, item) == CHOOSE c \in Containers(s) : item \in ToSet(ContentOf(HeldBy(s, c)))

withContainerLayout(block, a, layout) == [block EXCEPT !.held[a] = [@ EXCEPT !.layout = layout, !.laid = TRUE]]
WithFlow(block, flow) == [block EXCEPT !.flow = flow, !.flowed = TRUE]

\* The block with the layout it shows, and its flow against that one.
Resolved(block) == withContainerLayout(block, NoApartado, resolveContentLayout(block.held[NoApartado]))
ShownFlow(block) == resolveBlockFlowV2(Resolved(block))

PlaceIn(s, x) == FirstOf({i \in DOMAIN s : s[i] = x})

-----------------------------------------------------------------------------
(* The slots of a drag *)

\* Where it may go: anywhere in its container, and elsewhere if it is not
\* pinned and neither block is the calculation's.
canMoveContent(from, item, to) ==
    \/ from = to
    \/ item \notin Pinned /\ (from[1] = to[1] \/ (from[1] \notin Locked /\ to[1] \notin Locked))

Slot(kind, at, place, state) == [kind |-> kind, at |-> at, place |-> place, state |-> state]

NoopAt(home, boundary) == IF home > 0 /\ boundary \in {home, home + 1} THEN "noop" ELSE "open"

\* Beside the columns of a layout: not in a full row, unless it is its own.
ColumnSlots(layout, item) ==
    LET State(i, p) ==
            LET home == FirstOf({j \in DOMAIN layout[i].columns : layout[i].columns[j].item = item})
            IN  IF home > 0 THEN NoopAt(home, p)
                ELSE IF Len(layout[i].columns) >= CONTENT_LAYOUT_V2_MAX_COLUMNS_PER_ROW THEN "closed" ELSE "open"
    IN  UNION {
            {Slot("column", layout[i].columns[j].id, "left", State(i, j)) : j \in DOMAIN layout[i].columns}
            \cup {Slot("column", layout[i].columns[Len(layout[i].columns)].id, "right", State(i, Len(layout[i].columns) + 1))}
            : i \in DOMAIN layout}

\* The row the item is alone in.
HomeRow(layout, item) ==
    FirstOf({i \in DOMAIN layout : Len(layout[i].columns) = 1 /\ layout[i].columns[1].item = item})

\* Between the rows of an apartado, which for a block are those of its flow.
RowSlots(layout, item) ==
    LET home == HomeRow(layout, item)
    IN  {Slot("row", layout[i].id, "below", NoopAt(home, i + 1)) : i \in DOMAIN layout}
        \cup {Slot("row", layout[i].id, "above", NoopAt(home, 1)) : i \in DOMAIN layout \cap {1}}

planContentDropSlots(layout, item) == ColumnSlots(layout, item) \cup RowSlots(layout, item)

findHomeContentRowId(layout, item) ==
    LET home == HomeRow(layout, item)
    IN  IF home = 0 THEN {} ELSE {layout[home].id}

planBlockBoundarySlots(flow, homeRow) ==
    LET home == FirstOf({RowOfItem(flow, RowItem(id)) : id \in homeRow})
    IN  {Slot("block-boundary", flow[i].id, "after", NoopAt(home, i + 1)) : i \in DOMAIN flow}
        \cup {Slot("block-boundary", flow[i].id, "before", NoopAt(home, 1)) : i \in DOMAIN flow \cap {1}}

\* The column itself, where a drag with the keyboard lands, in its own block.
KeyboardSlots(layout, item) ==
    {Slot("column", column.id, "auto", "open") : column \in {c \in AllColumns(layout) : c.item # item}}

SlotsOf(s, c, item) ==
    LET layout == LayoutOf(s, c)
        flow == ShownFlow(s[c[1]])
        near == IF c[1] = ContainerOf(s, item)[1] THEN KeyboardSlots(layout, item) ELSE {}
    IN  near \cup
        IF c[2] # NoApartado
        THEN IF layout = << >> THEN {Slot("apartado-inside", << >>, "inside", "open")}
             ELSE planContentDropSlots(layout, item)
        ELSE IF flow = << >> THEN {Slot("block-inside", << >>, "inside", "open")}
             ELSE ColumnSlots(layout, item) \cup planBlockBoundarySlots(flow, findHomeContentRowId(layout, item))

\* The drops of an item: where it is, where it goes and at which slot.
DropsOf(s, item) ==
    LET from == ContainerOf(s, item)
    IN  UNION {{[item |-> item, from |-> from, to |-> c, slot |-> slot] : slot \in {x \in SlotsOf(s, c, item) : x.state # "closed"}}
               : c \in {x \in Containers(s) : canMoveContent(from, item, x)}}

Items(s) == UNION {ToSet(ContentOf(HeldBy(s, c))) : c \in Containers(s)}
Drops(s) == UNION {DropsOf(s, item) : item \in Items(s)}

-----------------------------------------------------------------------------
(* What a drop does *)

\* On a column, after it when the item comes from earlier in its row.
AfterColumn(layout, column, slot) ==
    LET row == layout[RowOfColumn(layout, slot.at)].columns
    IN  IF slot.place = "auto" THEN ColumnPlace(row, column) \in 1..ColumnPlace(row, slot.at) - 1 ELSE slot.place = "right"

layoutMoveFor(layout, column, slot) ==
    IF slot.kind = "column"
    THEN [placement |-> IF AfterColumn(layout, column, slot) THEN "after-column" ELSE "before-column",
          column |-> column, row |-> << >>, anchor |-> slot.at]
    ELSE [placement |-> IF slot.place = "above" THEN "new-row-before" ELSE "new-row-after",
          column |-> column, row |-> slot.at, anchor |-> << >>]

moveWithinApartado(block, a, item, slot) ==
    LET To(layout, moved) ==
            IF layoutArrangement(moved) = layoutArrangement(layout) THEN block ELSE withContainerLayout(block, a, moved)
        From(layout) == To(layout, moveContentLayout(layout, layoutMoveFor(layout, ColumnOfItem(layout, item).id, slot)))
    IN  From(resolveContentLayout(block.held[a]))

\* The block as the user sees it.
blockArrangement(layout, flow) ==
    LET ItemsAt(row) == IF row = 0 THEN << >> ELSE [j \in DOMAIN layout[row].columns |-> layout[row].columns[j].item]
        Spelled(item) == [apartado |-> item.apartado,
                          items |-> IF item.apartado = NoApartado THEN ItemsAt(findRowIndex(layout, item.row)) ELSE << >>]
    IN  [i \in DOMAIN flow |-> [j \in DOMAIN flow[i].items |-> Spelled(flow[i].items[j])]]

\* Next to its own row while alone in it, there is nothing to place it against.
MovedInBlock(block, layout, flow, item, slot, drawn) ==
    LET column == ColumnOfItem(layout, item).id
        anchorsHome ==
            /\ slot.kind = "block-boundary"
            /\ \E id \in findHomeContentRowId(layout, item) : RowItem(id) \in ToSet(flow[RowWithId(flow, slot.at)].items)
        Beside(moved) == [layout |-> moved, flow |-> removeContentRowsFromBlockFlowV2(flow, RowIdsOf(moved))]
        Next(next) ==
            IF blockArrangement(next.held[NoApartado].layout, resolveBlockFlowV2(next)) = blockArrangement(layout, flow)
            THEN block ELSE next
        To(moved) == Next(WithFlow(withContainerLayout(block, NoApartado, moved.layout), moved.flow))
    IN  IF anchorsHome THEN block
        ELSE To(IF slot.kind = "block-boundary"
                THEN moveContentColumnToBlockFlowBoundary(layout, flow, column, slot.at, slot.place = "after", drawn)
                ELSE Beside(moveContentLayout(layout, layoutMoveFor(layout, column, slot))))

moveWithinBlock(block, item, slot, drawn) ==
    MovedInBlock(block, resolveContentLayout(block.held[NoApartado]), ShownFlow(block), item, slot, drawn)

transferPlacementFor(slot) ==
    [anchor |-> slot.at,
     type |-> CASE slot.kind = "column" -> IF slot.place = "right" THEN "after-column" ELSE "before-column"
                [] slot.kind = "row" -> IF slot.place = "above" THEN "new-row-before" ELSE "new-row-after"
                [] OTHER -> "new-row"]

\* Out of what holds it, and its column out of the layout.
Take(held, item) ==
    [WithoutItems(held, {item}) EXCEPT !.layout = extractColumnFromLayout(resolveContentLayout(held), item), !.laid = TRUE]

\* At the end of the list, and in the layout where the slot says.
Give(held, item, layout) ==
    [held EXCEPT !.concepts = IF IsConcept(item) THEN Append(@, item) ELSE @,
                 !.tables = IF IsConcept(item) THEN @ ELSE Append(@, item),
                 !.layout = layout, !.laid = TRUE]

\* The layout it arrives at, the same one if the row is full.
Arrival(layout, column, slot) == insertColumnAtPlacement(layout, ensureUniqueColumnId(column, layout), transferPlacementFor(slot))

\* The flow with the row the arrival opens.
RowArrives(flow, layout, slot, drawn) ==
    insertContentRowIntoBlockFlowV2(flow, generateRowId(layout), flow[RowWithId(flow, slot.at)].items[1],
                                    slot.place = "after", drawn)

\* Between the block and its apartados.
moveAcrossContainers(block, from, to, item, slot, drawn) ==
    LET Placed(flow, layout) == IF slot.kind = "block-boundary" THEN RowArrives(flow, layout, slot, drawn) ELSE flow
        Left(flow, moved) ==
            IF from # NoApartado THEN flow ELSE removeContentRowsFromBlockFlowV2(flow, RowIdsOf(moved.held[from].layout))
        Across(working, layout, arrived) ==
            LET Moved(moved) == WithFlow(moved, Left(Placed(resolveBlockFlowV2(working), layout), moved))
            IN  Moved([working EXCEPT !.held[from] = Take(@, item), !.held[to] = Give(@, item, arrived)])
        Between(source, layout, arrived) ==
            IF arrived = layout THEN block
            ELSE Across(withContainerLayout(withContainerLayout(block, from, source), to, layout), layout, arrived)
        Over(source, layout) == Between(source, layout, Arrival(layout, ColumnOfItem(source, item), slot))
    IN  Over(resolveContentLayout(block.held[from]), resolveContentLayout(block.held[to]))

applyContentDrop(block, from, to, item, slot, drawn) ==
    IF from # to THEN moveAcrossContainers(block, from, to, item, slot, drawn)
    ELSE IF from = NoApartado THEN moveWithinBlock(block, item, slot, drawn)
    ELSE moveWithinApartado(block, from, item, slot)

\* The flow of a block its own item left, if it stores one.
handleBlockFlowCleanup(block, from) ==
    IF from # NoApartado \/ ~block.flowed THEN block
    ELSE WithFlow(block, removeContentRowsFromBlockFlowV2(block.flow, RowIdsOf(block.held[from].layout)))

\* To a container of another block; an empty block has no flow to place it in.
MovedAcrossBlocks(s, d, layout, arrived, drawn) ==
    LET destination == [s[d.to[1]] EXCEPT !.held[d.to[2]] = Give(@, d.item, arrived)]
        source == [s[d.from[1]] EXCEPT !.held[d.from[2]] = Take(@, d.item)]
    IN  IF arrived = layout THEN s
        ELSE [s EXCEPT ![d.from[1]] = handleBlockFlowCleanup(source, d.from[2]),
                       ![d.to[1]] = IF d.slot.kind = "block-boundary"
                                    THEN WithFlow(destination, RowArrives(ShownFlow(s[d.to[1]]), layout, d.slot, drawn))
                                    ELSE destination]

moveContentItemAcrossBlocks(s, d, drawn) ==
    LET Over(layout) == MovedAcrossBlocks(s, d, layout, Arrival(layout, ColumnOfItem(LayoutOf(s, d.from), d.item), d.slot), drawn)
    IN  Over(LayoutOf(s, d.to))

applyContentDropToBlocks(s, d, drawn) ==
    IF d.from[1] = d.to[1]
    THEN [s EXCEPT ![d.to[1]] = applyContentDrop(@, d.from[2], d.to[2], d.item, d.slot, drawn)]
    ELSE moveContentItemAcrossBlocks(s, d, drawn)

-----------------------------------------------------------------------------
(* Content and apartados added, removed, copied and sent elsewhere *)

Keeps(container, layout) == [container EXCEPT !.layout = layout, !.laid = TRUE]

\* Both the layout and the flow of a block, stored.
ensureBlockContentIntegrity(block) ==
    LET Stored(next) ==
            IF block.flowed \/ next.held[NoApartado].layout # << >> THEN WithFlow(next, resolveBlockFlowV2(next)) ELSE next
    IN  Stored(Resolved(block))

\* The same after its content or its apartados changed.
withReconciledBlock(block) ==
    LET Stored(next, flow) == [next EXCEPT !.flow = flow, !.flowed = block.flowed \/ flow # << >>]
        Over(next) == Stored(next, resolveBlockFlowV2(next))
    IN  Over(Resolved(block))

\* A block after its own content changed, or one of its apartados.
mapContainer(s, c, held) ==
    LET Next(block) == IF c[2] = NoApartado THEN withReconciledBlock(block) ELSE block
    IN  [s EXCEPT ![c[1]] = Next([@ EXCEPT !.held[c[2]] = held])]

withAddedApartadoContent(held, added) == Keeps(held, contentLayoutWithOwnRowFor(held, added))

\* The row of what is added goes after the flow the block showed before it.
withAddedBlockContent(block, added) ==
    LET Next(held, flow) ==
            LET next == [block EXCEPT !.held[NoApartado] = held]
            IN  ensureBlockContentIntegrity(IF flow = << >> THEN next ELSE WithFlow(next, flow))
        With(held) ==
            Next(held, resolveBlockFlowV2(withContainerLayout(block, NoApartado, Front(held.layout))))
    IN  With(withAddedApartadoContent(block.held[NoApartado], added))

addConcept(s, c, added) ==
    LET held == [HeldBy(s, c) EXCEPT !.concepts = Append(@, added)]
    IN  [s EXCEPT ![c[1]] =
            IF c[2] = NoApartado THEN withAddedBlockContent([@ EXCEPT !.held[NoApartado] = held], added)
            ELSE [@ EXCEPT !.held[c[2]] = withAddedApartadoContent(held, added)]]

removeConcepts(s, c, chosen) ==
    LET held == WithoutItems(HeldBy(s, c), chosen)
    IN  [s EXCEPT ![c[1]] =
            IF c[2] = NoApartado THEN ensureBlockContentIntegrity([@ EXCEPT !.held[NoApartado] = held])
            ELSE [@ EXCEPT !.held[c[2]] = Keeps(held, resolveContentLayout(held))]]

\* The copy after its original, in the list and in the row.
withDuplicatedConcepts(held, concept, copy) ==
    LET layout == resolveContentLayout(held)
        Beside(column) == IF column.item = concept THEN <<column, [id |-> <<-4, copy>>, item |-> copy]>> ELSE <<column>>
        Doubled(columns) == FlattenSeq([j \in DOMAIN columns |-> Beside(columns[j])])
    IN  Keeps([held EXCEPT !.concepts = FlattenSeq([i \in DOMAIN @ |-> IF @[i] = concept THEN <<concept, copy>> ELSE <<@[i]>>])],
              [i \in DOMAIN layout |-> [layout[i] EXCEPT !.columns = Doubled(@)]])

duplicateConcepts(s, c, concept, copy) ==
    LET Next(block) == IF c[2] = NoApartado THEN ensureBlockContentIntegrity(block) ELSE block
    IN  [s EXCEPT ![c[1]] = Next([@ EXCEPT !.held[c[2]] = withDuplicatedConcepts(@, concept, copy)])]

\* "They keep their order and the rows they share", after what the other holds.
moveConceptsTo(s, from, chosen, to, drawn) ==
    LET Chosen(column) == column.item \in chosen
        Rows(layout) ==
            SelectSeq([i \in DOMAIN layout |-> SelectSeq(layout[i].columns, Chosen)], LAMBDA row : row # << >>)
        Moving(columns) == [i \in DOMAIN columns |-> columns[i].item]
        Given(held, rows) == Keeps([held EXCEPT !.concepts = @ \o Moving(FlattenSeq(rows))],
                                   appendRows(resolveContentLayout(held), rows, drawn))
        Sent(left, rows) == mapContainer(left, to, Given(HeldBy(left, to), rows))
        Left(layout) == mapContainer(s, from, Keeps(WithoutItems(HeldBy(s, from), chosen),
                                                    Keeping(layout, LAMBDA column : ~Chosen(column))))
        From(layout) == Sent(Left(layout), Rows(layout))
    IN  From(LayoutOf(s, from))

EmptyHeld == [concepts |-> << >>, tables |-> << >>, layout |-> << >>, laid |-> FALSE]

Holding(block, a, held) == [x \in DOMAIN block.held \cup {a} |-> IF x = a THEN held ELSE block.held[x]]
NotHolding(block, a) ==
    [block EXCEPT !.apartados = SelectSeq(@, LAMBDA x : x # a), !.held = [x \in DOMAIN @ \ {a} |-> @[x]]]

addApartado(block, a) == [block EXCEPT !.apartados = Append(@, a), !.held = Holding(block, a, EmptyHeld)]

deleteApartado(block, a) ==
    LET next == NotHolding(block, a) IN IF block.flowed THEN WithFlow(next, resolveBlockFlowV2(next)) ELSE next

removeApartado(block, a) == withReconciledBlock(NotHolding(block, a))

\* After another apartado, in a row of its own, or at the end of the block.
insertApartado(block, a, held, after, drawn) ==
    LET index == PlaceIn(block.apartados, after)
        next == [block EXCEPT !.apartados = InsertAt(@, IF index = 0 THEN Len(@) + 1 ELSE index + 1, a),
                              !.held = Holding(block, a, held)]
        alone == [id |-> drawn, items |-> <<ApartadoItem(a)>>]
        Placed(flow, row) == IF row = 0 THEN next ELSE WithFlow(next, InsertAt(flow, row + 1, alone))
        Over(flow) == withReconciledBlock(Placed(flow, RowOfItem(flow, ApartadoItem(after))))
    IN  Over(resolveBlockFlowV2(block))

\* New numbers for all it holds.
copyApartado(held, renewed) ==
    LET Copied(items) == [i \in DOMAIN items |-> renewed[items[i]]]
        copy == [held EXCEPT
            !.concepts = Copied(@), !.tables = Copied(@),
            !.layout = [i \in DOMAIN @ |-> [@[i] EXCEPT
                !.columns = [j \in DOMAIN @ |-> [@[j] EXCEPT !.item = renewed[@]]]]]]
    IN  Keeps(copy, resolveContentLayout(copy))

\* With its ids, to the end of another block.
moveApartadoTo(s, from, a, to) ==
    [s EXCEPT ![from] = removeApartado(@, a),
              ![to] = insertApartado(@, a, s[from].held[a], NoApartado, << >>)]

-----------------------------------------------------------------------------
(* Apartados dragged in their block *)

\* Beside a row of the flow, or at a side of an apartado that is alone; with
\* the keyboard, onto an apartado.
ApartadoSlots(flow, a) ==
    LET Alone(row) == Len(row.items) = 1 /\ row.items[1].apartado \notin {NoApartado, a}
    IN  {Slot("row", flow[i].id, place, "open") : i \in DOMAIN flow, place \in {"before", "after"}}
        \cup {Slot("apartado", <<flow[i].items[1].apartado>>, place, "open") :
                i \in {x \in DOMAIN flow : Alone(flow[x])}, place \in {"left", "right"}}
        \cup {Slot("onto", <<item.apartado>>, "auto", "open") :
                item \in {x \in FlowItems(flow) : x.apartado \notin {NoApartado, a}}}

ApartadoSlotsOf(block, a) == ApartadoSlots(ShownFlow(block), a)

\* Onto one of its own row: to its other side; of another row: past that row.
Dragged(flow, a, slot, drawn) ==
    LET source == RowOfItem(flow, ApartadoItem(a))
        target == RowOfItem(flow, ApartadoItem(slot.at[1]))
        first == flow[source].items[1] = ApartadoItem(a)
        ToRow(id, after) == moveApartadoToRow(flow, a, id, after, drawn)
        Beside(after) == moveApartadoBeside(flow, a, slot.at[1], after)
    IN  CASE slot.kind = "row" -> ToRow(slot.at, slot.place = "after")
          [] slot.kind = "apartado" -> Beside(slot.place = "right")
          [] OTHER -> IF source = target THEN Beside(first) ELSE ToRow(flow[target].id, source < target)

Reflowed(block, flow, moved) == IF moved = flow THEN block ELSE WithFlow(block, moved)

handleApartadoDragEnd(block, a, slot, drawn) ==
    LET Over(flow) == Reflowed(block, flow, Dragged(flow, a, slot, drawn)) IN Over(ShownFlow(block))

\* With the arrows, on the flow of the block as it is stored.
moveOneStep(block, a, down, drawn) ==
    LET Over(flow) == Reflowed(block, flow, moveBlockFlowV2ApartadoOneStep(flow, a, down, drawn))
    IN  Over(resolveBlockFlowV2(block))

-----------------------------------------------------------------------------
(* The edits *)

\* Numbers drawn in the edit under way.
Drawn == <<-3, arranged + 1>>
DrawnId == Drawn \o <<0, 0>>
DrawnItem(k) == 100 * (arranged + 1) + k

Arrange(next) ==
    /\ arranged < MaxArranging
    /\ next # section
    /\ section' = next
    /\ arranged' = arranged + 1

Drop == \E d \in Drops(section) : Arrange(applyContentDropToBlocks(section, d, DrawnId))

DragApartado ==
    \E b \in Blocks : \E a \in ToSet(section[b].apartados) : \E slot \in ApartadoSlotsOf(section[b], a) :
        Arrange([section EXCEPT ![b] = handleApartadoDragEnd(@, a, slot, DrawnId)])

StepApartado ==
    \E b \in Blocks : \E a \in ToSet(section[b].apartados), down \in BOOLEAN :
        Arrange([section EXCEPT ![b] = moveOneStep(@, a, down, DrawnId)])

AddConcept == \E c \in Containers(section) : Arrange(addConcept(section, c, DrawnItem(0)))

\* One concept or two at a time.
ChosenOf(c) == {{x, y} : x, y \in ToSet(HeldBy(section, c).concepts)}

RemoveConcepts == \E c \in Containers(section) : \E chosen \in ChosenOf(c) : Arrange(removeConcepts(section, c, chosen))

DuplicateConcept ==
    \E c \in Containers(section) : \E concept \in ToSet(HeldBy(section, c).concepts) :
        Arrange(duplicateConcepts(section, c, concept, DrawnItem(0)))

\* To another container: of the same block, or of another that may be changed.
MaySend(from, to) == from # to /\ (from[1] = to[1] \/ {from[1], to[1]} \cap Locked = {})

MoveConceptsTo ==
    \E from, to \in Containers(section) : \E chosen \in ChosenOf(from) :
        /\ MaySend(from, to)
        /\ Arrange(moveConceptsTo(section, from, chosen, to, Drawn))

AddApartado == \E b \in Blocks : Arrange([section EXCEPT ![b] = addApartado(@, DrawnItem(0))])

RemoveApartado ==
    \E b \in Blocks : \E a \in ToSet(section[b].apartados) : Arrange([section EXCEPT ![b] = deleteApartado(@, a)])

\* Each item after its place in what it copies.
Renewing(held) ==
    [item \in ToSet(ContentOf(held)) |->
        LET k == PlaceIn(ContentOf(held), item) IN IF IsConcept(item) THEN DrawnItem(k) ELSE -DrawnItem(k)]

CopyOf(block, a) == copyApartado(block.held[a], Renewing(block.held[a]))

DuplicateApartado ==
    \E b \in Blocks \ Locked : \E a \in ToSet(section[b].apartados) :
        Arrange([section EXCEPT ![b] = insertApartado(@, DrawnItem(0), CopyOf(@, a), a, DrawnId)])

MoveApartadoTo ==
    \E from, to \in Blocks \ Locked : \E a \in ToSet(section[from].apartados) :
        /\ from # to
        /\ ToSet(section[from].held[a].tables) \cap Pinned = {}
        /\ Arrange(moveApartadoTo(section, from, a, to))

ArrangementInit == section \in Arrangements /\ arranged = 0

ArrangementNext ==
    \/ Drop
    \/ DragApartado
    \/ StepApartado
    \/ AddConcept
    \/ RemoveConcepts
    \/ DuplicateConcept
    \/ MoveConceptsTo
    \/ AddApartado
    \/ RemoveApartado
    \/ DuplicateApartado
    \/ MoveApartadoTo

ArrangementSpec == ArrangementInit /\ [][ArrangementNext]_arrangementVars

-----------------------------------------------------------------------------
(* Properties *)

\* What is shown of a container is all it holds, each item once, at most three
\* to a row, under ids of their own; and a block shows each of its rows and of
\* its apartados once, an apartado with at most one other.
ArrangementTypeOK ==
    /\ arranged \in 0..MaxArranging
    /\ \A c \in Containers(section) :
        LET layout == LayoutOf(section, c)
            shown == UNION {{i} \X DOMAIN layout[i].columns : i \in DOMAIN layout}
        IN  /\ ItemsOf(layout) = ToSet(ContentOf(HeldBy(section, c)))
            /\ Cardinality(shown) = Len(ContentOf(HeldBy(section, c)))
            /\ Cardinality(ColumnIdsOf(layout)) = Cardinality(shown)
            /\ Cardinality(RowIdsOf(layout)) = Len(layout)
            /\ \A i \in DOMAIN layout : Len(layout[i].columns) \in 1..CONTENT_LAYOUT_V2_MAX_COLUMNS_PER_ROW
    /\ \A b \in Blocks :
        LET flow == ShownFlow(section[b])
            rows == {RowItem(id) : id \in RowIdsOf(LayoutOf(section, <<b, NoApartado>>))}
            Apartados(row) == {x \in ToSet(row.items) : x.apartado # NoApartado}
        IN  /\ FlowItems(flow) = rows \cup {ApartadoItem(a) : a \in ToSet(section[b].apartados)}
            /\ Cardinality(FlowItems(flow)) = Cardinality(UNION {{i} \X DOMAIN flow[i].items : i \in DOMAIN flow})
            /\ \A i \in DOMAIN flow : Len(flow[i].items) = 1 \/ (Len(flow[i].items) = 2 /\ Apartados(flow[i]) = ToSet(flow[i].items))

\* A container as the user sees it: rows of items, and for a block its rows of
\* apartados among them.
Row(apartados, items) == [apartados |-> apartados, items |-> items]

RowsShown(layout, flow, c) ==
    LET Spelled(row) == [j \in DOMAIN row.columns |-> row.columns[j].item]
        Shown(row) == IF row.items[1].apartado = NoApartado
                      THEN Row(<< >>, Spelled(layout[findRowIndex(layout, row.items[1].row)]))
                      ELSE Row([j \in DOMAIN row.items |-> row.items[j].apartado], << >>)
    IN  IF c[2] = NoApartado THEN [i \in DOMAIN flow |-> Shown(flow[i])]
        ELSE [i \in DOMAIN layout |-> Row(<< >>, Spelled(layout[i]))]

RowsOf(s, c) == RowsShown(LayoutOf(s, c), ShownFlow(s[c[1]]), c)

RowShowing(rows, item) == FirstOf({i \in DOMAIN rows : item \in ToSet(rows[i].items)})
RowOfApartado(rows, a) == FirstOf({i \in DOMAIN rows : a \in ToSet(rows[i].apartados)})

\* The rows without some items, and without some apartados.
Without(rows, items) ==
    SelectSeq([i \in DOMAIN rows |-> [rows[i] EXCEPT !.items = SelectSeq(@, LAMBDA x : x \notin items)]],
              LAMBDA row : row # Row(<< >>, << >>))
NotShowing(rows, a) ==
    SelectSeq([i \in DOMAIN rows |-> [rows[i] EXCEPT !.apartados = SelectSeq(@, LAMBDA x : x # a)]],
              LAMBDA row : row # Row(<< >>, << >>))

\* Where the slot is drawn: a mark between two rows or two columns, which the
\* item takes.
Mark == 0

MarkedBeside(rows, row, anchor, d) ==
    LET Place(item) == PlaceIn(rows[row].items, item)
        after == IF d.slot.place = "auto" THEN Place(d.item) \in 1..Place(anchor) - 1 ELSE d.slot.place = "right"
    IN  [rows EXCEPT ![row].items = InsertAt(@, IF after THEN Place(anchor) + 1 ELSE Place(anchor), Mark)]

MarkedAt(rows, at, d) ==
    InsertAt(rows, IF d.slot.place \in {"above", "before"} THEN at ELSE at + 1, Row(<< >>, <<Mark>>))

MarkedIn(rows, layout, flow, d) ==
    LET anchor == ColumnOf(layout, d.slot.at).item
    IN  CASE d.slot.kind = "column" ->
                MarkedBeside(rows, RowShowing(rows, anchor), anchor, d)
          [] d.slot.kind = "row" -> MarkedAt(rows, findRowIndex(layout, d.slot.at), d)
          [] d.slot.kind = "block-boundary" -> MarkedAt(rows, RowWithId(flow, d.slot.at), d)
          [] OTHER -> MarkedAt(rows, Len(rows), d)

\* The rows with the item at the mark: as they were if that makes a row of more
\* than fit.
TakingTheMark(rows, marked, item) ==
    IF \E i \in DOMAIN marked : Len(marked[i].items) > CONTENT_LAYOUT_V2_MAX_COLUMNS_PER_ROW THEN rows
    ELSE [i \in DOMAIN marked |->
            [marked[i] EXCEPT !.items = [j \in DOMAIN @ |-> IF @[j] = Mark THEN item ELSE @[j]]]]

ToldOf(rows, layout, flow, d) == TakingTheMark(rows, Without(MarkedIn(rows, layout, flow, d), {d.item}), d.item)

Told(s, d) == ToldOf(RowsOf(s, d.to), LayoutOf(s, d.to), ShownFlow(s[d.to[1]]), d)

\* The slot above the first row of an apartado, of an item that shares that row.
AboveItsOwn(s, d) ==
    /\ d.slot.place = "above"
    /\ d.from = d.to
    /\ d.item \in ToSet(RowsOf(s, d.to)[1].items)

\* A drop takes the item to the slot it was let go at and moves nothing else in
\* the section: an open slot is another place than its own, one at
\* home changes nothing, and a full row takes no more.
DropAsTold(d, next, told, stays) ==
    /\ d.slot.state = "noop" => stays
    /\ \A c \in Containers(section) :
        RowsOf(next, c) = IF c = d.to THEN told
                          ELSE Without(RowsOf(section, c), IF stays THEN {} ELSE {d.item})

DropsAsTold ==
    LET AsTold(d, told) ==
            DropAsTold(d, applyContentDropToBlocks(section, d, DrawnId), told, told = RowsOf(section, d.to))
    IN  \A d \in Drops(section) : AboveItsOwn(section, d) \/ AsTold(d, Told(section, d))

\* What some containers show after an edit, and every other one as before.
Becomes(next, told) ==
    \A c \in (Containers(section) \cap Containers(next)) \cup DOMAIN told :
        RowsOf(next, c) = IF c \in DOMAIN told THEN told[c] ELSE RowsOf(section, c)

\* Where an apartado of a block is let go: between two rows, or at a side of
\* another one.
ApartadoTold(rows, a, slot, flow) ==
    LET source == RowOfApartado(rows, a)
        at == IF slot.kind = "row" THEN RowWithId(flow, slot.at) ELSE RowOfItem(flow, ApartadoItem(slot.at[1]))
        after == IF slot.place = "auto" THEN source < at \/ (source = at /\ rows[at].apartados[1] = a) ELSE slot.place \in {"right", "after"}
        side == IF after THEN Len(rows[at].apartados) + 1 ELSE 1
        marked == IF slot.kind = "apartado" \/ (slot.kind = "onto" /\ source = at)
                  THEN [rows EXCEPT ![at].apartados = InsertAt(@, side, Mark)]
                  ELSE InsertAt(rows, IF after THEN at + 1 ELSE at, Row(<<Mark>>, << >>))
        left == NotShowing(marked, a)
    IN  [i \in DOMAIN left |-> [left[i] EXCEPT !.apartados = [j \in DOMAIN @ |-> IF @[j] = Mark THEN a ELSE @[j]]]]

\* The drags of apartados, each with what it shows and what it should.
ApartadoDrags ==
    UNION {{[block |-> b, apartado |-> a, slot |-> slot] : slot \in ApartadoSlotsOf(section[b], a)}
           : <<b, a>> \in {c \in Containers(section) : c[2] # NoApartado}}

DragAsTold(drag) ==
    LET home == <<drag.block, NoApartado>>
        Over(flow) == ApartadoTold(RowsOf(section, home), drag.apartado, drag.slot, flow)
    IN  Becomes([section EXCEPT ![drag.block] = handleApartadoDragEnd(@, drag.apartado, drag.slot, DrawnId)],
                home :> Over(ShownFlow(section[drag.block])))

\* From a row of its own, down past a row that is not the next one.
PastARow(drag) ==
    LET Target(flow) == IF drag.slot.kind = "row" THEN RowWithId(flow, drag.slot.at)
                        ELSE RowOfItem(flow, ApartadoItem(drag.slot.at[1]))
        Past(flow, source) == Len(flow[source].items) = 1 /\ Target(flow) > source + 1
        From(flow) == Past(flow, RowOfItem(flow, ApartadoItem(drag.apartado)))
    IN  drag.slot.kind # "apartado" /\ From(ShownFlow(section[drag.block]))

\* "BEFORE/AFTER a structural row (content or apartado)": an apartado is shown
\* where it was let go.
ApartadosLandAsTold == \A drag \in ApartadoDrags : DragAsTold(drag)

\* An arrow takes an apartado out of its pair, or past the row next to its own.
StepTold(rows, a, down) ==
    LET source == RowOfApartado(rows, a)
        beside == IF down THEN source + 1 ELSE source - 1
        place == IF Len(rows[source].apartados) = 2 THEN (IF down THEN source + 1 ELSE source)
                 ELSE IF beside \in DOMAIN rows THEN beside ELSE source
    IN  InsertAt(NotShowing(rows, a), place, Row(<<a>>, << >>))

StepsCrossOneRow ==
    \A b \in Blocks : \A a \in ToSet(section[b].apartados), down \in BOOLEAN :
        LET home == <<b, NoApartado>>
        IN  Becomes([section EXCEPT ![b] = moveOneStep(@, a, down, DrawnId)],
                    home :> StepTold(RowsOf(section, home), a, down))

\* A block that stores a flow and not the layout whose rows it orders: those
\* are made, and numbered, anew when an item goes.
FlowOfNoLayout(block, c) == c[2] = NoApartado /\ block.flowed /\ ~block.held[NoApartado].laid

\* What is added is alone in a row at the end, what is removed leaves the rest
\* as it was, and a copy is beside its original when the row has a place.
AddedAlone ==
    \A c \in Containers(section) :
        Becomes(addConcept(section, c, DrawnItem(0)),
                c :> Append(RowsOf(section, c), Row(<< >>, <<DrawnItem(0)>>)))

RemovedOnly ==
    \A c \in Containers(section) : \A chosen \in ChosenOf(c) :
        \/ FlowOfNoLayout(section[c[1]], c)
        \/ Becomes(removeConcepts(section, c, chosen), c :> Without(RowsOf(section, c), chosen))

CopiedBeside ==
    LET CopyTold(c, concept, rows, row) ==
            LET place == PlaceIn(rows[row].items, concept)
            IN  Len(rows[row].items) < CONTENT_LAYOUT_V2_MAX_COLUMNS_PER_ROW =>
                Becomes(duplicateConcepts(section, c, concept, DrawnItem(0)),
                        c :> [rows EXCEPT ![row].items = InsertAt(@, place + 1, DrawnItem(0))])
        Of(c, concept, rows) == CopyTold(c, concept, rows, RowShowing(rows, concept))
    IN  \A c \in Containers(section) : \A concept \in ToSet(HeldBy(section, c).concepts) :
            Of(c, concept, RowsOf(section, c))

\* Concepts sent elsewhere are in the rows they shared, after the content that
\* was there.
SentTogether ==
    LET Content(rows) == SelectSeq(rows, LAMBDA row : row.apartados = << >>)
        Others(rows) == SelectSeq(rows, LAMBDA row : row.apartados # << >>)
        Rest(rows, chosen) == UNION {ToSet(rows[i].items) : i \in DOMAIN rows} \ chosen
        Received(sent, rows, after) ==
            /\ IsPrefix(Content(rows), Content(after))
            /\ ToSet(Content(after)) = ToSet(Content(rows) \o Content(sent))
            /\ Others(after) = Others(rows)
        AsTold(from, chosen, to, rows, next) ==
            /\ Becomes(next, (from :> Without(rows, chosen)) @@ (to :> RowsOf(next, to)))
            /\ Received(Without(rows, Rest(rows, chosen)), RowsOf(section, to), RowsOf(next, to))
    IN  \A from, to \in Containers(section) : \A chosen \in ChosenOf(from) :
            MaySend(from, to) =>
                AsTold(from, chosen, to, RowsOf(section, from), moveConceptsTo(section, from, chosen, to, Drawn))

\* An apartado goes whole: at the end of the other block, and a copy after its
\* original, with rows like its own.
ApartadosGoWhole ==
    LET home(b) == <<b, NoApartado>>
        Sizes(rows) == [i \in DOMAIN rows |-> Len(rows[i].items)]
        Deleted(from, a, rows) ==
            Becomes([section EXCEPT ![from] = deleteApartado(@, a)], home(from) :> NotShowing(rows, a))
        Doubled(from, a, rows, next) ==
            /\ Becomes(next, home(from) :> InsertAt(rows, RowOfApartado(rows, a) + 1, Row(<<DrawnItem(0)>>, << >>)))
            /\ Sizes(RowsOf(next, <<from, DrawnItem(0)>>)) = Sizes(RowsOf(section, <<from, a>>))
        Moved(from, a, rows, to) ==
            Becomes(moveApartadoTo(section, from, a, to),
                    (home(from) :> NotShowing(rows, a))
                    @@ (home(to) :> Append(RowsOf(section, home(to)), Row(<<a>>, << >>)))
                    @@ (<<to, a>> :> RowsOf(section, <<from, a>>)))
        Whole(from, a, rows) ==
            /\ Deleted(from, a, rows)
            /\ Doubled(from, a, rows,
                       [section EXCEPT ![from] = insertApartado(@, DrawnItem(0), CopyOf(@, a), a, DrawnId)])
            /\ \A to \in Blocks \ {from} : Moved(from, a, rows, to)
    IN  \A from \in Blocks : \A a \in ToSet(section[from].apartados) : Whole(from, a, RowsOf(section, home(from)))

DragsAsTold == \A drag \in ApartadoDrags : PastARow(drag) \/ DragAsTold(drag)

\* Every edit does what it says and moves nothing else, from whatever the edits
\* before it left stored: the drops and the drags where they were let go.
EditsLandAsTold ==
    /\ DropsAsTold
    /\ DragsAsTold
    /\ StepsCrossOneRow
    /\ AddedAlone
    /\ RemovedOnly
    /\ CopiedBeside
    /\ SentTogether
    /\ ApartadosGoWhole
=============================================================================
