----------------------------- MODULE MCSections -----------------------------
(* Small sections of a valuation: one that nobody has arranged yet, with two  *)
(* edits to make, and one after three edits, with a full row and a pair of    *)
(* apartados, with one.  The third block is the calculation's.                *)
EXTENDS BlockArrangement, TLC

MCBlocks == {1, 2, 3}
MCLocked == {3}
MCPinned == {-2}

\* Content and a block as they are before anybody arranges them.
Unlaid(concepts, tables) == [concepts |-> concepts, tables |-> tables, layout |-> << >>, laid |-> FALSE]
Unflowed(apartados, held) == [apartados |-> apartados, held |-> held, flow |-> << >>, flowed |-> FALSE]

MCPlain == <<Unflowed(<<7>>, (NoApartado :> Unlaid(<<1>>, <<-1>>)) @@ (7 :> Unlaid(<< >>, << >>))),
             Unflowed(<< >>, NoApartado :> Unlaid(<< >>, << >>)),
             Unflowed(<< >>, NoApartado :> Unlaid(<< >>, << >>))>>

\* The third concept in the row of the first two, the second apartado beside
\* the first, and the table below the two.
MCArranged ==
    LET home == <<1, NoApartado>>
        held == (NoApartado :> Unlaid(<<1, 2, 3>>, <<-1>>)) @@ (7 :> Unlaid(<<4>>, <<-2>>)) @@ (8 :> Unlaid(<< >>, << >>))
        Dropped(s, item, slot) ==
            applyContentDropToBlocks(s, [item |-> item, from |-> home, to |-> home, slot |-> slot], <<-3, 0, 0, item>>)
        Paired(s) == [s EXCEPT ![1] = handleApartadoDragEnd(@, 8, Slot("apartado", <<7>>, "right", "open"), << >>)]
        plain == <<Unflowed(<<7, 8>>, held), Unflowed(<< >>, NoApartado :> Unlaid(<<5>>, << >>)),
                   Unflowed(<< >>, NoApartado :> Unlaid(<<6>>, << >>))>>
    IN  Dropped(Paired(Dropped(plain, 3, Slot("column", <<0, 1>>, "right", "open"))),
                -1, Slot("block-boundary", apartadoStructuralId(7), "after", "open"))

MCArrangements == {MCPlain, MCArranged}
MCOnlyPlain == {MCPlain}

\* One edit of the arranged one.
MCArrangementInit ==
    \/ section = MCPlain /\ arranged = 0
    \/ section = MCArranged /\ arranged = MaxArranging - 1
=============================================================================
