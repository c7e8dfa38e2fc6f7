--------------------------- MODULE MCCalculation ---------------------------
(* Small instances of CalculationChain: everything captured or nothing, one  *)
(* capture that can be computed and one that cannot, and a version whose     *)
(* conclusion two saves left behind.                                         *)
EXTENDS CalculationChain

LOCAL INSTANCE TLC

CONSTANTS blank, full, p1, p2, k1, k2

MCTwoPanels == {p1, p2}
MCOnePanel == {p1}
\* Who saves what is all that tells the panels apart.
MCPanels == Permutations(MCTwoPanels)
MCCaptures == {blank, full}
MCComplete == {full}
MCComparables == {k1, k2}
MCExclusions == {{}, {"costos", "mercado-rentas"}}
\* A market of sales and one of rents, among the four.
MCMarkets == {"TERRENO_VENTA", "INMUEBLE_RENTA"}
MCLines == {NoValue, "mercado-rentas"}
\* What the conclusion and the construction types have beneath them.
MCTraced == {"construcciones", "resumen"}
MCAllLines == SummarySources \cup {NoValue}

\* What each table holds in a valuation of real estate and in one of machinery.
RealEstate(c) == [r \in Tables |-> IF r = "maquinaria" THEN NoValue ELSE c]
Equipment == [r \in Tables |-> IF r \in {"maquinaria", "precision"} THEN full ELSE NoValue]

\* The comparables of one market, numbered, or none.
OffersIn(m) == [q \in Comparables |-> [capture |-> full, market |-> m, value |-> IF q = k1 THEN 1 ELSE 2]]
NoOffers == [q \in Comparables |-> [capture |-> NoValue, market |-> "TERRENO_VENTA", value |-> 1]]

MCCalculationInit ==
    /\ \/ /\ overlapped = FALSE
          /\ \/ \E m \in MCMarkets : rows = Stored(RealEstate(full), OffersIn(m), {}, NoValue)
             \/ \E line \in Lines : rows = Stored(RealEstate(full), NoOffers, {}, line)
             \/ rows = Stored(Equipment, NoOffers, {}, NoValue)
       \/ /\ overlapped = TRUE
          /\ \E r \in {"TERRENO_VENTA", "resumen"} :
                rows = [Stored(RealEstate(full), OffersIn("TERRENO_VENTA"), {}, NoValue) EXCEPT ![r].value = blank]
    /\ CalculationInit

MCCalculationSpec == MCCalculationInit /\ [][CalculationNext]_calculationVars
=============================================================================
