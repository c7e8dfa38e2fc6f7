----------------------------- MODULE MCWorkspace -----------------------------
(* Small instances of what is done to valuations: the workflow of two of      *)
(* them, with one request at a time and a purchase; the calculations of a     *)
(* version, with two panels saving at once; the formulas of its document; and *)
(* the columns of one of its tables.  They are related by what they assume of *)
(* each other, not by rows, so a behaviour is of one of them and the others   *)
(* are at rest.                                                               *)
EXTENDS MCValuationLifecycle, MCCalculation, MCFormulas, DocumentTable

CONSTANTS Concluding, Calculating, Computing, Arranging

\* A homologation with a column of each zone, and a table of two columns.
MCZone(z, least, columns) == [id |-> z, minColumns |-> least, columnIds |-> columns]

MCHomologation ==
    [columns |-> <<1, 2, 3>>, cells |-> {1, 2, 3}, hidden |-> {}, preset |-> TRUE, grouped |-> {2},
     zones |-> <<MCZone(1, 0, <<1>>), MCZone(2, 1, <<2>>), MCZone(3, 0, <<3>>)>>]

MCFreeTable ==
    [columns |-> <<1, 2>>, cells |-> {1, 2}, hidden |-> {}, preset |-> FALSE, grouped |-> {}, zones |-> << >>]

\* Formulas that read one number, for the behaviours that are not theirs.
Resting == [c \in Cells |-> [name |-> "add", left |-> one, right |-> f1]]

\* The appraiser's own table has a column inserted or one hidden at a time.
FewColumns == table.preset \/ inserted + Cardinality(table.hidden) <= 1

VARIABLE at     \* who the behaviour is of

CalculationAtRest ==
    /\ CalculationRest /\ overlapped = FALSE
    /\ rows = Stored(RealEstate(NoValue), NoOffers, {}, NoValue)

WorkspaceInit ==
    /\ at \in {Concluding, Calculating, Computing, Arranging}
    /\ Init /\ (at # Concluding => enforced /\ avaluo = [a \in Valuations |-> Registered])
    /\ IF at = Calculating THEN MCCalculationInit ELSE CalculationAtRest
    /\ FormulaInit /\ (at # Computing => world = Resting)
    /\ TableInit /\ (at # Arranging => table = FreeTable)

WorkspaceNext ==
    \/ at = Concluding /\ Next /\ UNCHANGED <<calculationVars, formulaVars, tableVars, at>>
    \/ at = Calculating /\ CalculationNext /\ UNCHANGED <<vars, formulaVars, tableVars, at>>
    \/ at = Computing /\ FormulaNext /\ UNCHANGED <<vars, calculationVars, tableVars, at>>
    \/ at = Arranging /\ TableNext /\ FewColumns' /\ UNCHANGED <<vars, calculationVars, formulaVars, at>>

WorkspaceSpec == WorkspaceInit /\ [][WorkspaceNext]_<<vars, calculationVars, formulaVars, tableVars, at>>

\* The types of the components; of the workflow, the runs of two requests.
WorkspaceTypeOK == CalculationTypeOK /\ FormulaTypeOK /\ TableTypeOK
=============================================================================
