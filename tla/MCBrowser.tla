------------------------------ MODULE MCBrowser ------------------------------
(* Small instances of what is done from a browser: a tab of the editor, the   *)
(* arrangement of a section in it, and the purchase of packages, with one     *)
(* request at a time for the organization's own session and somebody else's,  *)
(* or two that meet on its own.  They share no row, so a behaviour is of one  *)
(* of them and the others are at rest.                                        *)
EXTENDS MCPackagePurchases, EditorSession, MCSections

CONSTANTS j1, j2, y1, phone, typed, untitled, Editing, Arranging, Buying, Racing

\* A text as the save writes it, what the user typed for it and one without
\* title.
MCTexts == {phone, typed, untitled}
MCUntitled == {untitled}
MCFormatted == [t \in MCTexts |-> IF t = typed THEN phone ELSE t]
MCSaves == {j1, j2}
MCSyncs == {y1}

VARIABLE at     \* who the behaviour is of

Purchasing == at \in {Buying, Racing}

MCInit ==
    /\ at \in {Editing, Arranging, Buying, Racing}
    /\ Init /\ enforced
    /\ EditorInit /\ (at # Editing => document = [text |-> phone, value |-> None])
    /\ MCArrangementInit /\ (at # Arranging => section = MCPlain)

\* ArrangementNext, action by action.
Arranges(Edits) == at = Arranging /\ Edits /\ UNCHANGED <<editorVars, vars, at>>

Buys(Requests) == Next /\ Requests /\ UNCHANGED <<editorVars, arrangementVars, at>>

MCNext ==
    \/ at = Editing /\ EditorNext /\ UNCHANGED <<arrangementVars, vars, at>>
    \/ Arranges(Drop) \/ Arranges(DragApartado) \/ Arranges(StepApartado)
    \/ Arranges(AddConcept) \/ Arranges(RemoveConcepts) \/ Arranges(DuplicateConcept) \/ Arranges(MoveConceptsTo)
    \/ Arranges(AddApartado) \/ Arranges(RemoveApartado) \/ Arranges(DuplicateApartado) \/ Arranges(MoveApartadoTo)
    \/ at = Buying /\ Buys(step'[t2] = "idle")
    \/ at = Racing /\ Buys(session'[foreign] = "none")

MCSpec == MCInit /\ [][MCNext]_<<vars, editorVars, arrangementVars, at>> /\ EditorFairness /\ Fairness

\* The types of the three.
BrowserTypeOK ==
    /\ at = Editing => EditorTypeOK
    /\ at = Arranging => ArrangementTypeOK
    /\ Purchasing => TypeOK

\* Every edit of the section does what it says (content-drop.ts:386-402,
\* use-block-mutations.ts:60-330).
SectionEditsLandAsTold == at = Arranging => EditsLandAsTold

\* With one request at a time a paid session is credited in the end
\* (billing-webhook.service.ts:58-110); two that meet may lose it, which is
\* AckedIsHandled's.
PurchaseIsCredited == at = Buying => PaidIsCredited
=============================================================================
