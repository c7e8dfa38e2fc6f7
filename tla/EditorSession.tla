--------------------------- MODULE EditorSession ---------------------------
(***************************************************************************)
(* One tab of the valuation editor                                         *)
(* (features/valuations/components/workspace/): the document with its undo *)
(* and redo (hooks/use-editor-state.ts), its saves and what is asked       *)
(* before leaving (hooks/use-valuation-save.ts), the pages that save first *)
(* (valuation-workspace.tsx, hooks/use-valuation-lifecycle.ts) and the     *)
(* concluded value the calculations write into the document                *)
(* (hooks/use-calculation-document-sync.ts).                               *)
(*                                                                         *)
(* A document is what the user wrote and the concluded value it prints.    *)
(* An edit is one step of the history: the keystrokes a step groups, where *)
(* the editor scrolls to, the blocks of the other approaches and the       *)
(* notices are left out.  The tab has one user; a request may be answered  *)
(* late, or its answer lost, before or after the server served it.  What   *)
(* the server checks of a save is ValuationLifecycle's.                    *)
(***************************************************************************)
EXTENDS Integers, Sequences, FiniteSets

CONSTANTS
    Texts,                  \* what the user may write
    Untitled,               \* texts validateCaratula refuses
    Formatted,              \* a text as the save writes it, the phone formatted
    SaveRequests,           \* each sent once
    Syncs,                  \* requests for the conclusion, each sent once
    EDITOR_HISTORY_LIMIT,   \* steps each stack of the history keeps
    MaxEdits,               \* bound on the user's steps: edits, undos and redos
    MaxValue,               \* bound on the values the calculations conclude
    None                    \* no concluded value

ASSUME TextsAssumption ==
    /\ Untitled \subseteq Texts
    /\ Formatted \in [Texts -> Texts]
    /\ \A t \in Texts : Formatted[Formatted[t]] = Formatted[t] /\ (Formatted[t] \in Untitled <=> t \in Untitled)
ASSUME LimitAssumption == EDITOR_HISTORY_LIMIT \in Nat \ {0} /\ MaxEdits \in Nat /\ MaxValue \in Nat
ASSUME NoneAssumption == None \notin Nat

VARIABLES
    document,       \* snapshotRef: what the editor shows
    saved,          \* savedSnapshotRef: what the last answered save sent
    past, future,   \* historyRef
    saveStatus,
    sessionExpired, \* the dialog is open
    page,           \* "editor", or where the user went
    saves,          \* each save: its state, what it sent and where it goes next
    stored,         \* the document the server has
    concluded,      \* the value the server concludes
    syncs,          \* each request for it: its state and what was read
    edits,          \* the user's steps so far
    slips           \* history: what happened that may lose an edit or a value

editorVars == <<document, saved, past, future, saveStatus, sessionExpired, page, saves, stored,
                concluded, syncs, edits, slips>>

Values == 0..MaxValue \cup {None}

Documents == [text : Texts, value : Values]

Served == [state |-> "done"]

InFlight(k) == saves[k].state \in {"sent", "stored", "refused"}

Unserved(k) == saves[k].state \in {"sent", "given up"}

hasUnsavedChanges == saveStatus \in {"dirty", "error"}

LastSteps(steps) ==
    IF Len(steps) <= EDITOR_HISTORY_LIMIT THEN steps
    ELSE SubSeq(steps, Len(steps) - EDITOR_HISTORY_LIMIT + 1, Len(steps))

FirstSteps(steps) == IF Len(steps) <= EDITOR_HISTORY_LIMIT THEN steps ELSE SubSeq(steps, 1, EDITOR_HISTORY_LIMIT)

EditorInit ==
    /\ \E t \in Texts \ Untitled, v \in {0, None} :
          /\ document = [text |-> Formatted[t], value |-> v]
          /\ concluded = v
    /\ saved = document /\ stored = document
    /\ past = << >> /\ future = << >>
    /\ saveStatus = "idle" /\ sessionExpired = FALSE /\ page = "editor"
    /\ saves = [k \in SaveRequests |-> [state |-> "unused"]]
    /\ syncs = [y \in Syncs |-> [state |-> "unused"]]
    /\ edits = 0 /\ slips = {}

-----------------------------------------------------------------------------
(* The document and its history *)

\* Mutant: the history has no limit.
UpdateUnlimited(next) ==
    /\ next # document
    /\ past' = Append(past, document)
    /\ future' = << >>
    /\ document' = next
    /\ saveStatus' = "dirty"

\* A change of the document is a step of the history, and is not saved yet.
updateEditorState(next) ==
    /\ next # document
    /\ past' = LastSteps(Append(past, document))
    /\ future' = << >>
    /\ document' = next
    /\ saveStatus' = "dirty"

UserStep ==
    /\ page = "editor" /\ edits < MaxEdits
    /\ edits' = edits + 1
    /\ UNCHANGED <<saved, sessionExpired, page, saves, stored, concluded, syncs>>

Edit(t) ==
    /\ UserStep
    /\ updateEditorState([document EXCEPT !.text = t])
    /\ UNCHANGED slips

\* Undoing or redoing back to what was saved leaves nothing to save; the step
\* brings back the value that was printed then.
StepsTo(to) ==
    /\ document' = to
    /\ saveStatus' = IF to = saved THEN "saved" ELSE "dirty"
    /\ slips' = IF to.value # document.value THEN slips \cup {"value undone"} ELSE slips

undoEditorChange ==
    /\ UserStep
    /\ past # << >>
    /\ past' = SubSeq(past, 1, Len(past) - 1)
    /\ future' = FirstSteps(<<document>> \o future)
    /\ StepsTo(past[Len(past)])

redoEditorChange ==
    /\ UserStep
    /\ future # << >>
    /\ future' = Tail(future)
    /\ past' = LastSteps(Append(past, document))
    /\ StepsTo(Head(future))

-----------------------------------------------------------------------------
(* Saving *)

\* Sends the whole document, the phone formatted; next is where a save goes
\* that was made to leave.  A save that meets another may be served first.
Sends(k, next) ==
    LET sent == [document EXCEPT !.text = Formatted[@]]
    IN  /\ saves[k].state = "unused"
        /\ document.text \notin Untitled
        /\ document' = sent
        /\ saves' = [saves EXCEPT ![k] = [state |-> "sent", document |-> sent, next |-> next]]
        /\ saveStatus' = "saving"
        /\ slips' = IF \E j \in SaveRequests : InFlight(j) \/ Unserved(j) THEN slips \cup {"overlapping saves"} ELSE slips
        /\ UNCHANGED <<saved, past, future, sessionExpired, page, stored, concluded, syncs, edits>>

\* The button is disabled while a save is in flight and nothing was edited.
handleSave(k) == page = "editor" /\ saveStatus # "saving" /\ Sends(k, "editor")

\* A field without title, or an invalid one, stops the save.
RefuseToSave ==
    /\ page = "editor" /\ saveStatus \notin {"saving", "error"}
    /\ document.text \in Untitled
    /\ saveStatus' = "error"
    /\ UNCHANGED <<document, saved, past, future, sessionExpired, page, saves, stored, concluded, syncs, edits, slips>>

\* Mutant: the timer repeats what failed, and not what was edited.
AutosavesFailed == page = "editor" /\ saveStatus = "error" /\ ~sessionExpired

\* The timer, after the last edit.
shouldAutosave == page = "editor" /\ saveStatus = "dirty" /\ ~sessionExpired

autosave(k) == shouldAutosave /\ Sends(k, "editor")

\* The exit dialog, the dictamen and the calculation memory, and the conclusion
\* save what is pending first.
SaveFirst(k, next) ==
    /\ page = "editor" /\ hasUnsavedChanges /\ next \in {"dashboard", "dictamen", "concluded"}
    /\ Sends(k, next)

\* The server, with the requests in any order.
StoreDocument(k) ==
    /\ Unserved(k)
    /\ stored' = saves[k].document
    /\ saves' = [saves EXCEPT ![k] = IF @.state = "sent" THEN [@ EXCEPT !.state = "stored"] ELSE Served]
    /\ UNCHANGED <<document, saved, past, future, saveStatus, sessionExpired, page, concluded, syncs, edits, slips>>

RefuseDocument(k) ==
    /\ Unserved(k)
    /\ saves' = [saves EXCEPT ![k] = IF @.state = "sent" THEN [@ EXCEPT !.state = "refused"] ELSE Served]
    /\ UNCHANGED <<document, saved, past, future, saveStatus, sessionExpired, page, stored, concluded, syncs, edits, slips>>

\* The page opens, and what the tab kept goes with it.
Opens(next) ==
    /\ page' = next
    /\ IF next = "editor" THEN UNCHANGED <<past, future, sessionExpired, syncs>>
       ELSE /\ past' = << >> /\ future' = << >> /\ sessionExpired' = FALSE
            /\ syncs' = [y \in Syncs |-> Served]

\* Mutant: an answered save leaves nothing pending.
AlwaysSaved(sent) == "saved"

\* Edits made while the save was in flight are not in what was sent.
statusAfterSave(sent) == IF sent # document THEN "dirty" ELSE "saved"

\* The answer: the save is what was saved, and the page it was made for opens,
\* where the document is no longer edited.
SaveAnswered(k) ==
    /\ page = "editor" /\ saves[k].state = "stored"
    /\ saves' = [saves EXCEPT ![k] = Served]
    /\ saved' = saves[k].document
    /\ saveStatus' = statusAfterSave(saves[k].document)
    /\ Opens(saves[k].next)
    /\ slips' = slips \cup (IF saves[k].next # "editor" /\ saves[k].document # document THEN {"edited meanwhile"} ELSE {})
                      \cup (IF saves[k].next # "editor" /\ \E j \in SaveRequests \ {k} : InFlight(j) THEN {"left while saving"} ELSE {})
    /\ UNCHANGED <<document, stored, concluded, edits>>

\* A refusal, by a session that ended or any other reason, or an answer that
\* does not come, of a save that may be served all the same.
SaveFails(k) ==
    /\ page = "editor" /\ InFlight(k)
    /\ saves' = [saves EXCEPT ![k] = IF @.state = "sent" THEN [@ EXCEPT !.state = "given up"] ELSE Served]
    /\ saveStatus' = "error"
    /\ sessionExpired' \in IF saves[k].state = "refused" THEN {sessionExpired, TRUE} ELSE {sessionExpired}
    /\ slips' = IF saves[k].state = "refused" THEN slips ELSE slips \cup {"answer lost"}
    /\ UNCHANGED <<document, saved, past, future, page, stored, concluded, syncs, edits>>

\* The user signs in again in another tab and closes the dialog.
SignInAgain ==
    /\ page = "editor" /\ sessionExpired
    /\ sessionExpired' = FALSE
    /\ UNCHANGED <<document, saved, past, future, saveStatus, page, saves, stored, concluded, syncs, edits, slips>>

-----------------------------------------------------------------------------
(* Leaving *)

\* Mutant: nothing is asked of anybody.
LeaveUnasked(next) ==
    /\ page = "editor" /\ next \in {"dashboard", "dictamen", "concluded"}
    /\ Opens(next)
    /\ slips' = IF \E k \in SaveRequests : InFlight(k) THEN slips \cup {"left while saving"} ELSE slips
    /\ UNCHANGED <<document, saved, saveStatus, saves, stored, concluded, edits>>

\* handleExit, and closing the tab: nothing is asked of a document that is
\* saved or being saved; the other pages save what is pending, of which there
\* is nothing.
Leave(next) ==
    /\ page = "editor" /\ next \in {"dashboard", "dictamen", "concluded"}
    /\ ~hasUnsavedChanges
    /\ next = "concluded" => saveStatus # "saving"
    /\ Opens(next)
    /\ slips' = IF \E k \in SaveRequests : InFlight(k) THEN slips \cup {"left while saving"} ELSE slips
    /\ UNCHANGED <<document, saved, saveStatus, saves, stored, concluded, edits>>

\* Asked, the user leaves what is pending.
exitWithoutSaving ==
    /\ page = "editor" /\ hasUnsavedChanges
    /\ Opens("given up")
    /\ UNCHANGED <<document, saved, saveStatus, saves, stored, concluded, edits, slips>>

-----------------------------------------------------------------------------
(* The calculations *)

Outstanding(y) == syncs[y].state \in {"asked", "read"}

\* A panel's save was answered: the server concludes another value, and the
\* document asks for it.
onCalculation(y, v) ==
    /\ page = "editor"
    /\ syncs[y].state = "unused" /\ v # concluded
    /\ concluded' = v
    /\ syncs' = [syncs EXCEPT ![y] = [state |-> "asked"]]
    /\ slips' = IF \E z \in Syncs : Outstanding(z) THEN slips \cup {"overtaken"} ELSE slips
    /\ UNCHANGED <<document, saved, past, future, saveStatus, sessionExpired, page, saves, stored, edits>>

ReadConclusion(y) ==
    /\ syncs[y].state = "asked"
    /\ syncs' = [syncs EXCEPT ![y] = [state |-> "read", value |-> concluded]]
    /\ UNCHANGED <<document, saved, past, future, saveStatus, sessionExpired, page, saves, stored, concluded, edits, slips>>

\* Mutant: a value that was printed stays.
ApplyFirstConclusion(y) ==
    /\ page = "editor" /\ syncs[y].state = "read"
    /\ syncs' = [syncs EXCEPT ![y] = Served]
    /\ IF document.value # None \/ syncs[y].value = None
         THEN UNCHANGED <<document, past, future, saveStatus>>
         ELSE updateEditorState([document EXCEPT !.value = syncs[y].value])
    /\ slips' = IF syncs[y].value = None THEN slips \cup {"nothing concluded"} ELSE slips
    /\ UNCHANGED <<saved, sessionExpired, page, saves, stored, concluded, edits>>

\* The document prints the value, unless there is none to print.
applyConclusion(y) ==
    /\ page = "editor" /\ syncs[y].state = "read"
    /\ syncs' = [syncs EXCEPT ![y] = Served]
    /\ IF syncs[y].value \in {document.value, None}
         THEN UNCHANGED <<document, past, future, saveStatus>>
         ELSE updateEditorState([document EXCEPT !.value = syncs[y].value])
    /\ slips' = IF syncs[y].value = None THEN slips \cup {"nothing concluded"} ELSE slips
    /\ UNCHANGED <<saved, sessionExpired, page, saves, stored, concluded, edits>>

\* A request that fails leaves the document as it was.
FailSync(y) ==
    /\ Outstanding(y)
    /\ syncs' = [syncs EXCEPT ![y] = Served]
    /\ slips' = slips \cup {"not read"}
    /\ UNCHANGED <<document, saved, past, future, saveStatus, sessionExpired, page, saves, stored, concluded, edits>>

-----------------------------------------------------------------------------
(* The specification *)

EditorNext ==
    \/ \E t \in Texts : Edit(t)
    \/ undoEditorChange \/ redoEditorChange
    \/ \E k \in SaveRequests :
          \/ handleSave(k) \/ autosave(k) \/ StoreDocument(k) \/ RefuseDocument(k) \/ SaveAnswered(k) \/ SaveFails(k)
          \/ \E next \in {"dashboard", "dictamen", "concluded"} : SaveFirst(k, next)
    \/ RefuseToSave \/ SignInAgain \/ exitWithoutSaving
    \/ \E next \in {"dashboard", "dictamen", "concluded"} : Leave(next)
    \/ \E y \in Syncs :
          \/ ReadConclusion(y) \/ applyConclusion(y) \/ FailSync(y)
          \/ \E v \in Values : onCalculation(y, v)

\* The timer of a tab that stays open fires, and a request is served or fails.
EditorFairness ==
    /\ WF_editorVars(\E k \in SaveRequests : autosave(k))
    /\ \A k \in SaveRequests : WF_editorVars(StoreDocument(k) \/ RefuseDocument(k)) /\ WF_editorVars(SaveAnswered(k) \/ SaveFails(k))

EditorSpec == EditorInit /\ [][EditorNext]_editorVars

-----------------------------------------------------------------------------
(* Properties *)

EditorTypeOK ==
    /\ {document, saved, stored} \subseteq Documents
    /\ past \in Seq(Documents) /\ future \in Seq(Documents)
    /\ Len(past) + Len(future) <= EDITOR_HISTORY_LIMIT
    /\ saveStatus \in {"idle", "dirty", "saving", "saved", "error"} /\ sessionExpired \in BOOLEAN
    /\ page \in {"editor", "dashboard", "dictamen", "concluded", "given up"}
    /\ \A k \in SaveRequests : InFlight(k) \/ Unserved(k) =>
          saves[k].document \in Documents /\ saves[k].document.text \notin Untitled
    /\ concluded \in Values

\* The badge of pending changes goes away only when the server has the document
\* (use-valuation-save.ts:112-128, use-editor-state.ts:131-164): with no save in
\* flight, a document shown as saved is the one stored, by a save, an undo or a
\* redo, unless saves overlapped or an answer was lost.
SavedIsStored ==
    page = "editor" /\ saveStatus \in {"idle", "saved"} /\ (\A k \in SaveRequests : ~InFlight(k))
        => stored = document \/ slips \cap {"overlapping saves", "answer lost"} # {}

\* Nobody leaves an edit behind unasked: whatever page opened, the server has
\* the document the tab had, unless saves overlapped, an answer was lost, the
\* tab was left during a save (use-valuation-save.ts:61,153) or edited during
\* the save it was left with (:161-162, valuation-workspace.tsx:347-357).
LeftIsStored ==
    page \in {"dashboard", "dictamen", "concluded"}
        => stored = document
           \/ slips \cap {"overlapping saves", "answer lost", "left while saving", "edited meanwhile"} # {}

\* Once every calculation was answered the document prints the concluded value
\* (use-calculation-document-sync.ts:180-216), unless an answer failed or was
\* overtaken, there was no value to print, or an undo or a redo brought back an
\* older one.
PrintsConclusionUnlessUndone ==
    page = "editor" /\ (\A y \in Syncs : ~Outstanding(y)) /\ slips \cap {"not read", "overtaken", "nothing concluded", "value undone"} = {}
        => document.value = concluded

\* An edit is not left waiting while the tab is open: the server gets the
\* document, or the user is told that it could not be saved (the status, the
\* dialog of the session), unless it is untitled, saves overlapped, an answer
\* was lost or there is no request left to send.
PendingIsStored ==
    page = "editor" /\ stored # document
        ~> \/ stored = document \/ page # "editor" \/ saveStatus = "error" \/ sessionExpired
           \/ document.text \in Untitled \/ slips \cap {"overlapping saves", "answer lost"} # {}
           \/ \A k \in SaveRequests : saves[k].state # "unused"
=============================================================================
