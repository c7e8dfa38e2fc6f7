------------------------ MODULE EditorSession_proofs ------------------------
(***************************************************************************)
(* Proofs about a tab of the editor, for any number of saves, calculations *)
(* and edits and any limit of the history: what it shows as saved is       *)
(* stored, nobody leaves an edit behind unasked, and the document prints   *)
(* the concluded value.                                                    *)
(***************************************************************************)
EXTENDS EditorSession, TLAPS

-----------------------------------------------------------------------------
(* The invariant *)

Away == {"dashboard", "dictamen", "concluded"}

Places == Away \cup {"editor"}

Statuses == {"idle", "dirty", "saving", "saved", "error"}

Saveable == {d \in Documents : d.text \notin Untitled}

Carried == {"sent", "stored", "refused", "given up"}

Carrying == [state : Carried, document : Saveable, next : Places]

SaveRow == {[state |-> "unused"], Served} \cup Carrying

SyncRow == {[state |-> "unused"], Served, [state |-> "asked"]} \cup [state : {"read"}, value : Values]

\* Every variable of the tab has its shape.
Shapes ==
    /\ document \in Documents /\ saved \in Documents /\ stored \in Documents
    /\ past \in Seq(Documents) /\ future \in Seq(Documents)
    /\ Len(past) + Len(future) <= EDITOR_HISTORY_LIMIT
    /\ saveStatus \in Statuses /\ sessionExpired \in BOOLEAN
    /\ page \in Places \cup {"given up"}
    /\ saves \in [SaveRequests -> SaveRow]
    /\ syncs \in [Syncs -> SyncRow]
    /\ concluded \in Values

\* No saves overlapped and no answer was lost.
InTurn == slips \cap {"overlapping saves", "answer lost"} = {}

\* One save is on its way at a time, and the server keeps what was saved until
\* it serves it.
OneSave ==
    /\ \A k \in SaveRequests : saves[k].state # "given up"
    /\ \A j, k \in SaveRequests : InFlight(j) /\ InFlight(k) => j = k
    /\ \A k \in SaveRequests : saves[k].state = "stored" => stored = saves[k].document
    /\ (\A k \in SaveRequests : saves[k].state # "stored") => stored = saved

\* What is shown as saved is what was saved, and what is shown as being saved
\* is on its way.
StatusTells ==
    /\ saveStatus \in {"idle", "saved"} => document = saved
    /\ saveStatus = "saving" => \E k \in SaveRequests : InFlight(k)

\* Left with nothing on its way, the document is stored.
LeftAtRest ==
    page \in Away /\ slips \cap {"overlapping saves", "answer lost", "left while saving", "edited meanwhile"} = {}
        => stored = document /\ \A k \in SaveRequests : ~InFlight(k)

\* The value concluded last is printed, or the only request on its way brings it.
ConclusionArrives ==
    page = "editor" /\ slips \cap {"not read", "overtaken", "nothing concluded", "value undone"} = {} =>
        /\ \A y, z \in Syncs : Outstanding(y) /\ Outstanding(z) => y = z
        /\ \A y \in Syncs : syncs[y].state = "read" => syncs[y].value = concluded
        /\ (\A y \in Syncs : ~Outstanding(y)) => document.value = concluded

EditorInvariant ==
    /\ Shapes
    /\ InTurn => OneSave
    /\ StatusTells
    /\ LeftAtRest
    /\ ConclusionArrives

-----------------------------------------------------------------------------
(* The history and the saves *)

\* A history without steps keeps the limit.
LEMMA NoSteps == << >> \in Seq(Documents) /\ Len(<< >>) + Len(<< >>) <= EDITOR_HISTORY_LIMIT
BY LimitAssumption

\* The last steps of a history are steps of it, at most as many as are kept.
LEMMA LastStepsType ==
    ASSUME NEW steps \in Seq(Documents)
    PROVE  LastSteps(steps) \in Seq(Documents) /\ Len(LastSteps(steps)) <= EDITOR_HISTORY_LIMIT
<1> USE LimitAssumption
<1>1. CASE Len(steps) <= EDITOR_HISTORY_LIMIT
  BY <1>1 DEF LastSteps
<1>2. CASE Len(steps) > EDITOR_HISTORY_LIMIT
  <2> DEFINE first == Len(steps) - EDITOR_HISTORY_LIMIT + 1
  <2>1. first \in 1..Len(steps)
    BY <1>2
  <2>2. SubSeq(steps, first, Len(steps)) \in Seq(Documents)
    BY <2>1
  <2>3. Len(SubSeq(steps, first, Len(steps))) = EDITOR_HISTORY_LIMIT
    BY <2>1
  <2> QED BY <1>2, <2>2, <2>3 DEF LastSteps
<1> QED BY <1>1, <1>2

\* A step that is appended leaves the limit of the history kept.
LEMMA AppendedStep ==
    ASSUME NEW steps \in Seq(Documents), NEW d \in Documents
    PROVE  /\ LastSteps(Append(steps, d)) \in Seq(Documents)
           /\ Len(LastSteps(Append(steps, d))) <= EDITOR_HISTORY_LIMIT
           /\ Len(steps) < EDITOR_HISTORY_LIMIT => Len(LastSteps(Append(steps, d))) = Len(steps) + 1
<1>1. Append(steps, d) \in Seq(Documents) /\ Len(Append(steps, d)) = Len(steps) + 1
  OBVIOUS
<1>2. Len(steps) < EDITOR_HISTORY_LIMIT => LastSteps(Append(steps, d)) = Append(steps, d)
  BY <1>1, LimitAssumption DEF LastSteps
<1> QED BY <1>1, <1>2, LastStepsType

\* What a save sends can be saved, and keeps the value.
LEMMA SentIsSaveable ==
    ASSUME document \in Documents, document.text \notin Untitled
    PROVE  LET sent == [document EXCEPT !.text = Formatted[@]]
           IN  sent \in Saveable /\ sent.value = document.value
<1>1. [document EXCEPT !.text = Formatted[@]] = [text |-> Formatted[document.text], value |-> document.value]
  BY DEF Documents
<1> QED BY <1>1, TextsAssumption DEF Documents, Saveable

\* A save that is on its way, or that may still be served, carries a document.
LEMMA SaveCarries ==
    ASSUME Shapes, NEW k \in SaveRequests, saves[k].state \notin {"unused", "done"}
    PROVE  /\ saves[k] \in Carrying
           /\ saves[k].state \in {"sent", "stored", "refused", "given up"}
           /\ saves[k].document \in Documents /\ saves[k].document.text \notin Untitled
           /\ saves[k].next \in Places
<1>1. saves[k] \in SaveRow
  BY DEF Shapes
<1>2. saves[k] # [state |-> "unused"]
  OBVIOUS
<1> Served.state = "done"
  BY DEF Served
<1>3. saves[k] \in Carrying
  BY <1>1, <1>2 DEF SaveRow
<1> QED BY <1>3 DEF Carrying, Carried, Saveable

\* It goes from one state to the next with what it carries.
LEMMA CarriesOn ==
    ASSUME NEW save \in Carrying, NEW state \in Carried
    PROVE  LET next == [save EXCEPT !.state = state]
           IN  next \in SaveRow /\ next.state = state /\ next.document = save.document
<1>1. [save EXCEPT !.state = state] = [state |-> state, document |-> save.document, next |-> save.next]
  BY DEF Carrying
<1>2. [save EXCEPT !.state = state] \in Carrying
  BY <1>1 DEF Carrying
<1> QED BY <1>1, <1>2 DEF SaveRow

-----------------------------------------------------------------------------
(* What a step does not touch *)

\* While no save is sent or answered, one save stays one save.
LEMMA OneSaveStays ==
    ASSUME InTurn => OneSave, UNCHANGED <<saves, stored, saved>>, slips \subseteq slips'
    PROVE  (InTurn => OneSave)'
BY DEF InTurn, OneSave, InFlight

\* While the conclusion is left alone, it is in the text or still to arrive.
LEMMA ConclusionStays ==
    ASSUME ConclusionArrives, UNCHANGED <<syncs, concluded>>, slips \subseteq slips', page' = "editor" => page = "editor",
           document'.value = document.value \/ "value undone" \in slips'
    PROVE  ConclusionArrives'
BY DEF ConclusionArrives, Outstanding

\* A step of a tab that stays open leaves nobody.
LEMMA OpenLeavesNobody == ASSUME page' = "editor" PROVE LeftAtRest'
BY DEF LeftAtRest, Away

\* A tab opens on what was saved.
LEMMA InitInvariant == EditorInit => EditorInvariant
<1> SUFFICES ASSUME EditorInit PROVE EditorInvariant
  OBVIOUS
<1>1. document \in Documents /\ concluded \in Values /\ document.value = concluded
  BY TextsAssumption, LimitAssumption DEF EditorInit, Documents, Values
<1>2. Shapes
  <2>1. saves \in [SaveRequests -> SaveRow] /\ syncs \in [Syncs -> SyncRow]
    BY DEF EditorInit, SaveRow, SyncRow
  <2>2. past \in Seq(Documents) /\ future \in Seq(Documents) /\ Len(past) + Len(future) <= EDITOR_HISTORY_LIMIT
    BY LimitAssumption DEF EditorInit
  <2> QED BY <1>1, <2>1, <2>2 DEF EditorInit, Shapes, Statuses, Places
<1>3. OneSave /\ StatusTells
  BY DEF EditorInit, OneSave, StatusTells, InFlight
<1>4. LeftAtRest /\ ConclusionArrives
  BY <1>1 DEF EditorInit, LeftAtRest, Away, ConclusionArrives, Outstanding
<1> QED BY <1>2, <1>3, <1>4 DEF EditorInvariant

-----------------------------------------------------------------------------
(* The document and its history *)

\* A change of the document is one step more of a history that keeps its limit.
LEMMA UpdateShapes ==
    ASSUME Shapes, NEW next \in Documents, updateEditorState(next),
           UNCHANGED <<saved, stored, sessionExpired, page, saves, concluded>>, syncs' \in [Syncs -> SyncRow]
    PROVE  Shapes'
<1>1. past' \in Seq(Documents) /\ Len(past') <= EDITOR_HISTORY_LIMIT
  BY AppendedStep DEF Shapes, updateEditorState
<1>2. future' \in Seq(Documents) /\ Len(past') + Len(future') <= EDITOR_HISTORY_LIMIT
  BY <1>1, LimitAssumption DEF updateEditorState
<1> QED BY <1>1, <1>2 DEF Shapes, updateEditorState, Statuses

\* An edit keeps the invariant,
LEMMA EditKeeps ==
    ASSUME EditorInvariant, NEW t \in Texts, Edit(t)
    PROVE  EditorInvariant'
<1> DEFINE next == [document EXCEPT !.text = t]
<1>1. next \in Documents /\ next.value = document.value
  BY DEF EditorInvariant, Shapes, Documents
<1>2. Shapes'
  BY <1>1, UpdateShapes DEF EditorInvariant, Edit, UserStep, Shapes
<1>3. (InTurn => OneSave)'
  BY OneSaveStays DEF EditorInvariant, Edit, UserStep
<1>4. StatusTells'
  BY DEF Edit, updateEditorState, StatusTells
<1>5. LeftAtRest'
  BY OpenLeavesNobody DEF Edit, UserStep
<1>6. ConclusionArrives'
  BY <1>1, ConclusionStays DEF EditorInvariant, Edit, UserStep, updateEditorState
<1> QED BY <1>2, <1>3, <1>4, <1>5, <1>6 DEF EditorInvariant

\* Back to a document of the history.
LEMMA StepsToKeeps ==
    ASSUME EditorInvariant, UserStep, NEW to \in Documents, StepsTo(to),
           past' \in Seq(Documents), future' \in Seq(Documents), Len(past') + Len(future') <= EDITOR_HISTORY_LIMIT
    PROVE  EditorInvariant'
<1>1. Shapes'
  BY DEF EditorInvariant, Shapes, UserStep, StepsTo, Statuses
<1>2. slips \subseteq slips' /\ (document'.value = document.value \/ "value undone" \in slips')
  BY DEF StepsTo
<1>3. (InTurn => OneSave)'
  BY <1>2, OneSaveStays DEF EditorInvariant, UserStep
<1>4. StatusTells'
  BY DEF StepsTo, UserStep, StatusTells
<1>5. LeftAtRest'
  BY OpenLeavesNobody DEF UserStep
<1>6. ConclusionArrives'
  BY <1>2, ConclusionStays DEF EditorInvariant, UserStep
<1> QED BY <1>1, <1>3, <1>4, <1>5, <1>6 DEF EditorInvariant

\* undoing does,
LEMMA UndoKeeps ==
    ASSUME EditorInvariant, undoEditorChange
    PROVE  EditorInvariant'
<1> USE LimitAssumption
<1>1. /\ past \in Seq(Documents) /\ future \in Seq(Documents) /\ document \in Documents
      /\ Len(past) + Len(future) <= EDITOR_HISTORY_LIMIT /\ Len(past) > 0
  <2>1. /\ past \in Seq(Documents) /\ future \in Seq(Documents) /\ document \in Documents
        /\ Len(past) + Len(future) <= EDITOR_HISTORY_LIMIT
    BY DEF EditorInvariant, Shapes
  <2>2. past # << >>
    BY DEF undoEditorChange
  <2> QED BY <2>1, <2>2
<1>2. past[Len(past)] \in Documents
  BY <1>1
<1>3. past' \in Seq(Documents) /\ Len(past') = Len(past) - 1
  BY <1>1 DEF undoEditorChange
<1>4. <<document>> \o future \in Seq(Documents) /\ Len(<<document>> \o future) = Len(future) + 1
  BY <1>1
<1>5. future' = <<document>> \o future
  BY <1>1, <1>4 DEF undoEditorChange, FirstSteps
<1>6. past' \in Seq(Documents) /\ future' \in Seq(Documents) /\ Len(past') + Len(future') <= EDITOR_HISTORY_LIMIT
  BY <1>1, <1>3, <1>4, <1>5
<1>7. UserStep /\ StepsTo(past[Len(past)])
  BY DEF undoEditorChange
<1> QED BY <1>2, <1>6, <1>7, StepsToKeeps

\* and redoing.
LEMMA RedoKeeps ==
    ASSUME EditorInvariant, redoEditorChange
    PROVE  EditorInvariant'
<1> USE LimitAssumption
<1>1. /\ past \in Seq(Documents) /\ future \in Seq(Documents) /\ document \in Documents
      /\ Len(past) + Len(future) <= EDITOR_HISTORY_LIMIT /\ Len(future) > 0
  <2>1. /\ past \in Seq(Documents) /\ future \in Seq(Documents) /\ document \in Documents
        /\ Len(past) + Len(future) <= EDITOR_HISTORY_LIMIT
    BY DEF EditorInvariant, Shapes
  <2>2. future # << >>
    BY DEF redoEditorChange
  <2> QED BY <2>1, <2>2
<1>2. Head(future) \in Documents
  BY <1>1
<1>3. future' \in Seq(Documents) /\ Len(future') = Len(future) - 1
  BY <1>1 DEF redoEditorChange
<1>4. past' \in Seq(Documents) /\ Len(past') = Len(past) + 1
  <2>1. Len(past) < EDITOR_HISTORY_LIMIT
    BY <1>1
  <2> QED BY <1>1, <2>1, AppendedStep DEF redoEditorChange
<1> QED BY <1>1, <1>2, <1>3, <1>4, StepsToKeeps DEF redoEditorChange

-----------------------------------------------------------------------------
(* Saves *)

\* A save that is sent keeps the invariant,
LEMMA SendsKeeps ==
    ASSUME EditorInvariant, NEW k \in SaveRequests, NEW next \in Places, page = "editor", Sends(k, next)
    PROVE  EditorInvariant'
<1> DEFINE sent == [document EXCEPT !.text = Formatted[@]]
           row == [state |-> "sent", document |-> sent, next |-> next]
<1>1. sent \in Saveable /\ sent.value = document.value
  BY SentIsSaveable DEF EditorInvariant, Shapes, Sends
<1>2. document' = sent /\ saves' = [saves EXCEPT ![k] = row] /\ saveStatus' = "saving"
  BY DEF Sends
<1>3. row \in SaveRow /\ row.state = "sent"
  BY <1>1 DEF SaveRow, Carrying, Carried
<1>4. /\ UNCHANGED <<saved, past, future, sessionExpired, page, stored, concluded, syncs>>
      /\ slips \subseteq slips'
      /\ InTurn' => \A j \in SaveRequests : ~InFlight(j) /\ ~Unserved(j)
  BY DEF Sends, InTurn
<1>5. saves'[k] = row /\ \A j \in SaveRequests \ {k} : saves'[j] = saves[j]
  BY <1>2 DEF EditorInvariant, Shapes
<1> HIDE DEF row, sent
<1>6. Shapes'
  BY <1>1, <1>2, <1>3, <1>4 DEF EditorInvariant, Shapes, Statuses, Saveable
<1>7. (InTurn => OneSave)'
  <2> SUFFICES ASSUME InTurn' PROVE OneSave'
    OBVIOUS
  <2>1. OneSave
    BY <1>4 DEF EditorInvariant, InTurn
  <2>2. \A j \in SaveRequests \ {k} : saves'[j].state \notin {"sent", "stored", "refused", "given up"}
    BY <1>4, <1>5 DEF InFlight, Unserved
  <2>3. stored = saved
    BY <2>1, <1>4 DEF OneSave, InFlight
  <2> QED BY <1>3, <1>4, <1>5, <2>2, <2>3 DEF OneSave, InFlight
<1>8. StatusTells'
  BY <1>2, <1>3, <1>5 DEF StatusTells, InFlight
<1>9. LeftAtRest'
  BY <1>4, OpenLeavesNobody
<1>10. ConclusionArrives'
  BY <1>1, <1>2, <1>4, ConclusionStays DEF EditorInvariant
<1> QED BY <1>6, <1>7, <1>8, <1>9, <1>10 DEF EditorInvariant

\* one that is refused for want of a title does,
LEMMA RefuseToSaveKeeps ==
    ASSUME EditorInvariant, RefuseToSave
    PROVE  EditorInvariant'
<1>1. Shapes'
  BY DEF EditorInvariant, Shapes, RefuseToSave, Statuses
<1>2. (InTurn => OneSave)'
  BY OneSaveStays DEF EditorInvariant, RefuseToSave
<1>3. StatusTells'
  BY DEF RefuseToSave, StatusTells
<1>4. LeftAtRest'
  BY OpenLeavesNobody DEF RefuseToSave
<1>5. ConclusionArrives'
  BY ConclusionStays DEF EditorInvariant, RefuseToSave
<1> QED BY <1>1, <1>2, <1>3, <1>4, <1>5 DEF EditorInvariant

\* a new session,
LEMMA SignInAgainKeeps ==
    ASSUME EditorInvariant, SignInAgain
    PROVE  EditorInvariant'
<1>1. Shapes'
  BY DEF EditorInvariant, Shapes, SignInAgain
<1>2. (InTurn => OneSave)'
  BY OneSaveStays DEF EditorInvariant, SignInAgain
<1>3. StatusTells'
  BY DEF EditorInvariant, SignInAgain, StatusTells, InFlight
<1>4. LeftAtRest'
  BY OpenLeavesNobody DEF SignInAgain
<1>5. ConclusionArrives'
  BY ConclusionStays DEF EditorInvariant, SignInAgain
<1> QED BY <1>1, <1>2, <1>3, <1>4, <1>5 DEF EditorInvariant

\* The server serves a save that nobody gave up, or one that was given up and
\* so excuses what is stored.
LEMMA ServeKeeps ==
    ASSUME EditorInvariant, NEW k \in SaveRequests, StoreDocument(k) \/ RefuseDocument(k)
    PROVE  EditorInvariant'
<1> DEFINE row == saves'[k]
<1>1. saves[k].state \in {"sent", "given up"} /\ saves[k] \in Carrying /\ saves[k].document \in Documents
  BY SaveCarries DEF EditorInvariant, StoreDocument, RefuseDocument, Unserved
<1>2. /\ UNCHANGED <<document, saved, past, future, saveStatus, sessionExpired, page, concluded, syncs, slips>>
      /\ saves' = [saves EXCEPT ![k] = row]
      /\ \/ /\ stored' = saves[k].document
            /\ row = IF saves[k].state = "sent" THEN [saves[k] EXCEPT !.state = "stored"] ELSE Served
         \/ /\ stored' = stored
            /\ row = IF saves[k].state = "sent" THEN [saves[k] EXCEPT !.state = "refused"] ELSE Served
  BY DEF EditorInvariant, Shapes, StoreDocument, RefuseDocument
<1>3. \A j \in SaveRequests \ {k} : saves'[j] = saves[j]
  BY <1>2 DEF EditorInvariant, Shapes
<1>4. row \in SaveRow
  BY <1>1, <1>2, CarriesOn DEF SaveRow, Carried
<1>5. saves[k].state = "sent" =>
        \/ row.state = "stored" /\ row.document = saves[k].document /\ stored' = saves[k].document
        \/ row.state = "refused" /\ stored' = stored
  <2> DEFINE To(state) == [saves[k] EXCEPT !.state = state]
  <2>1. To("stored").state = "stored" /\ To("stored").document = saves[k].document /\ To("refused").state = "refused"
    BY <1>1, CarriesOn DEF Carried
  <2>2. saves[k].state = "sent" => \/ row = To("stored") /\ stored' = saves[k].document
                                   \/ row = To("refused") /\ stored' = stored
    BY <1>2
  <2> HIDE DEF To, row
  <2> QED BY <2>1, <2>2
<1>6. saves[k].state = "given up" => row.state = "done"
  <2>1. saves[k].state = "given up" => row = Served
    BY <1>2
  <2>2. Served.state = "done"
    BY DEF Served
  <2> HIDE DEF row
  <2> QED BY <2>1, <2>2
<1> HIDE DEF row
<1>7. Shapes'
  BY <1>1, <1>2, <1>4 DEF EditorInvariant, Shapes
<1>8. (InTurn => OneSave)'
  <2> SUFFICES ASSUME InTurn' PROVE OneSave'
    OBVIOUS
  <2>1. OneSave
    BY <1>2 DEF EditorInvariant, InTurn
  <2>2. saves[k].state = "sent" /\ \A j \in SaveRequests \ {k} : ~InFlight(j)
    BY <1>1, <2>1 DEF OneSave, InFlight
  <2>3. stored = saved
    BY <2>1, <2>2 DEF OneSave, InFlight
  <2> QED BY <1>2, <1>3, <1>5, <2>1, <2>2, <2>3 DEF OneSave, InFlight, row
<1>9. StatusTells'
  BY <1>1, <1>2, <1>3, <1>5 DEF EditorInvariant, StatusTells, InFlight, row
<1>10. LeftAtRest'
  <2> SUFFICES ASSUME page \in Away,
                      slips \cap {"overlapping saves", "answer lost", "left while saving", "edited meanwhile"} = {}
               PROVE  FALSE
    BY <1>2 DEF LeftAtRest
  <2> QED BY <1>1 DEF EditorInvariant, LeftAtRest, InTurn, OneSave, InFlight
<1>11. ConclusionArrives'
  BY <1>2, ConclusionStays DEF EditorInvariant
<1> QED BY <1>7, <1>8, <1>9, <1>10, <1>11 DEF EditorInvariant

\* The answer comes back to the tab, whatever was done in it meanwhile.
LEMMA AnsweredKeeps ==
    ASSUME EditorInvariant, NEW k \in SaveRequests, SaveAnswered(k)
    PROVE  EditorInvariant'
<1> DEFINE next == saves[k].next
           sent == saves[k].document
<1>1. sent \in Documents /\ next \in Places /\ saves[k].state = "stored" /\ page = "editor"
  BY SaveCarries DEF EditorInvariant, SaveAnswered
<1>2. /\ saves' = [saves EXCEPT ![k] = Served] /\ saved' = sent /\ page' = next
      /\ saveStatus' = IF sent # document THEN "dirty" ELSE "saved"
      /\ UNCHANGED <<document, stored, concluded>>
      /\ slips \subseteq slips'
      /\ next # "editor" /\ sent # document => "edited meanwhile" \in slips'
      /\ next # "editor" /\ (\E j \in SaveRequests \ {k} : InFlight(j)) => "left while saving" \in slips'
  BY DEF SaveAnswered, statusAfterSave, Opens
<1>3. /\ next = "editor" => UNCHANGED <<past, future, sessionExpired, syncs>>
      /\ next # "editor" => /\ past' = << >> /\ future' = << >> /\ sessionExpired' = FALSE
                            /\ syncs' = [y \in Syncs |-> Served]
  BY DEF SaveAnswered, Opens
<1>4. saves'[k] = Served /\ Served.state = "done" /\ \A j \in SaveRequests \ {k} : saves'[j] = saves[j]
  BY <1>2 DEF EditorInvariant, Shapes, Served
<1> HIDE DEF next, sent
<1>5. Shapes'
  <2>1. saves' \in [SaveRequests -> SaveRow]
    BY <1>2 DEF EditorInvariant, Shapes, SaveRow
  <2>2. syncs' \in [Syncs -> SyncRow]
    BY <1>3 DEF EditorInvariant, Shapes, SyncRow
  <2>3. past' \in Seq(Documents) /\ future' \in Seq(Documents) /\ Len(past') + Len(future') <= EDITOR_HISTORY_LIMIT
    <3>1. CASE next = "editor"
      BY <1>3, <3>1 DEF EditorInvariant, Shapes
    <3>2. CASE next # "editor"
      BY <1>3, <3>2, NoSteps
    <3> QED BY <3>1, <3>2
  <2> QED BY <1>1, <1>2, <1>3, <2>1, <2>2, <2>3 DEF EditorInvariant, Shapes, Statuses
<1>6. (InTurn => OneSave)'
  <2> SUFFICES ASSUME InTurn' PROVE OneSave'
    OBVIOUS
  <2>1. OneSave
    BY <1>2 DEF EditorInvariant, InTurn
  <2>2. stored = sent /\ \A j \in SaveRequests \ {k} : ~InFlight(j)
    BY <1>1, <2>1 DEF OneSave, InFlight, sent
  <2> QED BY <1>2, <1>4, <2>1, <2>2 DEF OneSave, InFlight
<1>7. StatusTells'
  BY <1>2 DEF StatusTells
<1>8. LeftAtRest'
  <2> SUFFICES ASSUME page' \in Away,
                      slips' \cap {"overlapping saves", "answer lost", "left while saving", "edited meanwhile"} = {}
               PROVE  stored' = document' /\ \A j \in SaveRequests : ~InFlight(j)'
    BY DEF LeftAtRest
  <2>1. OneSave /\ stored = sent
    BY <1>1, <1>2 DEF EditorInvariant, InTurn, OneSave, sent
  <2>2. next # "editor"
    BY <1>2 DEF Away
  <2> QED BY <1>2, <1>4, <2>1, <2>2 DEF InFlight
<1>9. ConclusionArrives'
  <2> SUFFICES ASSUME page' = "editor" PROVE ConclusionArrives'
    BY DEF ConclusionArrives
  <2> QED BY <1>1, <1>2, <1>3, ConclusionStays DEF EditorInvariant
<1> QED BY <1>5, <1>6, <1>7, <1>8, <1>9 DEF EditorInvariant

\* and a save that fails.
LEMMA FailsKeeps ==
    ASSUME EditorInvariant, NEW k \in SaveRequests, SaveFails(k)
    PROVE  EditorInvariant'
<1> DEFINE row == saves'[k]
<1>1. saves[k].state \in {"sent", "stored", "refused"} /\ saves[k] \in Carrying
  BY SaveCarries DEF EditorInvariant, SaveFails, InFlight
<1>2. /\ saves' = [saves EXCEPT ![k] = row] /\ saveStatus' = "error"
      /\ row = IF saves[k].state = "sent" THEN [saves[k] EXCEPT !.state = "given up"] ELSE Served
      /\ sessionExpired' \in {sessionExpired, TRUE}
      /\ UNCHANGED <<document, saved, past, future, page, stored, concluded, syncs>> /\ page = "editor"
      /\ slips \subseteq slips' /\ (saves[k].state # "refused" => "answer lost" \in slips')
  BY DEF EditorInvariant, Shapes, SaveFails
<1>3. row \in SaveRow
  BY <1>1, <1>2, CarriesOn DEF SaveRow, Carried
<1>4. saves[k].state = "refused" => row.state = "done"
  <2>1. saves[k].state = "refused" => row = Served
    BY <1>2
  <2>2. Served.state = "done"
    BY DEF Served
  <2> HIDE DEF row
  <2> QED BY <2>1, <2>2
<1>5. \A j \in SaveRequests \ {k} : saves'[j] = saves[j]
  BY <1>2 DEF EditorInvariant, Shapes
<1> HIDE DEF row
<1>6. Shapes'
  BY <1>2, <1>3 DEF EditorInvariant, Shapes, Statuses
<1>7. (InTurn => OneSave)'
  <2> SUFFICES ASSUME InTurn' PROVE OneSave'
    OBVIOUS
  <2>1. OneSave /\ saves[k].state = "refused"
    BY <1>2 DEF EditorInvariant, InTurn
  <2>2. stored = saved /\ \A j \in SaveRequests \ {k} : ~InFlight(j)
    BY <2>1 DEF OneSave, InFlight
  <2> QED BY <1>2, <1>4, <1>5, <2>1, <2>2 DEF OneSave, InFlight, row
<1>8. StatusTells'
  BY <1>2 DEF StatusTells
<1>9. LeftAtRest'
  BY <1>2, OpenLeavesNobody
<1>10. ConclusionArrives'
  BY <1>2, ConclusionStays DEF EditorInvariant
<1> QED BY <1>6, <1>7, <1>8, <1>9, <1>10 DEF EditorInvariant

-----------------------------------------------------------------------------
(* Leaving *)

\* A page opens, and the tab loses what it kept.
LEMMA OpensShapes ==
    ASSUME Shapes, NEW next \in Away \cup {"given up"}, Opens(next),
           UNCHANGED <<document, saved, saveStatus, saves, stored, concluded>>
    PROVE  Shapes' /\ page' = next
<1>1. next # "editor"
  BY DEF Away
<1>2. page' = next /\ past' = << >> /\ future' = << >> /\ sessionExpired' = FALSE /\ syncs' = [y \in Syncs |-> Served]
  BY <1>1 DEF Opens
<1>3. syncs' \in [Syncs -> SyncRow]
  BY <1>2 DEF SyncRow
<1>4. past' \in Seq(Documents) /\ future' \in Seq(Documents) /\ Len(past') + Len(future') <= EDITOR_HISTORY_LIMIT
  BY <1>2, NoSteps
<1> QED BY <1>2, <1>3, <1>4 DEF Shapes, Places

\* Leaving keeps the invariant,
LEMMA LeaveKeeps ==
    ASSUME EditorInvariant, NEW next \in Away, Leave(next)
    PROVE  EditorInvariant'
<1>1. /\ UNCHANGED <<document, saved, saveStatus, saves, stored, concluded>> /\ Opens(next)
      /\ saveStatus \in {"idle", "saving", "saved"} /\ slips \subseteq slips'
      /\ (\E k \in SaveRequests : InFlight(k)) => "left while saving" \in slips'
  BY DEF EditorInvariant, Shapes, Statuses, Leave, hasUnsavedChanges
<1>2. Shapes' /\ page' = next /\ page' # "editor"
  BY <1>1, OpensShapes DEF EditorInvariant, Away
<1>3. (InTurn => OneSave)'
  BY <1>1, OneSaveStays DEF EditorInvariant
<1>4. StatusTells'
  BY <1>1 DEF EditorInvariant, StatusTells, InFlight
<1>5. LeftAtRest'
  <2> SUFFICES ASSUME slips' \cap {"overlapping saves", "answer lost", "left while saving", "edited meanwhile"} = {}
               PROVE  stored' = document' /\ \A k \in SaveRequests : ~InFlight(k)'
    BY DEF LeftAtRest
  <2>1. OneSave /\ \A k \in SaveRequests : ~InFlight(k)
    BY <1>1 DEF EditorInvariant, InTurn
  <2>2. stored = saved /\ document = saved
    BY <1>1, <2>1 DEF EditorInvariant, StatusTells, OneSave, InFlight
  <2> QED BY <1>1, <2>1, <2>2 DEF InFlight
<1>6. ConclusionArrives'
  BY <1>2 DEF ConclusionArrives
<1> QED BY <1>2, <1>3, <1>4, <1>5, <1>6 DEF EditorInvariant

\* also without saving.
LEMMA GiveUpKeeps ==
    ASSUME EditorInvariant, exitWithoutSaving
    PROVE  EditorInvariant'
<1>1. UNCHANGED <<document, saved, saveStatus, saves, stored, concluded, slips>> /\ Opens("given up")
  BY DEF exitWithoutSaving
<1>2. Shapes' /\ page' = "given up"
  BY <1>1, OpensShapes DEF EditorInvariant
<1>3. (InTurn => OneSave)'
  BY <1>1, OneSaveStays DEF EditorInvariant
<1>4. StatusTells'
  BY <1>1 DEF EditorInvariant, StatusTells, InFlight
<1>5. LeftAtRest' /\ ConclusionArrives'
  BY <1>2 DEF LeftAtRest, Away, ConclusionArrives
<1> QED BY <1>2, <1>3, <1>4, <1>5 DEF EditorInvariant

-----------------------------------------------------------------------------
(* The calculations *)

\* A calculation that is saved keeps the invariant,
LEMMA CalculationKeeps ==
    ASSUME EditorInvariant, NEW y \in Syncs, NEW v \in Values, onCalculation(y, v)
    PROVE  EditorInvariant'
<1>1. /\ concluded' = v /\ syncs' = [syncs EXCEPT ![y] = [state |-> "asked"]] /\ page = "editor"
      /\ UNCHANGED <<document, saved, past, future, saveStatus, sessionExpired, page, saves, stored>>
      /\ slips \subseteq slips' /\ ((\E z \in Syncs : Outstanding(z)) => "overtaken" \in slips')
  BY DEF onCalculation
<1>2. Shapes'
  BY <1>1 DEF EditorInvariant, Shapes, SyncRow
<1>3. (InTurn => OneSave)'
  BY <1>1, OneSaveStays DEF EditorInvariant
<1>4. StatusTells'
  BY <1>1 DEF EditorInvariant, StatusTells, InFlight
<1>5. LeftAtRest'
  BY <1>1, OpenLeavesNobody
<1>6. ConclusionArrives'
  <2>1. syncs'[y].state = "asked" /\ \A z \in Syncs \ {y} : syncs'[z] = syncs[z]
    BY <1>1 DEF EditorInvariant, Shapes
  <2> QED BY <1>1, <2>1 DEF ConclusionArrives, Outstanding
<1> QED BY <1>2, <1>3, <1>4, <1>5, <1>6 DEF EditorInvariant

\* its conclusion when it arrives does,
LEMMA ReadConclusionKeeps ==
    ASSUME EditorInvariant, NEW y \in Syncs, ReadConclusion(y)
    PROVE  EditorInvariant'
<1> DEFINE row == [state |-> "read", value |-> concluded]
<1>1. /\ syncs' = [syncs EXCEPT ![y] = row] /\ syncs[y].state = "asked"
      /\ UNCHANGED <<document, saved, past, future, saveStatus, sessionExpired, page, saves, stored, concluded, slips>>
  BY DEF ReadConclusion
<1>2. row \in SyncRow /\ row.state = "read" /\ row.value = concluded
  BY DEF EditorInvariant, Shapes, SyncRow
<1>3. syncs'[y] = row /\ \A z \in Syncs \ {y} : syncs'[z] = syncs[z]
  BY <1>1 DEF EditorInvariant, Shapes
<1> HIDE DEF row
<1>4. Shapes'
  BY <1>1, <1>2 DEF EditorInvariant, Shapes
<1>5. (InTurn => OneSave)'
  BY <1>1, OneSaveStays DEF EditorInvariant
<1>6. StatusTells' /\ LeftAtRest'
  BY <1>1 DEF EditorInvariant, StatusTells, LeftAtRest, InFlight
<1>7. ConclusionArrives'
  BY <1>1, <1>2, <1>3 DEF EditorInvariant, ConclusionArrives, Outstanding
<1> QED BY <1>4, <1>5, <1>6, <1>7 DEF EditorInvariant

\* The value that was read is printed, and becomes a step of the history.
LEMMA ApplyKeeps ==
    ASSUME EditorInvariant, NEW y \in Syncs, applyConclusion(y)
    PROVE  EditorInvariant'
<1> DEFINE value == syncs[y].value
           next == [document EXCEPT !.value = syncs[y].value]
<1>1. /\ syncs' = [syncs EXCEPT ![y] = Served] /\ syncs[y].state = "read" /\ page = "editor"
      /\ UNCHANGED <<saved, sessionExpired, page, saves, stored, concluded>>
      /\ slips \subseteq slips' /\ (value = None => "nothing concluded" \in slips')
      /\ \/ value \in {document.value, None} /\ UNCHANGED <<document, past, future, saveStatus>>
         \/ value \notin {document.value, None} /\ updateEditorState(next)
  BY DEF applyConclusion
<1>2. value \in Values
  <2>1. syncs[y] \in SyncRow /\ [state |-> "unused"].state # "read" /\ Served.state # "read" /\ [state |-> "asked"].state # "read"
    BY DEF EditorInvariant, Shapes, Served
  <2> QED BY <1>1, <2>1 DEF SyncRow
<1>3. next \in Documents /\ next.value = value
  BY <1>2 DEF EditorInvariant, Shapes, Documents
<1>4. syncs' \in [Syncs -> SyncRow]
  BY <1>1 DEF EditorInvariant, Shapes, SyncRow
<1>5. Served.state = "done" /\ syncs'[y] = Served /\ \A z \in Syncs \ {y} : syncs'[z] = syncs[z]
  BY <1>1 DEF EditorInvariant, Shapes, Served
<1>6. value # None => document'.value = value
  BY <1>1, <1>3 DEF updateEditorState
<1> HIDE DEF next
<1>7. Shapes'
  <2>1. CASE UNCHANGED <<document, past, future, saveStatus>>
    BY <1>1, <1>4, <2>1 DEF EditorInvariant, Shapes
  <2>2. CASE updateEditorState(next)
    BY <1>1, <1>3, <1>4, <2>2, UpdateShapes DEF EditorInvariant
  <2> QED BY <1>1, <2>1, <2>2
<1>8. (InTurn => OneSave)'
  BY <1>1, OneSaveStays DEF EditorInvariant
<1>9. StatusTells'
  BY <1>1 DEF EditorInvariant, StatusTells, InFlight, updateEditorState
<1>10. LeftAtRest'
  BY <1>1, OpenLeavesNobody
<1>11. ConclusionArrives'
  <2> SUFFICES ASSUME slips' \cap {"not read", "overtaken", "nothing concluded", "value undone"} = {}
               PROVE  /\ \A z \in Syncs : ~Outstanding(z)'
                      /\ document'.value = concluded'
    BY DEF ConclusionArrives, Outstanding
  <2>1. \A z \in Syncs \ {y} : ~Outstanding(z)
    BY <1>1 DEF EditorInvariant, ConclusionArrives, Outstanding
  <2>2. value = concluded /\ value # None
    BY <1>1 DEF EditorInvariant, ConclusionArrives
  <2> QED BY <1>1, <1>5, <1>6, <2>1, <2>2 DEF Outstanding
<1> QED BY <1>7, <1>8, <1>9, <1>10, <1>11 DEF EditorInvariant

\* and when it does not.
LEMMA FailSyncKeeps ==
    ASSUME EditorInvariant, NEW y \in Syncs, FailSync(y)
    PROVE  EditorInvariant'
<1>1. /\ syncs' = [syncs EXCEPT ![y] = Served] /\ slips' = slips \cup {"not read"}
      /\ UNCHANGED <<document, saved, past, future, saveStatus, sessionExpired, page, saves, stored, concluded>>
  BY DEF FailSync
<1>2. Shapes'
  BY <1>1 DEF EditorInvariant, Shapes, SyncRow
<1>3. (InTurn => OneSave)'
  BY <1>1, OneSaveStays DEF EditorInvariant
<1>4. StatusTells' /\ LeftAtRest'
  BY <1>1 DEF EditorInvariant, StatusTells, LeftAtRest, InFlight
<1>5. ConclusionArrives'
  BY <1>1 DEF ConclusionArrives
<1> QED BY <1>2, <1>3, <1>4, <1>5 DEF EditorInvariant

-----------------------------------------------------------------------------
(* The theorems *)

\* Every step of the tab keeps the invariant.
LEMMA Step == EditorInvariant /\ [EditorNext]_editorVars => EditorInvariant'
<1> SUFFICES ASSUME EditorInvariant, [EditorNext]_editorVars PROVE EditorInvariant'
  OBVIOUS
<1>1. ASSUME NEW t \in Texts, Edit(t) PROVE EditorInvariant'
  BY <1>1, EditKeeps
<1>2. CASE undoEditorChange
  BY <1>2, UndoKeeps
<1>3. CASE redoEditorChange
  BY <1>3, RedoKeeps
<1>4. ASSUME NEW k \in SaveRequests, handleSave(k) \/ autosave(k) PROVE EditorInvariant'
  BY <1>4, SendsKeeps DEF handleSave, autosave, shouldAutosave, Places
<1>5. ASSUME NEW k \in SaveRequests, NEW next \in Away, SaveFirst(k, next) PROVE EditorInvariant'
  BY <1>5, SendsKeeps DEF SaveFirst, Places
<1>6. ASSUME NEW k \in SaveRequests, StoreDocument(k) \/ RefuseDocument(k) PROVE EditorInvariant'
  BY <1>6, ServeKeeps
<1>7. ASSUME NEW k \in SaveRequests, SaveAnswered(k) PROVE EditorInvariant'
  BY <1>7, AnsweredKeeps
<1>8. ASSUME NEW k \in SaveRequests, SaveFails(k) PROVE EditorInvariant'
  BY <1>8, FailsKeeps
<1>9. CASE RefuseToSave
  BY <1>9, RefuseToSaveKeeps
<1>10. CASE SignInAgain
  BY <1>10, SignInAgainKeeps
<1>11. CASE exitWithoutSaving
  BY <1>11, GiveUpKeeps
<1>12. ASSUME NEW next \in Away, Leave(next) PROVE EditorInvariant'
  BY <1>12, LeaveKeeps
<1>13. ASSUME NEW y \in Syncs, ReadConclusion(y) PROVE EditorInvariant'
  BY <1>13, ReadConclusionKeeps
<1>14. ASSUME NEW y \in Syncs, applyConclusion(y) PROVE EditorInvariant'
  BY <1>14, ApplyKeeps
<1>15. ASSUME NEW y \in Syncs, FailSync(y) PROVE EditorInvariant'
  BY <1>15, FailSyncKeeps
<1>16. ASSUME NEW y \in Syncs, NEW v \in Values, onCalculation(y, v) PROVE EditorInvariant'
  BY <1>16, CalculationKeeps
<1>17. CASE UNCHANGED editorVars
  BY <1>17 DEF editorVars, EditorInvariant, Shapes, InTurn, OneSave, StatusTells, LeftAtRest,
               ConclusionArrives, InFlight, Outstanding
<1> QED
  BY <1>1, <1>2, <1>3, <1>4, <1>5, <1>6, <1>7, <1>8, <1>9, <1>10, <1>11, <1>12, <1>13, <1>14, <1>15, <1>16, <1>17
  DEF EditorNext, Away

\* What a tab keeps: one save at a time, and what is shown of it.
THEOREM EditorKeeps == EditorSpec => []EditorInvariant
BY InitInvariant, Step, PTL DEF EditorSpec

\* The document, its history, the saves and the server's copy have their shape,
\* and the two stacks of the history never hold more steps than the limit.
THEOREM EditorTyped == EditorSpec => []EditorTypeOK
<1>1. EditorInvariant => EditorTypeOK
  <2> SUFFICES ASSUME EditorInvariant PROVE EditorTypeOK
    OBVIOUS
  <2>1. ASSUME NEW k \in SaveRequests, InFlight(k) \/ Unserved(k)
        PROVE  saves[k].document \in Documents /\ saves[k].document.text \notin Untitled
    BY <2>1, SaveCarries DEF EditorInvariant, InFlight, Unserved
  <2> QED BY <2>1 DEF EditorInvariant, Shapes, EditorTypeOK, Statuses, Places, Away
<1> QED BY <1>1, EditorKeeps, PTL

\* With no save on its way, a document shown as saved is the one the server has,
\* unless saves overlapped or an answer was lost.
THEOREM SavedAlwaysStored == EditorSpec => []SavedIsStored
<1>1. EditorInvariant => SavedIsStored
  BY DEF EditorInvariant, InTurn, OneSave, StatusTells, InFlight, SavedIsStored
<1> QED BY <1>1, EditorKeeps, PTL

\* Whatever page opened, the server has the document the tab had, unless saves
\* overlapped, an answer was lost or the tab was left or edited during a save.
THEOREM LeftAlwaysStored == EditorSpec => []LeftIsStored
<1>1. EditorInvariant => LeftIsStored
  BY DEF EditorInvariant, LeftAtRest, LeftIsStored, Away
<1> QED BY <1>1, EditorKeeps, PTL

\* Once every calculation was answered the document prints the concluded value,
\* unless an answer failed or was overtaken, there was none to print, or an undo
\* or a redo brought back an older one.
THEOREM AlwaysPrintsConclusion == EditorSpec => []PrintsConclusionUnlessUndone
<1>1. EditorInvariant => PrintsConclusionUnlessUndone
  BY DEF EditorInvariant, ConclusionArrives, PrintsConclusionUnlessUndone
<1> QED BY <1>1, EditorKeeps, PTL

=============================================================================
