------------------------- MODULE ValuationLifecycle -------------------------
(***************************************************************************)
(* The life of a valuation: saves, conclusion, reopening and deletion      *)
(* (features/valuations/services/valuation-workflow, the calculation       *)
(* services' access.ts and save-valuation.action.ts), composed with the    *)
(* credit ledger of the organization, which the conclusion charges inside  *)
(* its own transaction.                                                    *)
(*                                                                         *)
(* Every request is a READ COMMITTED transaction that reads the valuation  *)
(* first and writes it last, with nothing but row locks in between: what   *)
(* it read may be stale when it writes.  The writes of a transaction are   *)
(* one step, because they depend only on what it read and the row locks    *)
(* keep those of two transactions apart.                                   *)
(*                                                                         *)
(* A version is named by its number, which is unique for its valuation;    *)
(* its document is one value, written whole.                               *)
(***************************************************************************)
EXTENDS Integers, Sequences

CONSTANTS
    Tx, NoTx, Valuations, References, NoKey, CreditsOf, Adjustments, MaxMovements,
    Contents,       \* documents a version may hold
    Sectioned,      \* documents with visible required sections
    Signed,         \* documents whose signatures, date and adopted values allow concluding
    Blank,          \* the document a version starts with
    NoHash,         \* SHashContenido is NULL: the version is not final
    MaxVersions     \* bound: versions of a valuation

\* What CreditLedger assumes of its constants.
ASSUME LedgerAssumption ==
    /\ NoTx \notin Tx /\ NoKey \notin Valuations \cup References
    /\ Valuations \cap References = {}
    /\ CreditsOf \in [References -> Nat \ {0}]
    /\ Adjustments \subseteq Int \ {0}
    /\ MaxMovements \in Nat
ASSUME ContentsAssumption == Blank \in Contents /\ Sectioned \cup Signed \subseteq Contents
ASSUME NoHashAssumption == NoHash \notin Contents
ASSUME MaxVersionsAssumption == MaxVersions \in Nat \ {0}

VARIABLES
    ledger, enforced, lock, pc, intent, seen,   \* of the credit ledger
    avaluo,     \* the row of each valuation
    version,    \* its versions, by number
    historial,  \* its rows of EstadoAvaluoHistorial, in order
    step,       \* what each request does next
    read        \* what each request read of its valuation

ledgerVars == <<ledger, enforced, lock, pc, intent, seen>>
lifeVars == <<avaluo, version, historial, step, read>>
vars == <<ledgerVars, lifeVars>>

Ledger == INSTANCE CreditLedger

-----------------------------------------------------------------------------
(* Rows *)

Null == 0                       \* no version: IdVersionTrabajo or IdVersionFinal is NULL
Numbers == 1..MaxVersions

Estados == {"NUEVO", "EN_EDICION", "TERMINADO", "REABIERTO"}

Avaluo == [IdVersionTrabajo : Numbers \cup {Null}, IdVersionFinal : Numbers \cup {Null},
           INumeroVersionActual : Numbers, BBloqueado : BOOLEAN,
           IdEstadoAvaluo : Estados, eliminado : BOOLEAN]

\* The version table has no row of that number.
NoVersion == [exists |-> FALSE, content |-> Blank, hash |-> NoHash, IdVersionOrigen |-> Null]

\* A new row of the table.  Mutant: the document is not copied into it.
NewVersionBlank(c, origin) == [exists |-> TRUE, content |-> Blank, hash |-> NoHash, IdVersionOrigen |-> origin]

NewVersion(c, origin) == [exists |-> TRUE, content |-> c, hash |-> NoHash, IdVersionOrigen |-> origin]

\* What the creation writes into the first version: the sections of its template.
FirstVersion == NewVersion(Blank, Null)

\* A copy of all a version holds, sections, tables and approaches.
copyVersionContent(v) == v.content

Version == [exists : BOOLEAN, content : Contents, hash : Contents \cup {NoHash},
            IdVersionOrigen : Numbers \cup {Null}]

EstadoAvaluoHistorial == [IdVersionAvaluo : Numbers, IdEstadoAnterior : Estados, IdEstadoNuevo : Estados]

\* What a request keeps in its locals: the valuation, the row it read, the
\* version its write goes to and the document it read for the hash.
Locals == [a : Valuations \cup {NoKey}, row : Avaluo, target : Numbers \cup {Null}, content : Contents]

Registered == [IdVersionTrabajo |-> 1, IdVersionFinal |-> Null, INumeroVersionActual |-> 1,
               BBloqueado |-> FALSE, IdEstadoAvaluo |-> "NUEVO", eliminado |-> FALSE]

\* A valuation of before the workflow: no version until somebody saves it.
Unversioned == [Registered EXCEPT !.IdVersionTrabajo = Null]

\* The queries of the requests: active valuations only.
Found(a) == ~avaluo[a].eliminado

NothingRead == [a |-> NoKey, row |-> Registered,
                target |-> Null, content |-> Blank]

\* The row a conclusion leaves, and its mutants.
ConcludedKeepingDraft(row, v) ==
    [row EXCEPT !.IdEstadoAvaluo = "TERMINADO", !.IdVersionFinal = v, !.BBloqueado = TRUE]

Concluded(row, v) ==
    [row EXCEPT !.IdEstadoAvaluo = "TERMINADO", !.IdVersionFinal = v,
                !.IdVersionTrabajo = Null, !.BBloqueado = TRUE]

\* The row a reopening leaves.  Mutant: the number counts no further.
ReopenedSameNumber(row, number) ==
    [row EXCEPT !.IdEstadoAvaluo = "REABIERTO", !.IdVersionTrabajo = number,
                !.BBloqueado = FALSE]

Reopened(row, number) ==
    [row EXCEPT !.IdEstadoAvaluo = "REABIERTO", !.IdVersionTrabajo = number,
                !.INumeroVersionActual = number, !.BBloqueado = FALSE]

\* An entry of the history.
Entry(v, from, to) == [IdVersionAvaluo |-> v, IdEstadoAnterior |-> from, IdEstadoNuevo |-> to]

-----------------------------------------------------------------------------
(* A request as a process *)

\* A request of t has read valuation a and goes on to a step.
Reads(t, a, next, target) ==
    /\ step[t] = "idle" /\ pc[t] = "idle"
    /\ Found(a)
    /\ step' = [step EXCEPT ![t] = next]
    /\ read' = [read EXCEPT ![t] = [a |-> a, row |-> avaluo[a], target |-> target,
                    content |-> IF avaluo[a].IdVersionTrabajo = Null THEN Blank
                                ELSE version[a][avaluo[a].IdVersionTrabajo].content]]
    /\ UNCHANGED <<ledgerVars, avaluo, version, historial>>

\* A request of t ends and forgets what it read.
Ends(t) ==
    /\ step' = [step EXCEPT ![t] = "idle"]
    /\ read' = [read EXCEPT ![t] = NothingRead]

\* It ends having written nothing of the valuation: an error response.
Refused(t) == Ends(t) /\ UNCHANGED <<ledgerVars, avaluo, version, historial>>

-----------------------------------------------------------------------------
(* Saves of the document *)

\* saveValuationSections: the lock is checked, the version is looked up later.
SectionsRead(t, a) ==
    /\ ~avaluo[a].BBloqueado
    /\ Reads(t, a, "ensure", Null)

\* Mutant: the version the read routes show, final or not, and no lock check.
CalculationReadShown(t, a) ==
    LET row == avaluo[a]
        shown == IF row.IdVersionTrabajo = Null THEN row.IdVersionFinal ELSE row.IdVersionTrabajo
    IN  Reads(t, a, IF shown = Null THEN "ensure" ELSE "write", shown)

\* writableVersion, before every write of the calculation services: the
\* working version is the one read together with the lock.
CalculationRead(t, a) ==
    /\ ~avaluo[a].BBloqueado
    /\ Reads(t, a, IF avaluo[a].IdVersionTrabajo = Null THEN "ensure" ELSE "write",
             avaluo[a].IdVersionTrabajo)

\* A second read of the valuation: its working version now, or else a version
\* with its current number, whose insert fails if there is one already.
ensureWorkingVersion(t) ==
    LET a == read[t].a
        working == avaluo[a].IdVersionTrabajo
        number == avaluo[a].INumeroVersionActual
    IN  /\ step[t] = "ensure"
        /\ \/ /\ working # Null
              /\ step' = [step EXCEPT ![t] = "write"]
              /\ read' = [read EXCEPT ![t].target = working]
              /\ UNCHANGED <<ledgerVars, avaluo, version, historial>>
           \/ /\ working = Null /\ ~version[a][number].exists
              /\ step' = [step EXCEPT ![t] = "create"]
              /\ read' = [read EXCEPT ![t].target = number]
              /\ UNCHANGED <<ledgerVars, avaluo, version, historial>>
           \/ /\ working = Null /\ version[a][number].exists
              /\ Refused(t)

\* The document is written into the version and the transaction commits.
writeVersionSections(t, c) ==
    LET a == read[t].a IN
    /\ step[t] = "write"
    /\ version' = [version EXCEPT ![a][read[t].target].content = c]
    /\ Ends(t)
    /\ UNCHANGED <<ledgerVars, avaluo, historial>>

\* The same for a version the transaction creates, unless another one did.
WriteNewVersion(t, c) ==
    LET a == read[t].a
        number == read[t].target
    IN  /\ step[t] = "create"
        /\ \/ /\ ~version[a][number].exists
              /\ version' = [version EXCEPT ![a][number] = NewVersion(c, Null)]
              /\ avaluo' = [avaluo EXCEPT ![a].IdVersionTrabajo = number]
              /\ Ends(t)
              /\ UNCHANGED <<ledgerVars, historial>>
           \/ /\ version[a][number].exists
              /\ Refused(t)

-----------------------------------------------------------------------------
(* Saves of the valuation's own data *)

\* saveValuation reads the row outside the transaction that writes it.
MetadataRead(t, a) ==
    /\ ~avaluo[a].BBloqueado
    /\ Reads(t, a, "metadata", Null)

\* The first edit of a new valuation moves it to "En edición".
advanceToEditing(t) ==
    LET a == read[t].a
        row == read[t].row
    IN  /\ step[t] = "metadata"
        /\ IF row.IdEstadoAvaluo = "NUEVO" /\ row.IdVersionTrabajo # Null
           THEN /\ avaluo' = [avaluo EXCEPT ![a].IdEstadoAvaluo = "EN_EDICION"]
                /\ historial' = [historial EXCEPT ![a] =
                       Append(@, Entry(row.IdVersionTrabajo, row.IdEstadoAvaluo, "EN_EDICION"))]
           ELSE UNCHANGED <<avaluo, historial>>
        /\ Ends(t)
        /\ UNCHANGED <<ledgerVars, version>>

-----------------------------------------------------------------------------
(* Conclusion *)

\* The valuation, with its working version's sections: a locked one is
\* answered alreadyConcluded, one without a working version or without
\* required sections is refused.
ConcludeRead(t, a) ==
    /\ ~avaluo[a].BBloqueado
    /\ avaluo[a].IdVersionTrabajo # Null
    /\ version[a][avaluo[a].IdVersionTrabajo].content \in Sectioned
    /\ Reads(t, a, "check", avaluo[a].IdVersionTrabajo)

\* Later queries of the same transaction: signatures, date, adopted values.
\* Then the charge is asked for.
ConcludeCheck(t) ==
    LET a == read[t].a IN
    /\ step[t] = "check"
    /\ \/ /\ version[a][read[t].target].content \in Signed
          /\ Ledger!Begin(t, Ledger!Consumption(a))
          /\ step' = [step EXCEPT ![t] = "charge"]
          /\ UNCHANGED <<avaluo, version, historial, read>>
       \/ /\ version[a][read[t].target].content \notin Signed
          /\ Refused(t)

\* The charge was refused: the transaction aborts.  Mutant: it goes on.
ConcludesUnpaid(t) == FALSE

ChargeBlocked(t) == Ledger!concludeCreditDecision(seen[t]) = "block"

\* The version the history entry of a conclusion names.  Mutant: it is taken
\* from the row that has just lost it.
HistoryVersionCleared(v) == Null

HistoryVersion(v) == v

\* The commit of the charge.  Mutant: a consumption without the decision.
ChargeAgain(t) ==
    /\ ledger' = Append(ledger, intent[t])
    /\ lock' = NoTx
    /\ pc' = [pc EXCEPT ![t] = "idle"]
    /\ seen' = [seen EXCEPT ![t] = Ledger!NothingSeen]
    /\ UNCHANGED <<enforced, intent>>

Charge(t) == Ledger!CommitLedger(t)

\* The charge is decided: a blocked one aborts everything, any other commits
\* the movement together with the final version and the locked valuation.
concludeValuation(t) ==
    LET a == read[t].a
        v == read[t].target
    IN  /\ step[t] = "charge"
        /\ pc[t] = "decided"
        /\ Charge(t)
        /\ IF ChargeBlocked(t)
           THEN UNCHANGED <<avaluo, version, historial>>
           ELSE /\ version' = [version EXCEPT ![a][v].hash = read[t].content]
                /\ avaluo' = [avaluo EXCEPT ![a] = Concluded(@, v)]
                /\ historial' = [historial EXCEPT ![a] =
                       Append(@, Entry(HistoryVersion(v), read[t].row.IdEstadoAvaluo, "TERMINADO"))]
        /\ Ends(t)

-----------------------------------------------------------------------------
(* Reopening and deletion *)

\* A valuation with a final version and no working one may be reopened.
ReopenRead(t, a) ==
    /\ avaluo[a].IdVersionFinal # Null
    /\ avaluo[a].IdVersionTrabajo = Null
    /\ avaluo[a].INumeroVersionActual < MaxVersions
    /\ Reads(t, a, "reopen", avaluo[a].INumeroVersionActual + 1)

\* The next version starts as a copy of the final one; its insert fails if
\* another reopening has taken the number.
reopenValuation(t) ==
    LET a == read[t].a
        row == read[t].row
        number == read[t].target
    IN  /\ step[t] = "reopen"
        /\ \/ /\ ~version[a][number].exists
              /\ version' = [version EXCEPT ![a][number] =
                     NewVersion(copyVersionContent(version[a][row.IdVersionFinal]), row.IdVersionFinal)]
              /\ avaluo' = [avaluo EXCEPT ![a] = Reopened(@, number)]
              /\ historial' = [historial EXCEPT ![a] =
                     Append(@, Entry(number, row.IdEstadoAvaluo, "REABIERTO"))]
              /\ Ends(t)
              /\ UNCHANGED ledgerVars
           \/ /\ version[a][number].exists
              /\ Refused(t)

\* Neither the lock nor the requests under way stop a deletion.
softDeleteValuation(a) ==
    /\ Found(a)
    /\ avaluo' = [avaluo EXCEPT ![a].eliminado = TRUE]
    /\ UNCHANGED <<ledgerVars, version, historial, step, read>>

-----------------------------------------------------------------------------
(* The ledger's own requests and the steps both share *)

Uncharged == {Ledger!Purchase(r) : r \in References} \cup {Ledger!Adjustment(n) : n \in Adjustments}

LedgerBegin(t, m) == step[t] = "idle" /\ Ledger!Begin(t, m) /\ UNCHANGED lifeVars

LedgerLock(t) == Ledger!lockCreditLedger(t) /\ UNCHANGED lifeVars

LedgerRead(t) == Ledger!ReadLedger(t) /\ UNCHANGED lifeVars

LedgerCommit(t) == step[t] = "idle" /\ Ledger!CommitLedger(t) /\ UNCHANGED lifeVars

Enforcement(on) == Ledger!setCreditEnforcement(on) /\ UNCHANGED lifeVars

\* A request fails before its commit: a lost connection, a timeout, a deadlock.
Fail(t) ==
    \/ /\ pc[t] # "idle"
       /\ Ledger!Rollback(t)
       /\ Ends(t)
       /\ UNCHANGED <<avaluo, version, historial>>
    \/ /\ pc[t] = "idle" /\ step[t] # "idle"
       /\ Refused(t)

-----------------------------------------------------------------------------
Init ==
    /\ Ledger!Init
    /\ avaluo \in [Valuations -> {Registered, Unversioned}]
    /\ version = [a \in Valuations |-> [n \in Numbers |->
                    IF n = avaluo[a].IdVersionTrabajo THEN FirstVersion ELSE NoVersion]]
    /\ historial = [a \in Valuations |-> << >>]
    /\ step = [t \in Tx |-> "idle"]
    /\ read = [t \in Tx |-> NothingRead]

Saves ==
    \/ \E t \in Tx, a \in Valuations : SectionsRead(t, a)
    \/ \E t \in Tx, a \in Valuations : CalculationRead(t, a)
    \/ \E t \in Tx : ensureWorkingVersion(t)
    \/ \E t \in Tx, c \in Contents : writeVersionSections(t, c)
    \/ \E t \in Tx, c \in Contents : WriteNewVersion(t, c)
    \/ \E t \in Tx, a \in Valuations : MetadataRead(t, a)
    \/ \E t \in Tx : advanceToEditing(t)

Workflow ==
    \/ \E t \in Tx, a \in Valuations : ConcludeRead(t, a)
    \/ \E t \in Tx : ConcludeCheck(t)
    \/ \E t \in Tx : concludeValuation(t)
    \/ \E t \in Tx, a \in Valuations : ReopenRead(t, a)
    \/ \E t \in Tx : reopenValuation(t)
    \/ \E a \in Valuations : softDeleteValuation(a)

Billing ==
    \/ \E t \in Tx, m \in Uncharged : LedgerBegin(t, m)
    \/ \E t \in Tx : LedgerLock(t)
    \/ \E t \in Tx : LedgerRead(t)
    \/ \E t \in Tx : LedgerCommit(t)
    \/ \E on \in BOOLEAN : Enforcement(on)

Next == Saves \/ Workflow \/ Billing \/ \E t \in Tx : Fail(t)

Spec == Init /\ [][Next]_vars

\* Every request that has started is carried on by the server; the database
\* grants its lock in turn.  Nothing obliges a user to start one.  A conclusion
\* that the bound of the ledger holds back fails instead.
Fairness ==
    \A t \in Tx :
        /\ WF_vars(ensureWorkingVersion(t))
        /\ WF_vars(\E c \in Contents : writeVersionSections(t, c) \/ WriteNewVersion(t, c))
        /\ WF_vars(advanceToEditing(t))
        /\ WF_vars(ConcludeCheck(t) \/ (step[t] = "check" /\ Fail(t)))
        /\ SF_vars(LedgerLock(t))
        /\ WF_vars(LedgerRead(t))
        /\ WF_vars(concludeValuation(t) \/ LedgerCommit(t))
        /\ WF_vars(reopenValuation(t))

FairSpec == Spec /\ Fairness

-----------------------------------------------------------------------------
(* Properties that hold however the requests interleave *)

\* Every row and every local has its shape.
TypeOK ==
    /\ Ledger!TypeOK
    /\ avaluo \in [Valuations -> Avaluo]
    /\ version \in [Valuations -> [Numbers -> Version]]
    /\ historial \in [Valuations -> Seq(EstadoAvaluoHistorial)]
    /\ step \in [Tx -> {"idle", "ensure", "write", "create", "metadata", "check", "charge", "reopen"}]
    /\ read \in [Tx -> Locals]

\* A valuation is locked exactly when it has a version and none to work on, so
\* that the editor always has either a draft to write or a final to show: a
\* stale save cannot bring a draft back to a concluded valuation, nor a stale
\* conclusion leave an unlocked one without its draft.
LockedIffNoDraft ==
    \A a \in Valuations :
        avaluo[a].BBloqueado <=>
            avaluo[a].IdVersionTrabajo = Null /\ (\E n \in Numbers : version[a][n].exists)

\* The versions are numbered without gaps up to INumeroVersionActual, the draft
\* is the last of them, and each comes from an earlier version that is final:
\* two reopenings, or a save and a reopening, never take the same number.
VersionsChained ==
    \A a \in Valuations : LET row == avaluo[a] IN
        /\ row.IdVersionTrabajo \in {Null, row.INumeroVersionActual}
        /\ \A n \in Numbers :
              /\ version[a][n].exists => n <= row.INumeroVersionActual
              /\ 1 < n /\ n <= row.INumeroVersionActual =>
                    LET origin == version[a][n].IdVersionOrigen IN
                    /\ version[a][n].exists
                    /\ origin \in 1..(n - 1)
                    /\ version[a][origin].hash # NoHash

\* The credit and the final version come together: a valuation has a final
\* version exactly when its one credit was consumed, also when the charge was
\* blocked, the request died half way or two conclusions raced.
ChargedIffConcluded ==
    \A a \in Valuations :
        Ledger!Recorded(ledger, Ledger!Consumption(a)) <=> avaluo[a].IdVersionFinal # Null

\* The valuations use the ledger only as the ledger allows, so that every
\* property of CreditLedger holds of the composed system.
ImplementsLedger == Ledger!Spec

\* Every request ends, whatever the others do.
EveryRequestEnds == \A t \in Tx : step[t] # "idle" ~> step[t] = "idle"

-----------------------------------------------------------------------------
(* The contract of the workflow of one request at a time.  Of two, one that *)
(* read before a conclusion and commits after it breaks it.                 *)

\* Of two requests at work, each is on a valuation of its own.
NoneMeet ==
    \A s, t \in Tx : step[s] # "idle" /\ step[t] # "idle" /\ read[s].a = read[t].a => s = t

\* A final version holds the document whose hash it carries, and that document
\* met every condition for concluding ("la API rechaza cambios").
FinalIsSealed ==
    \A a \in Valuations, n \in Numbers : LET v == version[a][n] IN
        v.hash # NoHash => v.content = v.hash /\ v.content \in Sectioned \cap Signed

\* A concluded version is read-only: no request changes its document, neither
\* one that starts after the conclusion nor one that was under way.
ConcludedIsReadOnly ==
    [][\A a \in Valuations, n \in Numbers :
        version[a][n].hash # NoHash => version'[a][n].content = version[a][n].content]_vars

\* A locked valuation shows as concluded in the lists and the dashboard, and an
\* unlocked one does not.
EstadoFollowsLock ==
    \A a \in Valuations : avaluo[a].BBloqueado <=> avaluo[a].IdEstadoAvaluo = "TERMINADO"

\* The history tells the whole life of a valuation: each entry starts from the
\* state the one before left, and the last one leaves the present state.
HistoryIsChain ==
    \A a \in Valuations : LET h == historial[a] IN
        /\ \A i \in 1..Len(h) :
              h[i].IdEstadoAnterior = IF i = 1 THEN "NUEVO" ELSE h[i - 1].IdEstadoNuevo
        /\ avaluo[a].IdEstadoAvaluo = IF h = << >> THEN "NUEVO" ELSE h[Len(h)].IdEstadoNuevo

\* What the workflow keeps as long as its requests do not meet: sealed documents
\* with their hash, a state that follows the lock and a history without gaps,
\* through saves, conclusions, charges refused and reopenings.
WorkflowContract == FinalIsSealed /\ EstadoFollowsLock /\ HistoryIsChain

\* The abstract life of one valuation: a draft and the sealed documents.
Sealed(a) == LET finals == {n \in Numbers : version[a][n].hash # NoHash}
             IN  [n \in finals |-> version[a][n].hash]

Draft(a) == IF avaluo[a].IdVersionTrabajo = Null THEN NoHash
            ELSE version[a][avaluo[a].IdVersionTrabajo].content

Document == INSTANCE ValuationDocument WITH
    sealed <- [a \in Valuations |-> Sealed(a)],
    draft <- [a \in Valuations |-> Draft(a)],
    NoDraft <- NoHash

\* The workflow implements ValuationDocument.
ImplementsDocument == Document!Spec
=============================================================================
