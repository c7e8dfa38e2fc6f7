---------------------------- MODULE CreditLedger ----------------------------
(***************************************************************************)
(* The ledger of prepaid credits of one organization                       *)
(* (features/billing/credits.service.ts): an append-only table of          *)
(* movements whose sum is the balance, written only by transactions that   *)
(* hold the organization's advisory lock.                                  *)
(*                                                                         *)
(* A transaction asks for one movement, waits for the lock, reads the      *)
(* ledger and the organization's switch, decides, and commits.  Whatever   *)
(* it reads is a READ COMMITTED read of committed rows; the lock lasts     *)
(* until the end of the transaction, so that a commit or a rollback is     *)
(* also the release.                                                       *)
(*                                                                         *)
(* The unique indexes of migration 040 are not modelled as a check of the  *)
(* insert: UniqueIndexesNeverFire shows that no insert would break them.   *)
(***************************************************************************)
EXTENDS Integers, Sequences

CONSTANTS
    Tx,             \* concurrent transactions that write the ledger
    NoTx,           \* nobody holds the advisory lock
    Valuations,     \* valuations that may be concluded
    References,     \* Checkout Sessions that may be credited
    NoKey,          \* IdAvaluo and SReferenciaExterna are both NULL
    CreditsOf,      \* credits each Checkout Session sold
    Adjustments,    \* credits of a manual adjustment, of either sign
    MaxMovements    \* bound: rows of the ledger

ASSUME NoTxAssumption == NoTx \notin Tx
ASSUME NoKeyAssumption == NoKey \notin Valuations \cup References
ASSUME KeysAssumption == Valuations \cap References = {}
ASSUME CreditsAssumption == CreditsOf \in [References -> Nat \ {0}]
ASSUME AdjustmentsAssumption == Adjustments \subseteq Int \ {0}
ASSUME BoundAssumption == MaxMovements \in Nat

VARIABLES
    ledger,     \* the committed rows of MovimientoCreditos, in order
    enforced,   \* Organizacion.BCobroPorAvaluo
    lock,       \* the transaction that holds the advisory lock, or NoTx
    pc,         \* what each transaction does next
    intent,     \* the movement each transaction asked for
    seen        \* what each transaction read under the lock

vars == <<ledger, enforced, lock, pc, intent, seen>>

-----------------------------------------------------------------------------
(* Movements *)

Consumption(v) == [STipo |-> "CONSUMO", ICreditos |-> -1, key |-> v]

Purchase(r) == [STipo |-> "COMPRA", ICreditos |-> CreditsOf[r], key |-> r]

Adjustment(n) == [STipo |-> "AJUSTE", ICreditos |-> n, key |-> NoKey]

\* The movements the services ask for; isValidMovement lets no other through.
Movements == {Consumption(v) : v \in Valuations}
             \cup {Purchase(r) : r \in References}
             \cup {Adjustment(n) : n \in Adjustments}

\* The sum of ICreditos over the organization's rows.
getCreditBalance(rows) ==
    LET sum[n \in 0..Len(rows)] ==
            IF n = 0 THEN 0 ELSE sum[n - 1] + rows[n].ICreditos
    IN  sum[Len(rows)]

\* The row a consumption looks up by valuation, a purchase by reference.
Recorded(rows, m) ==
    /\ m.STipo # "AJUSTE"
    /\ \E i \in 1..Len(rows) : rows[i].STipo = m.STipo /\ rows[i].key = m.key

NoMovement == [STipo |-> "none", ICreditos |-> 0, key |-> NoKey]

NothingSeen == [existing |-> FALSE, balance |-> 0, enforced |-> FALSE]

-----------------------------------------------------------------------------
(* What a transaction does with what it read *)

\* Mutants of the rule: a conclusion charged again after a reopening, and an
\* overdraft of one let through.
ChargeEveryConclusion(s) ==
    IF s.enforced /\ s.balance <= 0 THEN "block" ELSE "consume"

BlockBelowZeroOnly(s) ==
    CASE s.existing -> "skip"
      [] ~s.existing /\ s.enforced /\ s.balance < 0 -> "block"
      [] OTHER -> "consume"

\* The rule of credit-rules.ts for a conclusion.
concludeCreditDecision(s) ==
    CASE s.existing -> "skip"
      [] ~s.existing /\ s.enforced /\ s.balance <= 0 -> "block"
      [] OTHER -> "consume"

\* The movement is inserted: a conclusion that consumes, a payment seen for
\* the first time, any adjustment.
Inserts(m, s) ==
    CASE m.STipo = "CONSUMO" -> concludeCreditDecision(s) = "consume"
      [] m.STipo = "COMPRA" -> ~s.existing
      [] OTHER -> TRUE

-----------------------------------------------------------------------------
Init ==
    /\ ledger = << >>
    /\ enforced \in BOOLEAN
    /\ lock = NoTx
    /\ pc = [t \in Tx |-> "idle"]
    /\ intent = [t \in Tx |-> NoMovement]
    /\ seen = [t \in Tx |-> NothingSeen]

\* Mutant: an adjustment of zero credits that isValidMovement should refuse.
BeginUnchecked(t, m) ==
    /\ pc[t] = "idle"
    /\ Len(ledger) < MaxMovements
    /\ pc' = [pc EXCEPT ![t] = "waiting"]
    /\ intent' = [intent EXCEPT ![t] = IF m.STipo = "AJUSTE" THEN Adjustment(0) ELSE m]
    /\ UNCHANGED <<ledger, enforced, lock, seen>>

\* A conclusion, the success page, a webhook or the operator's script starts.
Begin(t, m) ==
    /\ pc[t] = "idle"
    /\ Len(ledger) < MaxMovements
    /\ pc' = [pc EXCEPT ![t] = "waiting"]
    /\ intent' = [intent EXCEPT ![t] = m]
    /\ UNCHANGED <<ledger, enforced, lock, seen>>

\* pg_advisory_xact_lock: waits while another transaction has it.
lockCreditLedger(t) ==
    /\ pc[t] = "waiting"
    /\ lock = NoTx
    /\ lock' = t
    /\ pc' = [pc EXCEPT ![t] = "locked"]
    /\ UNCHANGED <<ledger, enforced, intent, seen>>

\* The reads that follow the lock.
ReadLedger(t) ==
    /\ pc[t] = "locked"
    /\ seen' = [seen EXCEPT ![t] =
                   [existing |-> Recorded(ledger, intent[t]),
                    balance  |-> getCreditBalance(ledger),
                    enforced |-> enforced]]
    /\ pc' = [pc EXCEPT ![t] = "decided"]
    /\ UNCHANGED <<ledger, enforced, lock, intent>>

\* The insert, if there is one, and the commit that also frees the lock.  A
\* blocked conclusion throws and rolls back, having written nothing.
CommitLedger(t) ==
    /\ pc[t] = "decided"
    /\ ledger' = IF Inserts(intent[t], seen[t]) THEN Append(ledger, intent[t]) ELSE ledger
    /\ lock' = NoTx
    /\ pc' = [pc EXCEPT ![t] = "idle"]
    /\ seen' = [seen EXCEPT ![t] = NothingSeen]
    /\ UNCHANGED <<enforced, intent>>

\* Mutant: a lock of the session, which a rollback does not free.
RollbackKeepingLock(t) ==
    /\ pc[t] # "idle"
    /\ pc' = [pc EXCEPT ![t] = "idle"]
    /\ seen' = [seen EXCEPT ![t] = NothingSeen]
    /\ UNCHANGED <<ledger, enforced, lock, intent>>

\* The transaction times out, fails or loses its connection at any point.
Rollback(t) ==
    /\ pc[t] # "idle"
    /\ pc' = [pc EXCEPT ![t] = "idle"]
    /\ lock' = IF lock = t THEN NoTx ELSE lock
    /\ seen' = [seen EXCEPT ![t] = NothingSeen]
    /\ UNCHANGED <<ledger, enforced, intent>>

\* One UPDATE of the organization, outside the ledger lock.
setCreditEnforcement(on) ==
    /\ enforced # on
    /\ enforced' = on
    /\ UNCHANGED <<ledger, lock, pc, intent, seen>>

Next ==
    \/ \E t \in Tx, m \in Movements : Begin(t, m)
    \/ \E t \in Tx : lockCreditLedger(t)
    \/ \E t \in Tx : ReadLedger(t)
    \/ \E t \in Tx : CommitLedger(t)
    \/ \E t \in Tx : Rollback(t)
    \/ \E on \in BOOLEAN : setCreditEnforcement(on)

Spec == Init /\ [][Next]_vars

-----------------------------------------------------------------------------
(* Properties *)

Sight == [existing : BOOLEAN, balance : Int, enforced : BOOLEAN]

\* Every variable has the shape the rows and the locals of the services have.
TypeOK ==
    /\ ledger \in Seq(Movements)
    /\ enforced \in BOOLEAN
    /\ lock \in Tx \cup {NoTx}
    /\ pc \in [Tx -> {"idle", "waiting", "locked", "decided"}]
    /\ intent \in [Tx -> Movements \cup {NoMovement}]
    /\ seen \in [Tx -> Sight]

\* The transaction between its lock and its commit is the holder of the lock,
\* and there is one at most ("one ledger writer per organization at a time").
OneWriter == \A t \in Tx : pc[t] \in {"locked", "decided"} <=> lock = t

\* What a transaction read is still what the ledger says when it decides and
\* inserts: no movement slips in between the read and the commit.
DecisionsAreCurrent ==
    \A t \in Tx : pc[t] = "decided" =>
        /\ seen[t].existing = Recorded(ledger, intent[t])
        /\ seen[t].balance = getCreditBalance(ledger)

\* A valuation consumes one credit in its life and a payment is credited once,
\* whatever conclusions, reopenings, pages and webhooks arrive: the two unique
\* indexes of migration 040 never have a row to refuse, and the branch of
\* creditPurchase that answers a P2002 is never taken.
UniqueIndexesNeverFire ==
    \A i, j \in 1..Len(ledger) :
        (i # j /\ ledger[i].STipo = ledger[j].STipo /\ ledger[i].STipo # "AJUSTE")
            => ledger[i].key # ledger[j].key

\* A conclusion whose transaction found the charge switched on never takes the
\* balance below zero: another conclusion, purchase or adjustment in flight
\* cannot spend the same last credit.
EnforcedNeverOverdraws ==
    [][\A t \in Tx :
        (CommitLedger(t) /\ ledger' # ledger /\ intent[t].STipo = "CONSUMO" /\ seen[t].enforced)
            => getCreditBalance(ledger') >= 0]_vars

-----------------------------------------------------------------------------
(* The ledger implements an account that charges each valuation and credits *)
(* each payment once (PrepaidCredits).                                       *)

KeysOf(type) == {ledger[i].key : i \in {n \in 1..Len(ledger) : ledger[n].STipo = type}}

Account == INSTANCE PrepaidCredits WITH
    charged <- KeysOf("CONSUMO"),
    paid <- KeysOf("COMPRA"),
    balance <- getCreditBalance(ledger)

\* Each commit is one operation of the account, or none.
ImplementsAccount == Account!Spec
=============================================================================
