-------------------------- MODULE PackagePurchases --------------------------
(***************************************************************************)
(* The purchase of a credit package (features/billing): the checkout, the  *)
(* payment at Stripe, the webhook that Stripe calls until it is answered   *)
(* with a 200 (billing-webhook.service.ts) and the success page, which     *)
(* credit the ledger from the session as Stripe has it                     *)
(* (credit-packages.service.ts).  The ledger is CreditLedger, whole.       *)
(*                                                                         *)
(* A process is one request to the server, of Stripe or of the customer's  *)
(* browser.  Each query is a step, and a process may fail between any two  *)
(* of them; only creditPurchase runs in a transaction.  What the handler   *)
(* refuses before it looks at a record (no configuration, a signature that *)
(* does not verify, an event of the other business) changes nothing and is *)
(* left out.                                                               *)
(***************************************************************************)
EXTENDS Integers, Sequences

CONSTANTS
    Tx, NoTx, Valuations, References, NoKey, CreditsOf, Adjustments, MaxMovements,
    Ours            \* sessions whose tags, customer and package are the organization's

\* What CreditLedger assumes of its constants.
ASSUME LedgerAssumption ==
    /\ NoTx \notin Tx /\ NoKey \notin Valuations \cup References
    /\ Valuations \cap References = {}
    /\ CreditsOf \in [References -> Nat \ {0}]
    /\ Adjustments \subseteq Int \ {0}
    /\ MaxMovements \in Nat
ASSUME OursAssumption == Ours \subseteq References

VARIABLES
    ledger, enforced, lock, pc, intent, seen,   \* of the credit ledger
    session,    \* the state of each Checkout Session at Stripe
    sent,       \* events Stripe has to deliver
    acked,      \* events answered with a 200: Stripe does not insist on them
    record,     \* EventoWebhookPago: no row, a row, or a row with BProcesado
    step,       \* what each request does next
    task        \* the session each request works on, and what brought it

ledgerVars == <<ledger, enforced, lock, pc, intent, seen>>
stripeVars == <<session, sent>>
vars == <<ledgerVars, stripeVars, acked, record, step, task>>

Ledger == INSTANCE CreditLedger

EventTypes == {"completed", "async_payment_succeeded"}
Events == References \X EventTypes

NoTask == [ref |-> NoKey, by |-> "nothing"]

EventOf(t) == <<task[t].ref, task[t].by>>

Credited(r) == Ledger!Recorded(ledger, Ledger!Purchase(r))

-----------------------------------------------------------------------------
(* The customer and Stripe *)

\* The session of a package; one that is not Ours was started by another
\* organization, by the other business or with tags that do not match.
startPackageCheckout(r) ==
    /\ session[r] = "none"
    /\ session' = [session EXCEPT ![r] = "open"]
    /\ UNCHANGED <<ledgerVars, sent, acked, record, step, task>>

\* The customer completes it, with a method that pays at once or one that
\* needs days.
CompleteCheckout(r, payment) ==
    /\ session[r] = "open"
    /\ session' = [session EXCEPT ![r] = payment]
    /\ sent' = sent \cup {<<r, "completed">>}
    /\ UNCHANGED <<ledgerVars, acked, record, step, task>>

DelayedPaymentSucceeds(r) ==
    /\ session[r] = "unpaid"
    /\ session' = [session EXCEPT ![r] = "paid"]
    /\ sent' = sent \cup {<<r, "async_payment_succeeded">>}
    /\ UNCHANGED <<ledgerVars, acked, record, step, task>>

-----------------------------------------------------------------------------
(* The requests *)

Starts(t, r, by, next) ==
    /\ step[t] = "idle"
    /\ step' = [step EXCEPT ![t] = next]
    /\ task' = [task EXCEPT ![t] = [ref |-> r, by |-> by]]
    /\ UNCHANGED <<ledgerVars, stripeVars, acked, record>>

Goes(t, next) == step' = [step EXCEPT ![t] = next] /\ UNCHANGED task

Ends(t) ==
    /\ step' = [step EXCEPT ![t] = "idle"]
    /\ task' = [task EXCEPT ![t] = NoTask]

\* Stripe delivers an event: for the first time, again because it had no 200,
\* or once more although it had one.
Deliver(t, e) == e \in sent /\ Starts(t, e[1], e[2], "find")

\* The customer returns to the success page, or reloads it.
OpenSuccessPage(t, r) == session[r] # "none" /\ Starts(t, r, "page", "session")

\* Mutant: an event that has a row is a duplicate, processed or not.
RecordedIsDuplicate(t) ==
    /\ step[t] = "find"
    /\ Goes(t, IF record[EventOf(t)] = "none" THEN "create" ELSE "answer")
    /\ UNCHANGED <<ledgerVars, stripeVars, acked, record>>

\* The event's row, if it is there; a processed one is a duplicate.
FindRecord(t) ==
    /\ step[t] = "find"
    /\ Goes(t, CASE record[EventOf(t)] = "none" -> "create"
                 [] record[EventOf(t)] = "received" -> "session"
                 [] record[EventOf(t)] = "processed" -> "answer")
    /\ UNCHANGED <<ledgerVars, stripeVars, acked, record>>

\* Mutant: the row is created as processed, before anything is done.
CreateProcessed(t) ==
    /\ step[t] = "create"
    /\ record' = [record EXCEPT ![EventOf(t)] = "processed"]
    /\ Goes(t, IF record[EventOf(t)] = "none" THEN "session" ELSE "answer")
    /\ UNCHANGED <<ledgerVars, stripeVars, acked>>

\* The row is created, unless another delivery did so since: then this one is
\* answered as a duplicate ("the other request owns it").
CreateRecord(t) ==
    /\ step[t] = "create"
    /\ \/ /\ record[EventOf(t)] = "none"
          /\ record' = [record EXCEPT ![EventOf(t)] = "received"]
          /\ Goes(t, "session")
       \/ /\ record[EventOf(t)] # "none"
          /\ Goes(t, "answer")
          /\ UNCHANGED record
    /\ UNCHANGED <<ledgerVars, stripeVars, acked>>

\* After the reconciliation a page ends; a webhook marks its event.
Reconciled(t) == IF task[t].by = "page" THEN Ends(t) ELSE Goes(t, "mark")

\* Mutant: a completed session is credited, paid or not.
AppliesCompleted(r) == r \in Ours /\ session[r] # "open"

\* applyPackagePurchase credits a paid session of this organization's own.
Applies(r) == r \in Ours /\ session[r] = "paid"

\* The session is read from Stripe, never from the event: one that is not
\* applied is left for a later event.
reconcilePackageCheckout(t) ==
    LET r == task[t].ref IN
    /\ step[t] = "session"
    /\ \/ /\ Applies(r)
          /\ Ledger!Begin(t, Ledger!Purchase(r))
          /\ Goes(t, "credit")
       \/ /\ ~Applies(r)
          /\ Reconciled(t)
          /\ UNCHANGED ledgerVars
    /\ UNCHANGED <<stripeVars, acked, record>>

LedgerLock(t) == Ledger!lockCreditLedger(t) /\ UNCHANGED <<stripeVars, acked, record, step, task>>

LedgerRead(t) == Ledger!ReadLedger(t) /\ UNCHANGED <<stripeVars, acked, record, step, task>>

\* creditPurchase commits: a new row, or none if the session has one.
creditPurchase(t) ==
    /\ step[t] = "credit"
    /\ Ledger!CommitLedger(t)
    /\ Reconciled(t)
    /\ UNCHANGED <<stripeVars, acked, record>>

MarkProcessed(t) ==
    /\ step[t] = "mark"
    /\ record' = [record EXCEPT ![EventOf(t)] = "processed"]
    /\ Goes(t, "answer")
    /\ UNCHANGED <<ledgerVars, stripeVars, acked>>

\* The 200 reaches Stripe.
Answer(t) ==
    /\ step[t] = "answer"
    /\ acked' = acked \cup {EventOf(t)}
    /\ Ends(t)
    /\ UNCHANGED <<ledgerVars, stripeVars, record>>

\* A query or Stripe fails, or the server stops: whatever was under way ends
\* without a 200 (a 500 after recording the attempt, or no answer at all).
Fail(t) ==
    /\ step[t] # "idle"
    /\ Ends(t)
    /\ IF pc[t] = "idle" THEN UNCHANGED ledgerVars ELSE Ledger!Rollback(t)
    /\ UNCHANGED <<stripeVars, acked, record>>

-----------------------------------------------------------------------------
Init ==
    /\ Ledger!Init
    /\ session = [r \in References |-> "none"]
    /\ sent = {}
    /\ acked = {}
    /\ record = [e \in Events |-> "none"]
    /\ step = [t \in Tx |-> "idle"]
    /\ task = [t \in Tx |-> NoTask]

Stripe ==
    \/ \E r \in References : startPackageCheckout(r)
    \/ \E r \in References, payment \in {"paid", "unpaid"} : CompleteCheckout(r, payment)
    \/ \E r \in References : DelayedPaymentSucceeds(r)

Handlers ==
    \/ \E t \in Tx, e \in Events : Deliver(t, e)
    \/ \E t \in Tx, r \in References : OpenSuccessPage(t, r)
    \/ \E t \in Tx : FindRecord(t)
    \/ \E t \in Tx : CreateRecord(t)
    \/ \E t \in Tx : reconcilePackageCheckout(t)
    \/ \E t \in Tx : LedgerLock(t)
    \/ \E t \in Tx : LedgerRead(t)
    \/ \E t \in Tx : creditPurchase(t)
    \/ \E t \in Tx : MarkProcessed(t)
    \/ \E t \in Tx : Answer(t)
    \/ \E t \in Tx : Fail(t)

Next == Stripe \/ Handlers

Spec == Init /\ [][Next]_vars

\* What the server does with a request it has.
Progress(t) ==
    \/ FindRecord(t)
    \/ CreateRecord(t)
    \/ reconcilePackageCheckout(t)
    \/ LedgerLock(t)
    \/ LedgerRead(t)
    \/ creditPurchase(t)
    \/ MarkProcessed(t)
    \/ Answer(t)

\* The server carries on what it has started, unless it fails, which it does
\* not do for ever; Stripe insists on an event until a 200.  Nothing makes the
\* customer pay or open the success page.
Fairness ==
    /\ \A t \in Tx : WF_vars(Progress(t))
    /\ <>[][\A t \in Tx : ~Fail(t)]_vars
    /\ \A e \in Events : SF_vars(e \notin acked /\ \E t \in Tx : Deliver(t, e))

FairSpec == Spec /\ Fairness

-----------------------------------------------------------------------------
(* Properties *)

\* Every row, event and local has its shape, and Stripe has answers only for what
\* it sent: a page never marks or answers an event.
TypeOK ==
    /\ Ledger!TypeOK
    /\ session \in [References -> {"none", "open", "unpaid", "paid"}]
    /\ sent \subseteq Events
    /\ acked \subseteq sent
    /\ record \in [Events -> {"none", "received", "processed"}]
    /\ step \in [Tx -> {"idle", "find", "create", "session", "credit", "mark", "answer"}]
    /\ task \in [Tx -> [ref : References \cup {NoKey}, by : EventTypes \cup {"page", "nothing"}]]

\* Only a paid session of the organization's own is credited, once, and for
\* what it sold: not one whose payment is still on its way, whatever event or
\* page asks for it, nor another organization's.
CreditsArePaidFor ==
    /\ \A i \in 1..Len(ledger) : ledger[i].key \in Ours /\ session[ledger[i].key] = "paid"
    /\ \A i, j \in 1..Len(ledger) : ledger[i].key = ledger[j].key => i = j

\* The event whose arrival finds the session paid.
DecisiveEvent(r) ==
    <<r, IF <<r, "async_payment_succeeded">> \in sent THEN "async_payment_succeeded" ELSE "completed">>

\* An event marked as processed needs no second look: the payment it announced
\* is in the ledger, also when its handler died half way or several ran at once.
ProcessedIsCredited ==
    \A r \in Ours : session[r] = "paid" /\ record[DecisiveEvent(r)] = "processed" => Credited(r)

\* "Si falla responde 500 y Stripe lo reintenta": when Stripe stops insisting on
\* an event, the event is processed or somebody is still on it.
AckedIsHandled ==
    \A e \in acked : record[e] = "processed" \/ \E t \in Tx : EventOf(t) = e

\* A paid session is credited in the end, by the webhook alone if the customer
\* never returns, and whatever fails meanwhile.
PaidIsCredited == \A r \in Ours : session[r] = "paid" ~> Credited(r)
=============================================================================
