----------------------- MODULE PackagePurchases_proofs -----------------------
(***************************************************************************)
(* Proofs about the purchase of packages, for any number of sessions,      *)
(* deliveries, reloads and failures.  The state a session has at Stripe is *)
(* read without any lock, and it does not matter: a paid session stays     *)
(* paid, and the ledger takes a session once.  What each request knows of  *)
(* its session (Knows) is therefore still so when it acts on it.           *)
(***************************************************************************)
EXTENDS PackagePurchases, TLAPS

\* The theorems of the ledger, cited for the one that is credited here.
Proved == INSTANCE CreditLedger_proofs

-----------------------------------------------------------------------------
(* The ledger inside the purchases *)

\* The two instances of the ledger are the same ledger: they start alike.
LEMMA SameInit == Ledger!Init => Proved!Init
BY DEF Ledger!Init, Proved!Init, Ledger!NoMovement, Proved!NoMovement,
       Ledger!NothingSeen, Proved!NothingSeen

\* What is a step of the one is a step of the other, operation by operation.
LEMMA SameStep == [Ledger!Next]_(Ledger!vars) => [Proved!Next]_(Proved!vars)
<1>1. Ledger!Movements = Proved!Movements
  BY DEF Ledger!Movements, Proved!Movements, Ledger!Consumption, Proved!Consumption,
         Ledger!Purchase, Proved!Purchase, Ledger!Adjustment, Proved!Adjustment
<1>2. \A t \in Tx, m \in Ledger!Movements : Ledger!Begin(t, m) => Proved!Begin(t, m)
  BY DEF Ledger!Begin, Proved!Begin
<1>3. \A t \in Tx : Ledger!lockCreditLedger(t) => Proved!lockCreditLedger(t)
  BY DEF Ledger!lockCreditLedger, Proved!lockCreditLedger
<1>4. \A t \in Tx : Ledger!ReadLedger(t) => Proved!ReadLedger(t)
  BY DEF Ledger!ReadLedger, Proved!ReadLedger, Ledger!Recorded, Proved!Recorded,
         Ledger!getCreditBalance, Proved!getCreditBalance
<1>5. \A t \in Tx : Ledger!Rollback(t) => Proved!Rollback(t)
  BY DEF Ledger!Rollback, Proved!Rollback, Ledger!NothingSeen, Proved!NothingSeen
<1>6. \A on \in BOOLEAN : Ledger!setCreditEnforcement(on) => Proved!setCreditEnforcement(on)
  BY DEF Ledger!setCreditEnforcement, Proved!setCreditEnforcement
<1>7. \A t \in Tx : Ledger!CommitLedger(t) => Proved!CommitLedger(t)
  BY DEF Ledger!CommitLedger, Proved!CommitLedger, Ledger!Inserts, Proved!Inserts,
         Ledger!concludeCreditDecision, Proved!concludeCreditDecision,
         Ledger!NothingSeen, Proved!NothingSeen
<1>8. Ledger!Next => Proved!Next
  BY <1>1, <1>2, <1>3, <1>4, <1>5, <1>6, <1>7, Zenon DEF Ledger!Next, Proved!Next
<1>9. UNCHANGED Ledger!vars => UNCHANGED Proved!vars
  BY DEF Ledger!vars, Proved!vars
<1> QED BY <1>8, <1>9, Zenon

\* What the constants of the ledger are assumed to be.
LEMMA LedgerConstants ==
    /\ Proved!NoTxAssumption /\ Proved!NoKeyAssumption /\ Proved!KeysAssumption
    /\ Proved!CreditsAssumption /\ Proved!AdjustmentsAssumption /\ Proved!BoundAssumption
BY LedgerAssumption
DEF Proved!NoTxAssumption, Proved!NoKeyAssumption, Proved!KeysAssumption,
    Proved!CreditsAssumption, Proved!AdjustmentsAssumption, Proved!BoundAssumption

\* After a movement m is appended, k is recorded if it was or if it is m's.
LEMMA RecordedAfter ==
    ASSUME NEW rows \in Seq(Ledger!Movements), NEW m \in Ledger!Movements, NEW k
    PROVE  Ledger!Recorded(Append(rows, m), k)
              <=> \/ Ledger!Recorded(rows, k)
                  \/ k.STipo # "AJUSTE" /\ m.STipo = k.STipo /\ m.key = k.key
<1> DEFINE more == Append(rows, m)
<1>1. /\ Len(more) = Len(rows) + 1 /\ Len(rows) \in Nat
      /\ more[Len(rows) + 1] = m
      /\ \A i \in 1..Len(rows) : more[i] = rows[i]
  OBVIOUS
<1> HIDE DEF more
<1>2. 1..(Len(rows) + 1) = 1..Len(rows) \cup {Len(rows) + 1}
  BY <1>1
<1>3. Ledger!Recorded(more, k)
              <=> \/ Ledger!Recorded(rows, k)
                  \/ k.STipo # "AJUSTE" /\ m.STipo = k.STipo /\ m.key = k.key
  BY <1>1, <1>2 DEF Ledger!Recorded
<1> QED BY <1>3 DEF more

-----------------------------------------------------------------------------
(* The invariant *)

Shapes ==
    /\ session \in [References -> {"none", "open", "unpaid", "paid"}]
    /\ sent \subseteq Events
    /\ acked \subseteq sent
    /\ record \in [Events -> {"none", "received", "processed"}]
    /\ step \in [Tx -> {"idle", "find", "create", "session", "credit", "mark", "answer"}]
    /\ task \in [Tx -> [ref : References \cup {NoKey}, by : EventTypes \cup {"page", "nothing"}]]

\* Stripe announces a payment when it has it: nothing before the checkout is
\* completed, and a delayed success only of a paid session.
Announced ==
    /\ \A r \in References, type \in EventTypes :
          <<r, type>> \in sent => session[r] \in {"unpaid", "paid"}
    /\ \A r \in References : <<r, "async_payment_succeeded">> \in sent => session[r] = "paid"

\* Only events that were sent have a row.
Recorded == \A e \in Events : record[e] # "none" => e \in sent

\* What request t knows of the session and the event it works on.
Knows(t) ==
    LET r == task[t].ref IN
    /\ step[t] # "idle" => r \in References /\ task[t].by \in EventTypes \cup {"page"}
    /\ step[t] # "idle" /\ task[t].by # "page" => EventOf(t) \in sent
    /\ step[t] \in {"find", "create", "mark", "answer"} => task[t].by # "page"
    /\ step[t] = "credit" => pc[t] # "idle" /\ intent[t] = Ledger!Purchase(r) /\ Applies(r)
    /\ step[t] # "credit" => pc[t] = "idle"
    /\ step[t] = "mark" /\ EventOf(t) = DecisiveEvent(r) /\ Applies(r) => Credited(r)

\* Every row of the ledger is the purchase of a session of ours that is paid.
RowsArePaid ==
    \A i \in 1..Len(ledger) :
        \E r \in Ours : session[r] = "paid" /\ ledger[i] = Ledger!Purchase(r)

WorkInvariant ==
    /\ Shapes
    /\ Announced
    /\ Recorded
    /\ RowsArePaid
    /\ ProcessedIsCredited
    /\ \A t \in Tx : Knows(t)

-----------------------------------------------------------------------------
(* The steps *)

\* Every step of a request is a step of the ledger or leaves it alone.
LEMMA LedgerStep == WorkInvariant /\ [Next]_vars => [Ledger!Next]_(Ledger!vars)
<1> SUFFICES ASSUME WorkInvariant, [Next]_vars PROVE Ledger!Next \/ UNCHANGED Ledger!vars
  OBVIOUS
<1> USE DEF Ledger!vars, ledgerVars
<1>1. CASE Stripe
  BY <1>1 DEF Stripe, startPackageCheckout, CompleteCheckout, DelayedPaymentSucceeds
<1>2. CASE Handlers
  <2>1. ASSUME NEW t \in Tx, reconcilePackageCheckout(t) PROVE Ledger!Next \/ UNCHANGED Ledger!vars
    <3>1. CASE UNCHANGED ledgerVars
      BY <3>1
    <3>2. CASE Ledger!Begin(t, Ledger!Purchase(task[t].ref))
      <4>1. task[t].ref \in References
        BY <2>1 DEF reconcilePackageCheckout, WorkInvariant, Knows
      <4> QED BY <3>2, <4>1 DEF Ledger!Next, Ledger!Movements
    <3> QED BY <2>1, <3>1, <3>2 DEF reconcilePackageCheckout
  <2>2. ASSUME NEW t \in Tx, \/ LedgerLock(t) \/ LedgerRead(t) \/ creditPurchase(t) \/ Fail(t)
        PROVE  Ledger!Next \/ UNCHANGED Ledger!vars
    BY <2>2 DEF LedgerLock, LedgerRead, creditPurchase, Fail, Ledger!Next
  <2> QED BY <1>2, <2>1, <2>2 DEF Handlers, Deliver, OpenSuccessPage, Starts, FindRecord,
                                  CreateRecord, MarkProcessed, Answer
<1>3. CASE UNCHANGED vars
  BY <1>3 DEF vars
<1> QED BY <1>1, <1>2, <1>3 DEF Next

\* The ledger's own invariant holds of the ledger the purchases credit.
LEMMA LedgerStays == WorkInvariant /\ Proved!LedgerInvariant /\ [Next]_vars => Proved!LedgerInvariant'
<1>1. Proved!LedgerInvariant /\ [Proved!Next]_(Proved!vars) => Proved!LedgerInvariant'
  BY LedgerConstants, Proved!NextInvariant, Zenon
<1> QED BY <1>1, LedgerStep, SameStep

\* A step of Stripe: what is paid stays paid, and what it sends is announced.
LEMMA StripeKeeps == ASSUME WorkInvariant, Stripe PROVE WorkInvariant'
<1>1. /\ UNCHANGED <<ledgerVars, acked, record, step, task>>
      /\ sent \subseteq sent'
      /\ \A r \in References : session[r] = "paid" => session'[r] = "paid"
  BY DEF Stripe, startPackageCheckout, CompleteCheckout, DelayedPaymentSucceeds, WorkInvariant, Shapes
<1>2. Shapes' /\ Announced'
  <2> USE DEF WorkInvariant, Shapes, Announced, Events, EventTypes
  <2>1. ASSUME NEW r \in References, startPackageCheckout(r) PROVE Shapes' /\ Announced'
    BY <2>1 DEF startPackageCheckout
  <2>2. ASSUME NEW r \in References, NEW payment \in {"paid", "unpaid"}, CompleteCheckout(r, payment)
        PROVE  Shapes' /\ Announced'
    BY <2>2 DEF CompleteCheckout
  <2>3. ASSUME NEW r \in References, DelayedPaymentSucceeds(r) PROVE Shapes' /\ Announced'
    BY <2>3 DEF DelayedPaymentSucceeds
  <2> QED BY <2>1, <2>2, <2>3 DEF Stripe
<1>3. \A r \in Ours : Credited(r)' <=> Credited(r)
  BY <1>1 DEF Credited, Ledger!Recorded, Ledger!Purchase, ledgerVars
<1>4. \A r \in Ours : session'[r] = "paid" /\ DecisiveEvent(r)' \in sent
                         => session[r] = "paid" /\ DecisiveEvent(r)' = DecisiveEvent(r)
  BY OursAssumption
  DEF Stripe, startPackageCheckout, CompleteCheckout, DelayedPaymentSucceeds,
      WorkInvariant, Shapes, Announced, DecisiveEvent, Events, EventTypes
<1>5. Recorded' /\ RowsArePaid'
  BY <1>1, OursAssumption DEF WorkInvariant, Recorded, RowsArePaid, ledgerVars, Ledger!Purchase
<1>6. ProcessedIsCredited'
  <2>1. \A r \in Ours : DecisiveEvent(r)' \in Events
    BY OursAssumption DEF DecisiveEvent, Events, EventTypes
  <2> QED BY <1>1, <1>3, <1>4, <2>1 DEF WorkInvariant, ProcessedIsCredited, Recorded
<1>7. ASSUME NEW t \in Tx PROVE Knows(t)'
  <2>1. Knows(t)
    BY DEF WorkInvariant
  <2> QED BY <1>1, <1>3, <1>4, <2>1, OursAssumption
          DEF Knows, Applies, EventOf, ledgerVars, Ledger!Purchase
<1> QED BY <1>2, <1>5, <1>6, <1>7 DEF WorkInvariant

\* A request that does not move still knows what it knew: the session is as it
\* was, and what is credited stays so.
LEMMA OthersKnow ==
    ASSUME Shapes, NEW t \in Tx, Knows(t), UNCHANGED stripeVars,
           step'[t] = step[t], task'[t] = task[t], pc'[t] = pc[t], intent'[t] = intent[t],
           \A r \in References : Credited(r) => Credited(r)'
    PROVE  Knows(t)'
BY DEF Shapes, Knows, Applies, EventOf, DecisiveEvent, stripeVars, Ledger!Purchase

\* The request of t takes a step outside the ledger.
LEMMA LocalKeeps ==
    ASSUME WorkInvariant, NEW t \in Tx, UNCHANGED <<ledgerVars, stripeVars>>,
           NEW next \in {"idle", "find", "create", "session", "mark", "answer"}, step' = [step EXCEPT ![t] = next],
           NEW tk \in [ref : References \cup {NoKey}, by : EventTypes \cup {"page", "nothing"}],
           task' = [task EXCEPT ![t] = tk],
           acked' \subseteq sent, record' \in [Events -> {"none", "received", "processed"}],
           Recorded', ProcessedIsCredited', Knows(t)'
    PROVE  WorkInvariant'
<1>1. Shapes' /\ Announced' /\ RowsArePaid'
  BY DEF WorkInvariant, Shapes, Announced, RowsArePaid, Ledger!Purchase, ledgerVars, stripeVars
<1>2. \A r \in References : Credited(r) => Credited(r)'
  BY DEF Credited, Ledger!Recorded, Ledger!Purchase, ledgerVars
<1>3. ASSUME NEW s \in Tx, s # t PROVE Knows(s)'
  <2>1. step'[s] = step[s] /\ task'[s] = task[s] /\ pc'[s] = pc[s] /\ intent'[s] = intent[s]
    BY <1>3 DEF WorkInvariant, Shapes, ledgerVars
  <2> QED BY <1>2, <2>1, OthersKnow DEF WorkInvariant
<1> QED BY <1>1, <1>3 DEF WorkInvariant

\* A step that touches neither the records nor the ledger nor Stripe.
LEMMA SameRecords ==
    ASSUME WorkInvariant, UNCHANGED <<ledger, session, sent, record>>
    PROVE  Recorded' /\ ProcessedIsCredited'
BY DEF WorkInvariant, Recorded, ProcessedIsCredited, DecisiveEvent, Credited, Ledger!Recorded, Ledger!Purchase

\* What a request that is between two steps may rely on, for its next step.
LEMMA KnowsNext ==
    ASSUME WorkInvariant, NEW t \in Tx, pc'[t] = "idle", UNCHANGED stripeVars,
           NEW next \in {"create", "session", "answer"}, step'[t] = next, task'[t] = task[t],
           step[t] # "idle", next # "session" => task[t].by # "page"
    PROVE  Knows(t)'
BY DEF WorkInvariant, Knows, EventOf, stripeVars

\* The first steps of a request, and the last one of a webhook.
LEMMA StartsKeeps ==
    ASSUME WorkInvariant, NEW t \in Tx, NEW r \in References, NEW by \in EventTypes \cup {"page"},
           NEW next \in {"find", "session"}, Starts(t, r, by, next),
           by # "page" => <<r, by>> \in sent, next = "find" => by # "page"
    PROVE  WorkInvariant'
<1> DEFINE tk == [ref |-> r, by |-> by]
<1>1. /\ step' = [step EXCEPT ![t] = next] /\ task' = [task EXCEPT ![t] = tk]
      /\ UNCHANGED <<ledgerVars, stripeVars, acked, record>> /\ step[t] = "idle"
  BY DEF Starts
<1>2. Recorded' /\ ProcessedIsCredited'
  BY <1>1, SameRecords DEF ledgerVars, stripeVars
<1>3. Knows(t)'
  BY <1>1 DEF WorkInvariant, Shapes, Knows, EventOf, ledgerVars, stripeVars
<1>4. acked' \subseteq sent /\ record' \in [Events -> {"none", "received", "processed"}]
  BY <1>1 DEF WorkInvariant, Shapes
<1> QED BY <1>1, <1>2, <1>3, <1>4, LocalKeeps

\* The 200 is given for an event that was sent (Answer).
LEMMA AnswerKeeps == ASSUME WorkInvariant, NEW t \in Tx, Answer(t) PROVE WorkInvariant'
<1>1. /\ step[t] = "answer" /\ acked' = acked \cup {EventOf(t)}
      /\ step' = [step EXCEPT ![t] = "idle"] /\ task' = [task EXCEPT ![t] = NoTask]
      /\ UNCHANGED <<ledgerVars, stripeVars, record>>
  BY DEF Answer, Ends
<1>2. EventOf(t) \in sent
  BY <1>1 DEF WorkInvariant, Knows
<1>3. acked' \subseteq sent /\ record' \in [Events -> {"none", "received", "processed"}]
  BY <1>1, <1>2 DEF WorkInvariant, Shapes
<1>4. NoTask \in [ref : References \cup {NoKey}, by : EventTypes \cup {"page", "nothing"}]
  BY DEF NoTask
<1>5. Recorded' /\ ProcessedIsCredited'
  BY <1>1, SameRecords DEF ledgerVars, stripeVars
<1>6. Knows(t)'
  BY <1>1 DEF WorkInvariant, Shapes, Knows, ledgerVars
<1> QED BY <1>1, <1>3, <1>4, <1>5, <1>6, LocalKeeps

\* The lookup of the event's row (FindRecord).
LEMMA FindKeeps == ASSUME WorkInvariant, NEW t \in Tx, FindRecord(t) PROVE WorkInvariant'
<1>1. /\ step[t] = "find" /\ UNCHANGED <<ledgerVars, stripeVars, acked, record, task>>
  BY DEF FindRecord, Goes
<1>2. EventOf(t) \in Events
  BY <1>1 DEF WorkInvariant, Knows, Shapes
<1>3. PICK next \in {"create", "session", "answer"} : step' = [step EXCEPT ![t] = next]
  BY <1>2 DEF FindRecord, Goes, WorkInvariant, Shapes
<1>4. /\ task' = [task EXCEPT ![t] = task[t]]
      /\ task[t] \in [ref : References \cup {NoKey}, by : EventTypes \cup {"page", "nothing"}]
  BY <1>1 DEF WorkInvariant, Shapes
<1>5. Recorded' /\ ProcessedIsCredited'
  BY <1>1, SameRecords DEF ledgerVars, stripeVars
<1>6. Knows(t)'
  BY <1>1, <1>3, KnowsNext DEF WorkInvariant, Knows, Shapes, ledgerVars
<1>7. acked' \subseteq sent /\ record' \in [Events -> {"none", "received", "processed"}]
  BY <1>1 DEF WorkInvariant, Shapes
<1> QED BY <1>1, <1>3, <1>4, <1>5, <1>6, <1>7, LocalKeeps

\* The insert of the event's row (CreateRecord).
LEMMA CreateKeeps == ASSUME WorkInvariant, NEW t \in Tx, CreateRecord(t) PROVE WorkInvariant'
<1> DEFINE e == EventOf(t)
<1>1. step[t] = "create" /\ UNCHANGED <<ledgerVars, stripeVars, acked, task>>
  BY DEF CreateRecord, Goes
<1>2. e \in sent /\ e \in Events /\ task[t].by # "page"
  BY <1>1 DEF WorkInvariant, Knows, Shapes
<1>3. PICK next \in {"session", "answer"} : step' = [step EXCEPT ![t] = next]
  BY DEF CreateRecord, Goes
<1>4. record' = record \/ record' = [record EXCEPT ![e] = "received"]
  BY DEF CreateRecord
<1>5. record' \in [Events -> {"none", "received", "processed"}] /\ Recorded'
  BY <1>1, <1>2, <1>4 DEF WorkInvariant, Shapes, Recorded, stripeVars
<1>6. ProcessedIsCredited'
  <2>1. \A d \in Events : record'[d] = "processed" => record[d] = "processed"
    BY <1>2, <1>4 DEF WorkInvariant, Shapes
  <2>2. \A r \in Ours : DecisiveEvent(r) \in Events /\ DecisiveEvent(r)' = DecisiveEvent(r)
    BY <1>1, OursAssumption DEF DecisiveEvent, Events, EventTypes, stripeVars
  <2>3. \A r \in Ours : Credited(r)' <=> Credited(r)
    BY <1>1 DEF Credited, Ledger!Recorded, Ledger!Purchase, ledgerVars
  <2> QED BY <1>1, <2>1, <2>2, <2>3 DEF WorkInvariant, ProcessedIsCredited, stripeVars
<1>7. /\ task' = [task EXCEPT ![t] = task[t]]
      /\ task[t] \in [ref : References \cup {NoKey}, by : EventTypes \cup {"page", "nothing"}]
  BY <1>1 DEF WorkInvariant, Shapes
<1>8. Knows(t)'
  BY <1>1, <1>2, <1>3, KnowsNext DEF WorkInvariant, Knows, Shapes, ledgerVars
<1>9. acked' \subseteq sent
  BY <1>1 DEF WorkInvariant, Shapes
<1> QED BY <1>1, <1>3, <1>5, <1>6, <1>7, <1>8, <1>9, LocalKeeps

\* The event is marked (MarkProcessed): its payment is credited, if it is the
\* event that announced it.
LEMMA MarkKeeps == ASSUME WorkInvariant, NEW t \in Tx, MarkProcessed(t) PROVE WorkInvariant'
<1> DEFINE e == EventOf(t)
<1>1. /\ step[t] = "mark" /\ UNCHANGED <<ledgerVars, stripeVars, acked, task>>
      /\ step' = [step EXCEPT ![t] = "answer"] /\ record' = [record EXCEPT ![e] = "processed"]
  BY DEF MarkProcessed, Goes
<1>2. e \in sent /\ e \in Events /\ task[t].by # "page"
  BY <1>1 DEF WorkInvariant, Knows, Shapes
<1>3. record' \in [Events -> {"none", "received", "processed"}] /\ Recorded'
  BY <1>1, <1>2 DEF WorkInvariant, Shapes, Recorded, stripeVars
<1>4. ProcessedIsCredited'
  <2>1. SUFFICES ASSUME NEW r \in Ours, session[r] = "paid", record'[DecisiveEvent(r)] = "processed"
                 PROVE  Credited(r)
    <3>1. \A r \in Ours : DecisiveEvent(r)' = DecisiveEvent(r) /\ (Credited(r)' <=> Credited(r))
      BY <1>1 DEF DecisiveEvent, stripeVars, Credited, Ledger!Recorded, Ledger!Purchase, ledgerVars
    <3> QED BY <1>1, <3>1 DEF ProcessedIsCredited, stripeVars
  <2>2. DecisiveEvent(r) \in Events
    BY OursAssumption DEF DecisiveEvent, Events, EventTypes
  <2>3. CASE DecisiveEvent(r) = e
    <3>1. task[t].ref = r
      BY <2>3 DEF DecisiveEvent, EventOf
    <3> QED BY <1>1, <2>1, <2>3, <3>1 DEF WorkInvariant, Knows, Applies
  <2>4. CASE DecisiveEvent(r) # e
    BY <1>1, <1>2, <2>1, <2>2, <2>4 DEF WorkInvariant, Shapes, ProcessedIsCredited
  <2> QED BY <2>3, <2>4
<1>5. /\ task' = [task EXCEPT ![t] = task[t]]
      /\ task[t] \in [ref : References \cup {NoKey}, by : EventTypes \cup {"page", "nothing"}]
  BY <1>1 DEF WorkInvariant, Shapes
<1>6. Knows(t)'
  BY <1>1, <1>2, KnowsNext DEF WorkInvariant, Knows, Shapes, ledgerVars
<1>7. acked' \subseteq sent
  BY <1>1 DEF WorkInvariant, Shapes
<1> QED BY <1>1, <1>3, <1>4, <1>5, <1>6, <1>7, LocalKeeps

\* A step in the ledger of the request of t that credits nothing, or credits
\* the session it knows to be paid.
LEMMA LedgerKeeps ==
    ASSUME WorkInvariant, NEW t \in Tx, UNCHANGED <<stripeVars, acked, record>>,
           NEW next \in {"idle", "credit", "mark"}, step' = [step EXCEPT ![t] = next],
           NEW tk \in [ref : References \cup {NoKey}, by : EventTypes \cup {"page", "nothing"}],
           task' = [task EXCEPT ![t] = tk],
           \A s \in Tx : s # t => pc'[s] = pc[s] /\ intent'[s] = intent[s],
           RowsArePaid', \A r \in References : Credited(r) => Credited(r)', Knows(t)'
    PROVE  WorkInvariant'
<1>1. Shapes' /\ Announced' /\ Recorded'
  BY DEF WorkInvariant, Shapes, Announced, Recorded, stripeVars
<1>2. ProcessedIsCredited'
  BY OursAssumption DEF WorkInvariant, ProcessedIsCredited, DecisiveEvent, stripeVars
<1>3. ASSUME NEW s \in Tx, s # t PROVE Knows(s)'
  <2>1. step'[s] = step[s] /\ task'[s] = task[s] /\ pc'[s] = pc[s] /\ intent'[s] = intent[s]
    BY <1>3 DEF WorkInvariant, Shapes
  <2> QED BY <2>1, OthersKnow DEF WorkInvariant
<1> QED BY <1>1, <1>2, <1>3 DEF WorkInvariant

\* While the ledger's rows stay, what is credited and paid stays.
LEMMA SameRows ==
    ASSUME WorkInvariant, ledger' = ledger, UNCHANGED stripeVars
    PROVE  RowsArePaid' /\ \A r \in References : Credited(r)' <=> Credited(r)
BY DEF WorkInvariant, RowsArePaid, Credited, Ledger!Recorded, Ledger!Purchase, stripeVars

\* The session is read and either left alone or handed to the ledger
\* (reconcilePackageCheckout).
LEMMA ReconcileKeeps ==
    ASSUME WorkInvariant, Proved!TypeOK, NEW t \in Tx, reconcilePackageCheckout(t)
    PROVE  WorkInvariant'
<1> DEFINE r == task[t].ref
           Tasks == [ref : References \cup {NoKey}, by : EventTypes \cup {"page", "nothing"}]
<1>1. step[t] = "session" /\ UNCHANGED <<stripeVars, acked, record>>
  BY DEF reconcilePackageCheckout
<1>2. r \in References /\ pc[t] = "idle" /\ task[t] \in Tasks /\ NoTask \in Tasks
  BY <1>1 DEF WorkInvariant, Knows, Shapes, NoTask
<1>3. CASE Applies(r) /\ Ledger!Begin(t, Ledger!Purchase(r)) /\ Goes(t, "credit")
  <2>1. /\ step' = [step EXCEPT ![t] = "credit"] /\ task' = [task EXCEPT ![t] = task[t]] /\ task' = task
        /\ pc' = [pc EXCEPT ![t] = "waiting"] /\ intent' = [intent EXCEPT ![t] = Ledger!Purchase(r)]
        /\ ledger' = ledger
    BY <1>3 DEF Goes, Ledger!Begin, WorkInvariant, Shapes
  <2>2. RowsArePaid' /\ \A x \in References : Credited(x)' <=> Credited(x)
    BY <1>1, <2>1, SameRows
  <2>3. Knows(t)'
    <3>1. /\ step'[t] = "credit" /\ pc'[t] = "waiting" /\ intent'[t] = Ledger!Purchase(r) /\ task'[t] = task[t]
      BY <2>1 DEF WorkInvariant, Shapes, Proved!TypeOK
    <3> QED BY <1>1, <1>3, <3>1 DEF WorkInvariant, Knows, EventOf, Applies, Ledger!Purchase, stripeVars
  <2>4. \A s \in Tx : s # t => pc'[s] = pc[s] /\ intent'[s] = intent[s]
    BY <2>1 DEF Proved!TypeOK
  <2> QED BY <1>1, <1>2, <2>1, <2>2, <2>3, <2>4, LedgerKeeps
<1>4. CASE ~Applies(r) /\ Reconciled(t) /\ UNCHANGED ledgerVars
  <2>1. PICK next \in {"idle", "mark"}, tk \in Tasks :
           /\ step' = [step EXCEPT ![t] = next] /\ task' = [task EXCEPT ![t] = tk]
           /\ next = "mark" => tk = task[t] /\ tk.by # "page"
    BY <1>2, <1>4 DEF Reconciled, Goes, Ends, WorkInvariant, Shapes
  <2>2. RowsArePaid' /\ \A x \in References : Credited(x)' <=> Credited(x)
    BY <1>1, <1>4, SameRows DEF ledgerVars
  <2>3. Knows(t)'
    <3>1. step'[t] = next /\ task'[t] = tk /\ pc'[t] = "idle"
      BY <1>2, <1>4, <2>1 DEF WorkInvariant, Shapes, ledgerVars
    <3> QED BY <1>1, <1>4, <2>1, <3>1 DEF WorkInvariant, Knows, EventOf, Applies, stripeVars
  <2>4. \A s \in Tx : s # t => pc'[s] = pc[s] /\ intent'[s] = intent[s]
    BY <1>4 DEF ledgerVars
  <2> QED BY <1>1, <2>1, <2>2, <2>3, <2>4, LedgerKeeps
<1> QED BY <1>3, <1>4 DEF reconcilePackageCheckout

\* The lock and the reads of the ledger.
LEMMA WaitKeeps ==
    ASSUME WorkInvariant, Proved!TypeOK, NEW t \in Tx, LedgerLock(t) \/ LedgerRead(t)
    PROVE  WorkInvariant'
<1>1. /\ UNCHANGED <<stripeVars, acked, record, step, task, ledger, intent>> /\ pc[t] # "idle"
      /\ pc' = [pc EXCEPT ![t] = "locked"] \/ pc' = [pc EXCEPT ![t] = "decided"]
  BY DEF LedgerLock, LedgerRead, Ledger!lockCreditLedger, Ledger!ReadLedger
<1>2. step[t] = "credit"
  BY <1>1 DEF WorkInvariant, Knows
<1>3. RowsArePaid' /\ \A r \in References : Credited(r)' <=> Credited(r)
  BY <1>1, SameRows
<1>4. Knows(t)'
  <2>1. pc'[t] # "idle" /\ Knows(t)
    BY <1>1 DEF Proved!TypeOK, WorkInvariant
  <2> QED BY <1>1, <1>2, <2>1 DEF Knows, EventOf, Applies, stripeVars, Ledger!Purchase
<1>5. /\ step' = [step EXCEPT ![t] = "credit"] /\ task' = [task EXCEPT ![t] = task[t]]
      /\ task[t] \in [ref : References \cup {NoKey}, by : EventTypes \cup {"page", "nothing"}]
  BY <1>1, <1>2 DEF WorkInvariant, Shapes
<1>6. \A s \in Tx : s # t => pc'[s] = pc[s] /\ intent'[s] = intent[s]
  BY <1>1 DEF Proved!TypeOK
<1> QED BY <1>1, <1>3, <1>4, <1>5, <1>6, LedgerKeeps

\* The credit is committed (creditPurchase): the session is credited after it,
\* by this request or by one before.
LEMMA CreditKeeps ==
    ASSUME WorkInvariant, Proved!LedgerInvariant, NEW t \in Tx, creditPurchase(t)
    PROVE  WorkInvariant'
<1> DEFINE Tasks == [ref : References \cup {NoKey}, by : EventTypes \cup {"page", "nothing"}]
<1> USE DEF Proved!LedgerInvariant
<1>1. /\ step[t] = "credit" /\ pc[t] = "decided" /\ UNCHANGED <<stripeVars, acked, record>>
      /\ ledger' = IF Ledger!Inserts(intent[t], seen[t]) THEN Append(ledger, intent[t]) ELSE ledger
      /\ pc' = [pc EXCEPT ![t] = "idle"] /\ intent' = intent /\ Reconciled(t)
  BY DEF creditPurchase, Ledger!CommitLedger
<1>2. PICK r \in References :
         /\ r = task[t].ref /\ task[t] \in Tasks /\ NoTask \in Tasks
         /\ intent[t] = Ledger!Purchase(r) /\ r \in Ours /\ session[r] = "paid"
  BY <1>1 DEF WorkInvariant, Knows, Shapes, NoTask, Applies
<1> DEFINE m == Ledger!Purchase(r)
<1>3. m.STipo = "COMPRA" /\ m.key = r /\ m \in Ledger!Movements
  BY <1>2 DEF Ledger!Purchase, Ledger!Movements
<1>4. ledger \in Seq(Ledger!Movements)
  BY DEF Proved!TypeOK, Ledger!Movements, Proved!Movements, Ledger!Consumption, Proved!Consumption,
         Ledger!Purchase, Proved!Purchase, Ledger!Adjustment, Proved!Adjustment
<1>5. seen[t].existing = Credited(r)
  BY <1>1, <1>2 DEF Proved!DecisionsAreCurrent, Proved!Recorded, Ledger!Recorded, Credited
<1>6. ledger' = IF Credited(r) THEN ledger ELSE Append(ledger, m)
  BY <1>1, <1>2, <1>3, <1>5 DEF Ledger!Inserts
<1>7. RowsArePaid' /\ Credited(r)' /\ \A x \in References : Credited(x) => Credited(x)'
  <2>1. CASE Credited(r)
    BY <1>1, <1>2, <1>6, <2>1, SameRows
  <2>2. CASE ~Credited(r)
    <3>1. ledger' = Append(ledger, m)
      BY <1>6, <2>2
    <3>2. \A x \in References : Credited(x) => Credited(x)'
      <4> HIDE DEF m
      <4> QED BY <1>3, <1>4, <3>1, RecordedAfter DEF Credited, Ledger!Purchase
    <3>3. Credited(r)'
      <4>1. Ledger!Recorded(Append(ledger, m), m)
        <5> HIDE DEF m
        <5> QED BY <1>3, <1>4, RecordedAfter
      <4> QED BY <3>1, <4>1 DEF Credited, Ledger!Recorded, Ledger!Purchase
    <3>4. RowsArePaid'
      BY <1>1, <1>2, <1>4, <3>1 DEF WorkInvariant, RowsArePaid, stripeVars, Ledger!Purchase
    <3> QED BY <3>2, <3>3, <3>4
  <2> QED BY <2>1, <2>2
<1>8. PICK next \in {"idle", "mark"}, tk \in Tasks :
         /\ step' = [step EXCEPT ![t] = next] /\ task' = [task EXCEPT ![t] = tk]
         /\ next = "mark" => tk = task[t] /\ tk.by # "page"
  BY <1>1, <1>2 DEF Reconciled, Goes, Ends, WorkInvariant, Shapes
<1>9. Knows(t)'
  <2>1. step'[t] = next /\ task'[t] = tk /\ pc'[t] = "idle"
    BY <1>1, <1>8 DEF WorkInvariant, Shapes, Proved!TypeOK
  <2> QED BY <1>1, <1>2, <1>7, <1>8, <2>1 DEF WorkInvariant, Knows, EventOf, Applies, stripeVars
<1>10. \A s \in Tx : s # t => pc'[s] = pc[s] /\ intent'[s] = intent[s]
  BY <1>1 DEF Proved!TypeOK
<1> QED BY <1>1, <1>7, <1>8, <1>9, <1>10, LedgerKeeps

\* A request that fails, in the ledger or outside it.
LEMMA FailKeeps ==
    ASSUME WorkInvariant, Proved!TypeOK, NEW t \in Tx, Fail(t)
    PROVE  WorkInvariant'
<1>1. /\ UNCHANGED <<stripeVars, acked, record>>
      /\ step' = [step EXCEPT ![t] = "idle"] /\ task' = [task EXCEPT ![t] = NoTask]
      /\ ledger' = ledger /\ intent' = intent
      /\ (pc' = pc /\ pc[t] = "idle") \/ pc' = [pc EXCEPT ![t] = "idle"]
  BY DEF Fail, Ends, Ledger!Rollback, ledgerVars
<1>2. RowsArePaid' /\ \A r \in References : Credited(r)' <=> Credited(r)
  BY <1>1, SameRows
<1>3. Knows(t)'
  <2>1. step'[t] = "idle" /\ pc'[t] = "idle"
    BY <1>1 DEF WorkInvariant, Shapes, Proved!TypeOK
  <2> QED BY <2>1 DEF Knows
<1>4. \A s \in Tx : s # t => pc'[s] = pc[s] /\ intent'[s] = intent[s]
  BY <1>1 DEF Proved!TypeOK
<1>5. NoTask \in [ref : References \cup {NoKey}, by : EventTypes \cup {"page", "nothing"}]
  BY DEF NoTask
<1> QED BY <1>1, <1>2, <1>3, <1>4, <1>5, LedgerKeeps

\* Every step keeps the invariant.
LEMMA WorkStep == WorkInvariant /\ Proved!LedgerInvariant /\ [Next]_vars => WorkInvariant'
<1> SUFFICES ASSUME WorkInvariant, Proved!LedgerInvariant, [Next]_vars PROVE WorkInvariant'
  OBVIOUS
<1>0. Proved!TypeOK
  BY DEF Proved!LedgerInvariant
<1>1. CASE Stripe
  BY <1>1, StripeKeeps
<1>2. CASE Handlers
  <2>1. ASSUME NEW t \in Tx, NEW e \in Events, Deliver(t, e) PROVE WorkInvariant'
    <3>1. PICK r \in References, type \in EventTypes : e = <<r, type>>
      BY DEF Events
    <3>2. <<r, type>> \in sent /\ Starts(t, r, type, "find") /\ type # "page"
      BY <2>1, <3>1 DEF Deliver, EventTypes
    <3> QED BY <3>2, StartsKeeps
  <2>2. ASSUME NEW t \in Tx, NEW r \in References, OpenSuccessPage(t, r) PROVE WorkInvariant'
    BY <2>2, StartsKeeps DEF OpenSuccessPage
  <2> QED BY <1>0, <1>2, <2>1, <2>2, FindKeeps, CreateKeeps, ReconcileKeeps, WaitKeeps, CreditKeeps,
             MarkKeeps, AnswerKeeps, FailKeeps DEF Handlers
<1>3. CASE UNCHANGED vars
  BY <1>3 DEF vars, ledgerVars, stripeVars, WorkInvariant, Shapes, Announced, Recorded, RowsArePaid,
              ProcessedIsCredited, DecisiveEvent, Credited, Ledger!Recorded, Ledger!Purchase,
              Knows, EventOf, Applies
<1> QED BY <1>1, <1>2, <1>3 DEF Next

-----------------------------------------------------------------------------
(* The theorems *)

PurchaseInvariant == WorkInvariant /\ Proved!LedgerInvariant

\* Nothing has been sold, sent or recorded.
LEMMA InitInvariant == Init => PurchaseInvariant
<1> SUFFICES ASSUME Init PROVE PurchaseInvariant
  OBVIOUS
<1>1. Proved!LedgerInvariant
  <2>1. Proved!Init => Proved!LedgerInvariant
    BY LedgerConstants, Proved!InitInvariant, Zenon
  <2> QED BY <2>1, SameInit DEF Init
<1>2. Shapes
  BY DEF Init, Shapes, NoTask
<1>3. Announced /\ Recorded /\ RowsArePaid
  BY DEF Init, Announced, Recorded, RowsArePaid, Ledger!Init, EventTypes
<1>4. ProcessedIsCredited
  BY OursAssumption DEF Init, ProcessedIsCredited
<1>5. \A t \in Tx : Knows(t)
  BY DEF Init, Ledger!Init, Knows
<1> QED BY <1>1, <1>2, <1>3, <1>4, <1>5 DEF PurchaseInvariant, WorkInvariant

\* Every reachable state of the purchases satisfies the inductive invariant.
THEOREM Invariance == Spec => []PurchaseInvariant
<1>1. PurchaseInvariant /\ [Next]_vars => PurchaseInvariant'
  BY WorkStep, LedgerStays DEF PurchaseInvariant
<1> QED BY <1>1, InitInvariant, PTL DEF Spec

\* The sessions, events, rows and locals keep their types.
THEOREM TypeCorrect == Spec => []TypeOK
<1>1. Proved!TypeOK => Ledger!TypeOK
  BY DEF Ledger!TypeOK, Proved!TypeOK, Ledger!Movements, Proved!Movements,
         Ledger!Consumption, Proved!Consumption, Ledger!Purchase, Proved!Purchase,
         Ledger!Adjustment, Proved!Adjustment, Ledger!NoMovement, Proved!NoMovement,
         Ledger!Sight, Proved!Sight
<1>2. PurchaseInvariant => TypeOK
  BY <1>1 DEF PurchaseInvariant, WorkInvariant, Shapes, TypeOK, Proved!LedgerInvariant
<1> QED BY <1>2, Invariance, PTL

\* Only paid sessions of the organization are credited, each once, whatever
\* deliveries, pages and failures there are.
THEOREM OnlyPaidIsCredited == Spec => []CreditsArePaidFor
<1>1. PurchaseInvariant => CreditsArePaidFor
  <2> SUFFICES ASSUME PurchaseInvariant PROVE CreditsArePaidFor
    OBVIOUS
  <2>1. ASSUME NEW i \in 1..Len(ledger)
        PROVE  ledger[i].key \in Ours /\ session[ledger[i].key] = "paid" /\ ledger[i].STipo = "COMPRA"
    <3>1. PICK r \in Ours : session[r] = "paid" /\ ledger[i] = Ledger!Purchase(r)
      BY DEF PurchaseInvariant, WorkInvariant, RowsArePaid
    <3>2. ledger[i].key = r /\ ledger[i].STipo = "COMPRA"
      BY <3>1 DEF Ledger!Purchase
    <3> QED BY <3>1, <3>2
  <2>2. \A i, j \in 1..Len(ledger) : ledger[i].key = ledger[j].key => i = j
    BY <2>1 DEF PurchaseInvariant, Proved!LedgerInvariant, Proved!UniqueIndexesNeverFire
  <2> QED BY <2>1, <2>2 DEF CreditsArePaidFor
<1> QED BY <1>1, Invariance, PTL

\* An event is marked as processed only after the payment it announced is in
\* the ledger, for any number of concurrent deliveries.
THEOREM MarkFollowsCredit == Spec => []ProcessedIsCredited
<1>1. PurchaseInvariant => ProcessedIsCredited
  BY DEF PurchaseInvariant, WorkInvariant
<1> QED BY <1>1, Invariance, PTL

\* The webhook and the page use the ledger as the ledger allows: what is proved
\* of the ledger holds of the one they credit.
THEOREM UsesLedger == Spec => Ledger!Spec
<1>1. Init => Ledger!Init
  BY DEF Init
<1>2. PurchaseInvariant /\ [Next]_vars => [Ledger!Next]_(Ledger!vars)
  BY LedgerStep DEF PurchaseInvariant
<1> QED BY <1>1, <1>2, Invariance, PTL DEF Spec, Ledger!Spec
=============================================================================
