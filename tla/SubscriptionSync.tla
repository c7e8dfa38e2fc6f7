-------------------------- MODULE SubscriptionSync --------------------------
(***************************************************************************)
(* The paid subscription of one organization (features/billing): the       *)
(* checkout that starts one (billing.service.ts), what Stripe does with it *)
(* and the reconciliation of the Suscripcion rows with Stripe              *)
(* (subscription-sync.service.ts) that the webhook, the success page, the  *)
(* billing page and the checkout itself end in.                            *)
(*                                                                         *)
(* A request reads the subscription from Stripe, waits for the             *)
(* organization's advisory lock, reads the rows and commits.  The rows are *)
(* those of the Stripe subscriptions and the free base rows, of which only *)
(* the ones without DFechaFinalizacion count.                              *)
(*                                                                         *)
(* A subscription of another customer or organization is refused before    *)
(* anything is locked (lines 65-71) and is not modelled.  What a plan      *)
(* costs and allows, and trials, are left out.                             *)
(***************************************************************************)
EXTENDS Integers, FiniteSets

CONSTANTS
    Requests,       \* requests to the server at a time
    Nobody,         \* no request holds the advisory lock
    Subs,           \* checkouts of the organization, and the subscriptions they become
    Base,           \* the free base plan
    NoSub,          \* a request that works on no subscription
    Sellable,       \* subscriptions whose price the catalog knows
    Statuses,       \* the statuses of Stripe that are told apart
    MaxEvents       \* bound: events of a subscription

ASSUME NobodyAssumption == Nobody \notin Requests
ASSUME NamesAssumption == Base \notin Subs /\ NoSub \notin Subs
ASSUME SubsAssumption == IsFiniteSet(Subs)
ASSUME SellableAssumption == Sellable \subseteq Subs
ASSUME MaxEventsAssumption == MaxEvents \in Nat

VARIABLES
    checkout,   \* the Checkout Session of each: none, open or paid
    stripe,     \* the status of each subscription at Stripe, or "none"
    start,      \* its start date, as a position among the others'
    events,     \* how many events of it Stripe has sent
    done,       \* those whose reconciliation was done
    row,        \* the Suscripcion row of each subscription, or NoRow
    base,       \* base rows that are not finalized
    orgLock,    \* the request that holds the organization's lock
    syncPc,     \* what each request does next
    job,        \* the subscription it works on and, of a webhook, the event
    snapshot,   \* the status it read from Stripe
    rowsSeen    \* the rows it read under the lock

stripeVars == <<checkout, stripe, start, events, done>>
rowVars == <<row, base>>
requestVars == <<syncPc, job, snapshot, rowsSeen>>
syncVars == <<stripeVars, rowVars, orgLock, requestVars>>

-----------------------------------------------------------------------------
(* Statuses and rows *)

\* A status that is none of these is treated as suspended.
mapStripeStatus(status) ==
    CASE status = "trialing" -> "PRUEBA"
      [] status = "active" -> "ACTIVA"
      [] status \in {"past_due", "incomplete"} -> "PAGO_PENDIENTE"
      [] status = "canceled" -> "CANCELADA"
      [] status = "incomplete_expired" -> "VENCIDA"
      [] OTHER -> "SUSPENDIDA"

Ended(status) == status \in {"canceled", "incomplete_expired"}

ASSUME StatusesAssumption == "none" \notin Statuses

Estados == {"PRUEBA", "ACTIVA", "PAGO_PENDIENTE", "SUSPENDIDA", "CANCELADA", "VENCIDA"}

\* finalized: DFechaFinalizacion is not NULL.
NoRow == [exists |-> FALSE, estado |-> "SUSPENDIDA", finalized |-> FALSE]

Row == [exists : BOOLEAN, estado : Estados, finalized : BOOLEAN]

IsCurrent(rows, s) == rows[s].exists /\ ~rows[s].finalized

\* findFirst on the rows that are not finalized: the one of a subscription, or
\* else of the base plan.
CurrentSubs(rows) == {s \in Subs : IsCurrent(rows, s)}

Current(rows) == IF CurrentSubs(rows) = {} THEN Base ELSE CHOOSE s \in CurrentSubs(rows) : TRUE

NoRows == [s \in Subs |-> NoRow]

NoRowsSeen == [row |-> NoRows, base |-> 0]

Idle == [by |-> "nobody", sub |-> NoSub, event |-> 0]

-----------------------------------------------------------------------------
(* Stripe and the customer *)

Emits(s) ==
    /\ events[s] < MaxEvents
    /\ events' = [events EXCEPT ![s] = @ + 1]
    /\ UNCHANGED done

\* The customer pays in an open checkout: Stripe creates its subscription.
PayCheckout(s, status) ==
    /\ checkout[s] = "open"
    /\ ~Ended(status)
    /\ checkout' = [checkout EXCEPT ![s] = "paid"]
    /\ stripe' = [stripe EXCEPT ![s] = status]
    /\ start' = [start EXCEPT ![s] = Cardinality({u \in Subs : stripe[u] # "none"}) + 1]
    /\ Emits(s)
    /\ UNCHANGED <<rowVars, orgLock, requestVars>>

\* A renewal, a failed charge, a pause, a cancellation; an ended subscription
\* does not come back.
ChangeStatus(s, status) ==
    /\ stripe[s] \notin {"none", status}
    /\ ~Ended(stripe[s])
    /\ stripe' = [stripe EXCEPT ![s] = status]
    /\ Emits(s)
    /\ UNCHANGED <<checkout, start, rowVars, orgLock, requestVars>>

-----------------------------------------------------------------------------
(* Requests *)

Starts(q, task, next) ==
    /\ syncPc[q] = "idle"
    /\ syncPc' = [syncPc EXCEPT ![q] = next]
    /\ job' = [job EXCEPT ![q] = task]
    /\ UNCHANGED <<stripeVars, rowVars, orgLock, snapshot, rowsSeen>>

\* The request ends and forgets what it read.
Ends(q) ==
    /\ syncPc' = [syncPc EXCEPT ![q] = "idle"]
    /\ job' = [job EXCEPT ![q] = Idle]
    /\ snapshot' = [snapshot EXCEPT ![q] = "none"]
    /\ rowsSeen' = [rowsSeen EXCEPT ![q] = NoRowsSeen]

\* Stripe delivers an event that was not processed, maybe again or twice at once.
Webhook(q, s, n) ==
    /\ n <= events[s] /\ n \notin done[s]
    /\ Starts(q, [by |-> "webhook", sub |-> s, event |-> n], "fetch")

\* reconcileCheckoutSession: the customer returns from a checkout he paid.
SuccessPage(q, s) ==
    /\ checkout[s] = "paid"
    /\ Starts(q, [by |-> "page", sub |-> s, event |-> 0], "fetch")

\* refreshOrganizationSubscription: the billing page and, before anything
\* else, a new checkout look at the current row; a base row needs no refresh.
Refresh(q, by) ==
    \/ \E s \in CurrentSubs(row) : Starts(q, [by |-> by, sub |-> s, event |-> 0], "fetch")
    \/ /\ CurrentSubs(row) = {} /\ by = "checkout"
       /\ Starts(q, [by |-> by, sub |-> NoSub, event |-> 0], "check")

\* The subscription as Stripe has it, before the lock is asked for.
retrieveSubscription(q) ==
    /\ syncPc[q] = "fetch"
    /\ snapshot' = [snapshot EXCEPT ![q] = stripe[job[q].sub]]
    /\ syncPc' = [syncPc EXCEPT ![q] = "waiting"]
    /\ UNCHANGED <<stripeVars, rowVars, orgLock, job, rowsSeen>>

\* Mutant: the transaction does not wait for the organization's lock.
LockUnchecked(q) ==
    /\ syncPc[q] = "waiting"
    /\ orgLock' = q
    /\ syncPc' = [syncPc EXCEPT ![q] = "locked"]
    /\ UNCHANGED <<stripeVars, rowVars, job, snapshot, rowsSeen>>

\* One reconciliation at a time per organization.
LockOrganization(q) ==
    /\ syncPc[q] = "waiting"
    /\ orgLock = Nobody
    /\ orgLock' = q
    /\ syncPc' = [syncPc EXCEPT ![q] = "locked"]
    /\ UNCHANGED <<stripeVars, rowVars, job, snapshot, rowsSeen>>

ReadRows(q) ==
    /\ syncPc[q] = "locked"
    /\ rowsSeen' = [rowsSeen EXCEPT ![q] = [row |-> row, base |-> base]]
    /\ syncPc' = [syncPc EXCEPT ![q] = "apply"]
    /\ UNCHANGED <<stripeVars, rowVars, orgLock, job, snapshot>>

\* The row of an existing subscription.  Mutant: a live snapshot revives it.
UpdatedReviving(old, status) ==
    [exists |-> TRUE, estado |-> mapStripeStatus(status), finalized |-> Ended(status)]

\* Mutant: the row of a subscription that is no longer in force is left as it is.
UpdatedOnlyCurrent(old, status) ==
    IF old.finalized THEN old
    ELSE [exists |-> TRUE, estado |-> mapStripeStatus(status), finalized |-> Ended(status)]

\* Once finalized it stays finalized.
Updated(old, status) ==
    [exists |-> TRUE, estado |-> mapStripeStatus(status), finalized |-> old.finalized \/ Ended(status)]

Finalized(old) == [exists |-> old.exists, estado |-> old.estado, finalized |-> TRUE]

\* A current subscription that started later stays current.  Mutant: the last
\* one to arrive wins.
SupersededNever(rows, s) == FALSE

Superseded(rows, s) == Current(rows) # Base /\ start[Current(rows)] > start[s]

\* A first row is created for a live subscription with a known price; any
\* other is ignored.
Creates(q) ==
    LET s == job[q].sub IN
    /\ ~rowsSeen[q].row[s].exists
    /\ ~Ended(snapshot[q]) /\ s \in Sellable /\ ~Superseded(rowsSeen[q].row, s)

\* Of a new subscription, finalizes the current row and creates its own; of a
\* known one, updates its row.
Applied(q) ==
    LET s == job[q].sub
        rows == rowsSeen[q].row
    IN  [u \in Subs |->
            CASE u = s /\ rows[s].exists -> Updated(rows[s], snapshot[q])
              [] u = s /\ Creates(q) -> Updated(NoRow, snapshot[q])
              [] u # s /\ Creates(q) /\ u = Current(rows) -> Finalized(row[u])
              [] OTHER -> row[u]]

\* The base row is the one finalized.
ReplacesBase(q) == Creates(q) /\ Current(rowsSeen[q].row) = Base /\ rowsSeen[q].base > 0

\* ensureBaseSubscription: the subscription ended and no row is current now.
EnsuresBase(q) ==
    LET s == job[q].sub IN
    /\ rowsSeen[q].row[s].exists /\ Ended(snapshot[q])
    /\ CurrentSubs(rowsSeen[q].row) \subseteq {s} /\ rowsSeen[q].base = 0

AppliedBase(q) ==
    CASE ReplacesBase(q) -> base - 1
      [] EnsuresBase(q) -> base + 1
      [] OTHER -> base

\* The commit, which also frees the lock.  The event of a webhook is then
\* processed; a checkout goes on with what the rows say now.
applySubscription(q) ==
    /\ syncPc[q] = "apply"
    /\ row' = Applied(q)
    /\ base' = AppliedBase(q)
    /\ orgLock' = Nobody
    /\ done' = IF job[q].by = "webhook" THEN [done EXCEPT ![job[q].sub] = @ \cup {job[q].event}] ELSE done
    /\ IF job[q].by = "checkout"
       THEN /\ syncPc' = [syncPc EXCEPT ![q] = "check"]
            /\ snapshot' = [snapshot EXCEPT ![q] = "none"]
            /\ rowsSeen' = [rowsSeen EXCEPT ![q] = NoRowsSeen]
            /\ UNCHANGED job
       ELSE Ends(q)
    /\ UNCHANGED <<checkout, stripe, start, events>>

\* "Contratar": an organization whose current row is of Stripe is sent to the
\* portal, any other gets a new checkout.
CheckCurrent(q) ==
    /\ syncPc[q] = "check"
    /\ \/ /\ CurrentSubs(row) = {}
          /\ syncPc' = [syncPc EXCEPT ![q] = "create"]
          /\ UNCHANGED <<job, snapshot, rowsSeen>>
       \/ CurrentSubs(row) # {} /\ Ends(q)
    /\ UNCHANGED <<stripeVars, rowVars, orgLock>>

startCheckout(q, s) ==
    /\ syncPc[q] = "create"
    /\ checkout[s] = "none"
    /\ checkout' = [checkout EXCEPT ![s] = "open"]
    /\ Ends(q)
    /\ UNCHANGED <<stripe, start, events, done, rowVars, orgLock>>

\* The request fails: nothing is written and an event of it is delivered again.
Fail(q) ==
    /\ syncPc[q] # "idle"
    /\ orgLock' = IF orgLock = q THEN Nobody ELSE orgLock
    /\ Ends(q)
    /\ UNCHANGED <<stripeVars, rowVars>>

-----------------------------------------------------------------------------
SyncInit ==
    /\ checkout = [s \in Subs |-> "none"]
    /\ stripe = [s \in Subs |-> "none"]
    /\ start = [s \in Subs |-> 0]
    /\ events = [s \in Subs |-> 0]
    /\ done = [s \in Subs |-> {}]
    /\ row = NoRows
    /\ base = 1
    /\ orgLock = Nobody
    /\ syncPc = [q \in Requests |-> "idle"]
    /\ job = [q \in Requests |-> Idle]
    /\ snapshot = [q \in Requests |-> "none"]
    /\ rowsSeen = [q \in Requests |-> NoRowsSeen]

Stripe ==
    \/ \E s \in Subs, status \in Statuses : PayCheckout(s, status)
    \/ \E s \in Subs, status \in Statuses : ChangeStatus(s, status)

Reconciliation ==
    \/ \E q \in Requests, s \in Subs, n \in 1..MaxEvents : Webhook(q, s, n)
    \/ \E q \in Requests, s \in Subs : SuccessPage(q, s)
    \/ \E q \in Requests, by \in {"page", "checkout"} : Refresh(q, by)
    \/ \E q \in Requests : retrieveSubscription(q)
    \/ \E q \in Requests : LockOrganization(q)
    \/ \E q \in Requests : ReadRows(q)
    \/ \E q \in Requests : applySubscription(q)
    \/ \E q \in Requests : CheckCurrent(q)
    \/ \E q \in Requests, s \in Subs : startCheckout(q, s)
    \/ \E q \in Requests : Fail(q)

SyncNext == Stripe \/ Reconciliation

SyncSpec == SyncInit /\ [][SyncNext]_syncVars

-----------------------------------------------------------------------------
(* Properties *)

Task == [by : {"webhook", "page", "checkout", "nobody"}, sub : Subs \cup {NoSub}, event : 0..MaxEvents]

\* Every row and local has its shape, and the base rows are never fewer than none:
\* the one a new subscription replaces was there.
SyncTypeOK ==
    /\ checkout \in [Subs -> {"none", "open", "paid"}]
    /\ stripe \in [Subs -> Statuses \cup {"none"}]
    /\ start \in [Subs -> Nat]
    /\ events \in [Subs -> 0..MaxEvents]
    /\ done \in [Subs -> SUBSET (1..MaxEvents)]
    /\ row \in [Subs -> Row]
    /\ base \in Nat
    /\ orgLock \in Requests \cup {Nobody}
    /\ syncPc \in [Requests -> {"idle", "fetch", "waiting", "locked", "apply", "check", "create"}]
    /\ job \in [Requests -> Task]
    /\ snapshot \in [Requests -> Statuses \cup {"none"}]
    /\ rowsSeen \in [Requests -> [row : [Subs -> Row], base : Nat]]

\* "An organization has exactly one current row", whatever arrives twice, at
\* once or out of order: never two, of which the unique index would refuse one,
\* and never none, which every screen that asks for the plan would trip over.
OneCurrentRow ==
    \/ base = 1 /\ CurrentSubs(row) = {}
    \/ base = 0 /\ \E s \in Subs : CurrentSubs(row) = {s}

\* Of two live subscriptions the newest one stays in force: one that started
\* earlier never takes the place of it, also when its webhook arrives last.
NewestStays ==
    [][Current(row) # Base /\ Current(row') \notin {Base, Current(row)}
         => start[Current(row')] > start[Current(row)]]_syncVars

\* A request is at work only when no other is: it meets none.
OneAtATime == \A q, r \in Requests : syncPc[q] # "idle" /\ syncPc[r] # "idle" => q = r

\* With every event processed and nobody at work, the rows say what Stripe
\* says, "so the order in which they run (or how many times) does not matter".
SettledAgrees ==
    (/\ \A q \in Requests : syncPc[q] = "idle"
     /\ \A s \in Subs : done[s] = 1..events[s])
    => \A s \in Subs : row[s].exists => row[s].estado = mapStripeStatus(stripe[s])

\* "An organization has one paid subscription at most."
OnePaidSubscription ==
    \A s, u \in Subs :
        stripe[s] # "none" /\ ~Ended(stripe[s]) /\ stripe[u] # "none" /\ ~Ended(stripe[u]) => s = u

\* The abstract life of the plan: one in force, and those that left for good.
Past(rows) == {s \in Subs : rows[s].exists /\ rows[s].finalized}

Plan == INSTANCE CurrentPlan WITH
    current <- Current(row),
    past <- Past(row)

\* The reconciliation implements CurrentPlan.
ImplementsPlan == Plan!Spec
=============================================================================
