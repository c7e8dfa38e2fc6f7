---------------------- MODULE SubscriptionSync_proofs ----------------------
(***************************************************************************)
(* Proofs about the reconciliation of an organization's subscription, for  *)
(* any number of requests, checkouts, statuses and events: the organization *)
(* has one current row, and the rows follow CurrentPlan.                   *)
(***************************************************************************)
EXTENDS SubscriptionSync, FiniteSetTheorems, TLAPS

-----------------------------------------------------------------------------
(* The invariant *)

\* A request that reconciles works on a subscription, and a webhook on an event.
Working ==
    \A q \in Requests :
        /\ syncPc[q] \in {"fetch", "waiting", "locked", "apply"} => job[q].sub \in Subs
        /\ job[q].by = "webhook" => job[q].event # 0

\* A request is between its lock and its commit exactly when it has the lock.
OneReconciliation == \A q \in Requests : syncPc[q] \in {"locked", "apply"} <=> orgLock = q

\* The rows a request read under the lock are still the rows when it commits.
RowsAreCurrent ==
    \A q \in Requests : syncPc[q] = "apply" => rowsSeen[q].row = row /\ rowsSeen[q].base = base

\* The inductive invariant: one current row stays one because the commit
\* decides on rows that are still current.
SyncInvariant ==
    /\ SyncTypeOK
    /\ Working
    /\ OneReconciliation
    /\ RowsAreCurrent
    /\ OneCurrentRow

\* Whatever Stripe reports, the row gets one of the states of the catalog.
LEMMA StateType == \A status : mapStripeStatus(status) \in Estados
BY DEF mapStripeStatus, Estados

\* Which row is current: the base plan's only when no subscription's is.
LEMMA CurrentIs ==
    ASSUME NEW rows
    PROVE  /\ CurrentSubs(rows) = {} => Current(rows) = Base
           /\ \A s \in Subs : CurrentSubs(rows) = {s} => Current(rows) = s
           /\ Current(rows) = Base => CurrentSubs(rows) = {}
<1>1. CurrentSubs(rows) # {} => Current(rows) \in CurrentSubs(rows)
  BY DEF Current
<1>2. CurrentSubs(rows) \subseteq Subs
  BY DEF CurrentSubs
<1> QED BY <1>1, <1>2, NamesAssumption DEF Current

\* An organization starts on the base plan, with nothing at Stripe.
LEMMA InitInvariant == SyncInit => SyncInvariant
<1> SUFFICES ASSUME SyncInit PROVE SyncInvariant
  OBVIOUS
<1>1. NoRows \in [Subs -> Row]
  BY DEF NoRows, NoRow, Row, Estados
<1>2. SyncTypeOK
  BY <1>1, MaxEventsAssumption DEF SyncInit, SyncTypeOK, Task, Idle, NoRowsSeen
<1>3. Working /\ OneReconciliation /\ RowsAreCurrent
  BY NobodyAssumption DEF SyncInit, Idle, Working, OneReconciliation, RowsAreCurrent
<1>4. OneCurrentRow
  BY DEF SyncInit, OneCurrentRow, CurrentSubs, IsCurrent, NoRows, NoRow
<1> QED BY <1>2, <1>3, <1>4 DEF SyncInvariant

-----------------------------------------------------------------------------
(* The commit *)

\* What a commit does to the rows: nothing, an update of a row that stays in
\* or out of force, the end of the current subscription, or the replacement of
\* the current row by a new one.
CommitKeeps(q) ==
    /\ CurrentSubs(row') = CurrentSubs(row)
    /\ base' = base
    /\ \A u \in Subs : row'[u].exists = row[u].exists /\ (row'[u].finalized <=> row[u].finalized)

CommitEnds(q) ==
    LET s == job[q].sub IN
    /\ CurrentSubs(row) = {s} /\ CurrentSubs(row') = {}
    /\ base' = 1
    /\ row'[s].exists /\ row'[s].finalized
    /\ \A u \in Subs \ {s} : row'[u] = row[u]

CommitReplaces(q) ==
    LET s == job[q].sub IN
    /\ ~row[s].exists
    /\ CurrentSubs(row') = {s}
    /\ base' = 0
    /\ \A u \in Subs \ {s} : /\ row'[u].exists = row[u].exists
                             /\ row'[u].finalized <=> (row[u].finalized \/ u = Current(row))

\* What a commit does to the current row: nothing, an end, or a replacement by
\* the subscription of the request.
LEMMA CommitCases ==
    ASSUME SyncInvariant, NEW q \in Requests, applySubscription(q)
    PROVE  CommitKeeps(q) \/ CommitEnds(q) \/ CommitReplaces(q)
<1> DEFINE s == job[q].sub
           status == snapshot[q]
<1>1. /\ s \in Subs /\ row \in [Subs -> Row] /\ base \in Nat
      /\ rowsSeen[q].row = row /\ rowsSeen[q].base = base
  BY DEF applySubscription, SyncInvariant, Working, RowsAreCurrent, SyncTypeOK
<1>2. /\ row' = [u \in Subs |->
                   CASE u = s /\ row[s].exists -> Updated(row[s], status)
                     [] u = s /\ Creates(q) -> Updated(NoRow, status)
                     [] u # s /\ Creates(q) /\ u = Current(row) -> Finalized(row[u])
                     [] OTHER -> row[u]]
      /\ base' = CASE ReplacesBase(q) -> base - 1
                   [] EnsuresBase(q) -> base + 1
                   [] OTHER -> base
  BY <1>1 DEF applySubscription, Applied, AppliedBase
<1>3. /\ Creates(q) <=> /\ ~row[s].exists /\ ~Ended(status)
                        /\ s \in Sellable /\ ~Superseded(row, s)
      /\ ReplacesBase(q) <=> Creates(q) /\ Current(row) = Base /\ base > 0
      /\ EnsuresBase(q) <=> /\ row[s].exists /\ Ended(status)
                            /\ CurrentSubs(row) \subseteq {s} /\ base = 0
  BY <1>1 DEF Creates, ReplacesBase, EnsuresBase
<1>4. /\ Updated(row[s], status).exists
      /\ Updated(row[s], status).finalized <=> (row[s].finalized \/ Ended(status))
  BY DEF Updated
<1>5. OneCurrentRow
  BY DEF SyncInvariant
<1>6. CASE ~row[s].exists /\ ~Creates(q)
  <2>1. ~ReplacesBase(q) /\ ~EnsuresBase(q)
    BY <1>3, <1>6
  <2>2. base' = base
    BY <1>2, <2>1
  <2>3. row' = row
    BY <1>1, <1>2, <1>6
  <2> QED BY <2>2, <2>3 DEF CommitKeeps
<1>7. CASE row[s].exists /\ ~IsCurrent(row, s)
  <2>1. row[s].finalized /\ ~Creates(q)
    BY <1>1, <1>3, <1>7 DEF IsCurrent, Row
  <2>2. /\ row'[s].exists /\ row'[s].finalized
        /\ \A u \in Subs \ {s} : row'[u] = row[u]
    BY <1>1, <1>2, <1>4, <1>7, <2>1
  <2>3. CurrentSubs(row') = CurrentSubs(row)
    BY <1>1, <1>7, <2>2 DEF CurrentSubs, IsCurrent
  <2>4. ~EnsuresBase(q) /\ ~ReplacesBase(q)
    BY <1>1, <1>3, <1>5, <1>7, <2>1 DEF OneCurrentRow, CurrentSubs
  <2>5. \A u \in Subs : row'[u].exists = row[u].exists /\ (row'[u].finalized <=> row[u].finalized)
    BY <1>1, <1>7, <2>1, <2>2 DEF Row
  <2> QED BY <1>2, <2>3, <2>4, <2>5 DEF CommitKeeps
<1>8. CASE IsCurrent(row, s)
  <2>1. row[s].exists /\ ~row[s].finalized /\ ~Creates(q)
    BY <1>3, <1>8 DEF IsCurrent
  <2>2. CurrentSubs(row) = {s} /\ base = 0
    BY <1>1, <1>5, <1>8 DEF OneCurrentRow, CurrentSubs
  <2>3. /\ row'[s] = Updated(row[s], status)
        /\ \A u \in Subs \ {s} : row'[u] = row[u]
    BY <1>1, <1>2, <2>1
  <2>4. CASE Ended(status)
    <3>1. EnsuresBase(q) /\ ~ReplacesBase(q)
      BY <1>3, <2>1, <2>2, <2>4
    <3>2. base' = 1
      BY <1>2, <2>2, <3>1
    <3>3. row'[s].exists /\ row'[s].finalized
      BY <1>4, <2>3, <2>4
    <3>4. CurrentSubs(row') = {}
      BY <2>2, <2>3, <3>3 DEF CurrentSubs, IsCurrent
    <3> QED BY <2>2, <2>3, <3>2, <3>3, <3>4 DEF CommitEnds
  <2>5. CASE ~Ended(status)
    <3>1. base' = base
      BY <1>2, <1>3, <2>1, <2>5
    <3>2. row'[s].exists /\ row'[s].finalized = FALSE
      BY <1>4, <2>1, <2>3, <2>5
    <3>3. CurrentSubs(row') = CurrentSubs(row)
      BY <1>1, <2>1, <2>3, <3>2 DEF CurrentSubs, IsCurrent
    <3>4. row[s].exists = TRUE /\ row[s].finalized = FALSE
      BY <1>1, <2>1 DEF Row
    <3>5. row'[s].exists = TRUE
      BY <1>1, <2>3 DEF Updated
    <3>6. \A u \in Subs : row'[u].exists = row[u].exists /\ (row'[u].finalized <=> row[u].finalized)
      BY <2>3, <3>2, <3>4, <3>5
    <3> QED BY <3>1, <3>3, <3>6 DEF CommitKeeps
  <2> QED BY <2>4, <2>5
<1>9. CASE ~row[s].exists /\ Creates(q)
  <2> DEFINE c == Current(row)
  <2>1. ~row[s].exists /\ ~Ended(status) /\ s \notin CurrentSubs(row)
    BY <1>3, <1>9 DEF CurrentSubs, IsCurrent
  <2>2. row'[s].exists /\ ~row'[s].finalized
    BY <1>1, <1>2, <1>9, <2>1 DEF Updated, NoRow
  <2>3. \A u \in Subs \ {s} : row'[u] = IF u = c THEN Finalized(row[u]) ELSE row[u]
    BY <1>1, <1>2, <1>9
  <2>4. \A u \in Subs \ {s} : /\ row'[u].exists = row[u].exists
                              /\ row'[u].finalized <=> (row[u].finalized \/ u = c)
    <3> SUFFICES ASSUME NEW u \in Subs \ {s}
                 PROVE  /\ row'[u].exists = row[u].exists
                        /\ row'[u].finalized <=> (row[u].finalized \/ u = c)
      OBVIOUS
    <3>1. row[u].finalized \in BOOLEAN
      BY <1>1 DEF Row
    <3>2. CASE u = c
      <4>1. row'[u] = Finalized(row[u])
        BY <2>3, <3>2
      <4>2. row'[u].exists = row[u].exists /\ row'[u].finalized = TRUE
        BY <4>1 DEF Finalized
      <4> QED BY <3>2, <4>2
    <3>3. CASE u # c
      BY <2>3, <3>1, <3>3
    <3> QED BY <3>2, <3>3
  <2>5. CASE base = 1 /\ CurrentSubs(row) = {}
    <3>1. c = Base
      BY <2>5, CurrentIs
    <3>2. base' = 0
      BY <1>2, <1>3, <1>9, <2>5, <3>1
    <3>3. CurrentSubs(row') = {s}
      BY <1>1, <2>2, <2>4, <2>5 DEF CurrentSubs, IsCurrent
    <3> QED BY <2>1, <2>4, <3>2, <3>3 DEF CommitReplaces
  <2>6. ASSUME base = 0, NEW k \in Subs, CurrentSubs(row) = {k}
        PROVE  CommitReplaces(q)
    <3>1. c = k /\ c # Base
      BY <2>6, CurrentIs, NamesAssumption
    <3>2. ~ReplacesBase(q) /\ ~EnsuresBase(q)
      BY <1>3, <2>1, <3>1
    <3>3. base' = 0
      BY <1>2, <2>6, <3>2
    <3>4. CurrentSubs(row') = {s}
      BY <1>1, <2>2, <2>4, <2>6, <3>1 DEF CurrentSubs, IsCurrent
    <3> QED BY <2>1, <2>4, <3>3, <3>4 DEF CommitReplaces
  <2> QED BY <1>5, <2>5, <2>6 DEF OneCurrentRow
<1> QED BY <1>6, <1>7, <1>8, <1>9 DEF IsCurrent

\* The commit keeps exactly one row current.
LEMMA CommitOneRow ==
    ASSUME SyncInvariant, NEW q \in Requests, applySubscription(q)
    PROVE  OneCurrentRow'
<1>1. job[q].sub \in Subs /\ OneCurrentRow
  BY DEF applySubscription, SyncInvariant, Working
<1>2. CASE CommitKeeps(q)
  BY <1>1, <1>2 DEF CommitKeeps, OneCurrentRow
<1>3. CASE CommitEnds(q)
  BY <1>1, <1>3 DEF CommitEnds, OneCurrentRow
<1>4. CASE CommitReplaces(q)
  BY <1>1, <1>4 DEF CommitReplaces, OneCurrentRow
<1> QED BY <1>2, <1>3, <1>4, CommitCases

\* The commit leaves rows of their type.
LEMMA CommitTypes ==
    ASSUME SyncInvariant, NEW q \in Requests, applySubscription(q)
    PROVE  row' \in [Subs -> Row] /\ base' \in Nat
<1>1. /\ row \in [Subs -> Row] /\ base \in Nat
      /\ rowsSeen[q].row = row /\ rowsSeen[q].base = base
  BY DEF applySubscription, SyncInvariant, RowsAreCurrent, SyncTypeOK
<1>2. \A old, status : Updated(old, status) \in Row
  <2> SUFFICES ASSUME NEW old, NEW status PROVE Updated(old, status) \in Row
    OBVIOUS
  <2>1. (old.finalized \/ Ended(status)) \in BOOLEAN
    OBVIOUS
  <2> QED BY <2>1, StateType DEF Updated, Row
<1>3. \A u \in Subs : Finalized(row[u]) \in Row
  BY <1>1 DEF Finalized, Row
<1>4. row' \in [Subs -> Row]
  BY <1>1, <1>2, <1>3 DEF applySubscription, Applied
<1>5. base' \in Nat
  BY <1>1 DEF applySubscription, AppliedBase, ReplacesBase
<1> QED BY <1>4, <1>5

-----------------------------------------------------------------------------
(* Every step keeps the invariant *)

\* Every step keeps the invariant; only the commit writes rows, and the rows it
\* decides on are still there.
LEMMA NextInvariant == SyncInvariant /\ [SyncNext]_syncVars => SyncInvariant'
<1> SUFFICES ASSUME SyncInvariant, [SyncNext]_syncVars PROVE SyncInvariant'
  OBVIOUS
<1> USE NobodyAssumption DEF SyncInvariant, stripeVars, rowVars, requestVars
<1>0. UNCHANGED rowVars => OneCurrentRow'
  BY DEF OneCurrentRow, CurrentSubs, IsCurrent
<1>idle. NoRowsSeen \in [row : [Subs -> Row], base : Nat] /\ Idle \in Task
  BY MaxEventsAssumption DEF NoRowsSeen, NoRows, NoRow, Row, Estados, Idle, Task
<1>1. ASSUME NEW s \in Subs, NEW status \in Statuses, PayCheckout(s, status) PROVE SyncInvariant'
  <2>1. Cardinality({u \in Subs : stripe[u] # "none"}) \in Nat
    BY SubsAssumption, FS_Subset, FS_CardinalityType
  <2>2. SyncTypeOK'
    BY <1>1, <2>1, MaxEventsAssumption DEF PayCheckout, Emits, SyncTypeOK
  <2>3. Working' /\ OneReconciliation' /\ RowsAreCurrent' /\ OneCurrentRow'
    BY <1>0, <1>1 DEF PayCheckout, Working, OneReconciliation, RowsAreCurrent
  <2> QED BY <2>2, <2>3
<1>2. ASSUME NEW s \in Subs, NEW status \in Statuses, ChangeStatus(s, status) PROVE SyncInvariant'
  <2>1. SyncTypeOK'
    BY <1>2, MaxEventsAssumption DEF ChangeStatus, Emits, SyncTypeOK
  <2>2. Working' /\ OneReconciliation' /\ RowsAreCurrent' /\ OneCurrentRow'
    BY <1>0, <1>2 DEF ChangeStatus, Working, OneReconciliation, RowsAreCurrent
  <2> QED BY <2>1, <2>2
<1>3. ASSUME NEW q \in Requests, NEW task \in Task, NEW next \in {"fetch", "check"},
             Starts(q, task, next), next = "fetch" => task.sub \in Subs,
             task.by = "webhook" => task.event # 0
      PROVE  SyncInvariant'
  <2>1. SyncTypeOK'
    BY <1>3 DEF Starts, SyncTypeOK
  <2>2. Working' /\ OneReconciliation' /\ RowsAreCurrent' /\ OneCurrentRow'
    BY <1>0, <1>3 DEF Starts, SyncTypeOK, Working, OneReconciliation, RowsAreCurrent
  <2> QED BY <2>1, <2>2
<1>4. ASSUME NEW q \in Requests, NEW s \in Subs, NEW n \in 1..MaxEvents, Webhook(q, s, n) PROVE SyncInvariant'
  <2>1. [by |-> "webhook", sub |-> s, event |-> n] \in Task /\ n # 0
    BY MaxEventsAssumption DEF Task
  <2> QED BY <1>3, <1>4, <2>1 DEF Webhook
<1>5. ASSUME NEW q \in Requests, NEW s \in Subs, SuccessPage(q, s) PROVE SyncInvariant'
  <2>1. [by |-> "page", sub |-> s, event |-> 0] \in Task
    BY MaxEventsAssumption DEF Task
  <2> QED BY <1>3, <1>5, <2>1 DEF SuccessPage
<1>6. ASSUME NEW q \in Requests, NEW by \in {"page", "checkout"}, Refresh(q, by) PROVE SyncInvariant'
  <2>1. \A s \in Subs \cup {NoSub} : [by |-> by, sub |-> s, event |-> 0] \in Task
    BY MaxEventsAssumption DEF Task
  <2>2. CurrentSubs(row) \subseteq Subs
    BY DEF CurrentSubs
  <2> QED BY <1>3, <1>6, <2>1, <2>2 DEF Refresh
<1>7. ASSUME NEW q \in Requests, retrieveSubscription(q) PROVE SyncInvariant'
  <2>1. SyncTypeOK'
    BY <1>7 DEF retrieveSubscription, SyncTypeOK, Working
  <2>2. Working' /\ OneReconciliation' /\ RowsAreCurrent' /\ OneCurrentRow'
    BY <1>0, <1>7 DEF retrieveSubscription, SyncTypeOK, Working, OneReconciliation, RowsAreCurrent
  <2> QED BY <2>1, <2>2
<1>8. ASSUME NEW q \in Requests, LockOrganization(q) PROVE SyncInvariant'
  <2>1. SyncTypeOK'
    BY <1>8 DEF LockOrganization, SyncTypeOK
  <2>2. Working' /\ OneReconciliation' /\ RowsAreCurrent' /\ OneCurrentRow'
    BY <1>0, <1>8 DEF LockOrganization, SyncTypeOK, Working, OneReconciliation, RowsAreCurrent
  <2> QED BY <2>1, <2>2
<1>9. ASSUME NEW q \in Requests, ReadRows(q) PROVE SyncInvariant'
  <2>1. SyncTypeOK'
    BY <1>9 DEF ReadRows, SyncTypeOK
  <2>2. Working' /\ OneReconciliation' /\ RowsAreCurrent' /\ OneCurrentRow'
    BY <1>0, <1>9 DEF ReadRows, SyncTypeOK, Working, OneReconciliation, RowsAreCurrent
  <2> QED BY <2>1, <2>2
<1>10. ASSUME NEW q \in Requests, applySubscription(q) PROVE SyncInvariant'
  <2>1. /\ syncPc[q] = "apply" /\ orgLock' = Nobody /\ orgLock = q
        /\ UNCHANGED <<checkout, stripe, start, events>>
        /\ done' = IF job[q].by = "webhook" THEN [done EXCEPT ![job[q].sub] = @ \cup {job[q].event}] ELSE done
        /\ snapshot' = [snapshot EXCEPT ![q] = "none"]
        /\ rowsSeen' = [rowsSeen EXCEPT ![q] = NoRowsSeen]
    BY <1>10 DEF applySubscription, Ends, OneReconciliation
  <2>2. /\ \/ syncPc' = [syncPc EXCEPT ![q] = "check"]
           \/ syncPc' = [syncPc EXCEPT ![q] = "idle"]
        /\ job' = job \/ job' = [job EXCEPT ![q] = Idle]
    BY <1>10 DEF applySubscription, Ends
  <2>3. SyncTypeOK'
    <3>1. row' \in [Subs -> Row] /\ base' \in Nat
      BY <1>10, CommitTypes
    <3>2. done' \in [Subs -> SUBSET (1..MaxEvents)]
      <4>1. job[q].by = "webhook" => job[q].event \in 1..MaxEvents
        BY MaxEventsAssumption DEF SyncTypeOK, Task, Working
      <4> QED BY <2>1, <4>1 DEF SyncTypeOK
    <3>3. syncPc' \in [Requests -> {"idle", "fetch", "waiting", "locked", "apply", "check", "create"}]
      BY <2>2 DEF SyncTypeOK
    <3>4. job' \in [Requests -> Task]
      BY <1>idle, <2>2 DEF SyncTypeOK
    <3> QED BY <1>idle, <2>1, <3>1, <3>2, <3>3, <3>4 DEF SyncTypeOK
  <2>4. Working'
    <3>1. CASE job' = job
      BY <2>2, <3>1 DEF SyncTypeOK, Working
    <3>2. CASE job' = [job EXCEPT ![q] = Idle]
      BY <2>2, <3>2 DEF SyncTypeOK, Working, Idle
    <3> QED BY <2>2, <3>1, <3>2
  <2>5. OneReconciliation' /\ RowsAreCurrent'
    BY <2>1, <2>2 DEF SyncTypeOK, OneReconciliation, RowsAreCurrent
  <2>6. OneCurrentRow'
    BY <1>10, CommitOneRow
  <2> QED BY <2>3, <2>4, <2>5, <2>6
<1>11. ASSUME NEW q \in Requests, CheckCurrent(q) PROVE SyncInvariant'
  <2>1. /\ syncPc[q] = "check"
        /\ UNCHANGED <<stripeVars, rowVars, orgLock>>
        /\ \/ syncPc' = [syncPc EXCEPT ![q] = "create"] /\ UNCHANGED <<job, snapshot, rowsSeen>>
           \/ Ends(q)
    BY <1>11 DEF CheckCurrent
  <2>2. CASE syncPc' = [syncPc EXCEPT ![q] = "create"] /\ UNCHANGED <<job, snapshot, rowsSeen>>
    BY <1>0, <2>1, <2>2 DEF SyncTypeOK, Working, OneReconciliation, RowsAreCurrent
  <2>3. CASE Ends(q)
    <3>1. SyncTypeOK'
      BY <1>idle, <2>1, <2>3 DEF Ends, SyncTypeOK
    <3>2. Working' /\ OneReconciliation' /\ RowsAreCurrent' /\ OneCurrentRow'
      BY <1>0, <2>1, <2>3 DEF Ends, SyncTypeOK, Working, OneReconciliation, RowsAreCurrent, Idle
    <3> QED BY <3>1, <3>2
  <2> QED BY <2>1, <2>2, <2>3
<1>12. ASSUME NEW q \in Requests, NEW s \in Subs, startCheckout(q, s) PROVE SyncInvariant'
  <2>1. SyncTypeOK'
    BY <1>12, <1>idle DEF startCheckout, Ends, SyncTypeOK
  <2>2. Working' /\ OneReconciliation' /\ RowsAreCurrent' /\ OneCurrentRow'
    BY <1>0, <1>12 DEF startCheckout, Ends, SyncTypeOK, Working, OneReconciliation, RowsAreCurrent, Idle
  <2> QED BY <2>1, <2>2
<1>13. ASSUME NEW q \in Requests, Fail(q) PROVE SyncInvariant'
  <2>1. SyncTypeOK'
    BY <1>13, <1>idle DEF Fail, Ends, SyncTypeOK
  <2>2. Working' /\ OneReconciliation' /\ RowsAreCurrent' /\ OneCurrentRow'
    BY <1>0, <1>13 DEF Fail, Ends, SyncTypeOK, Working, OneReconciliation, RowsAreCurrent, Idle
  <2> QED BY <2>1, <2>2
<1>14. CASE UNCHANGED syncVars
  <2>1. SyncTypeOK' /\ Working' /\ OneReconciliation' /\ RowsAreCurrent'
    BY <1>14 DEF syncVars, SyncTypeOK, Working, OneReconciliation, RowsAreCurrent
  <2> QED BY <1>0, <1>14, <2>1 DEF syncVars
<1> QED BY <1>1, <1>2, <1>4, <1>5, <1>6, <1>7, <1>8, <1>9, <1>10, <1>11, <1>12, <1>13, <1>14
        DEF SyncNext, Stripe, Reconciliation

\* Every reachable state satisfies the inductive invariant.
THEOREM Invariance == SyncSpec => []SyncInvariant
BY InitInvariant, NextInvariant, PTL DEF SyncSpec

\* The rows, the requests and what they read keep their types.
THEOREM TypeCorrect == SyncSpec => []SyncTypeOK
<1>1. SyncInvariant => SyncTypeOK
  BY DEF SyncInvariant
<1> QED BY <1>1, Invariance, PTL

\* An organization has exactly one current row, however many pages, webhooks
\* and checkouts reconcile at once.
THEOREM OneRow == SyncSpec => []OneCurrentRow
<1>1. SyncInvariant => OneCurrentRow
  BY DEF SyncInvariant
<1> QED BY <1>1, Invariance, PTL

-----------------------------------------------------------------------------
(* The rows follow CurrentPlan *)

\* Only a commit writes the rows.
LEMMA OnlyCommitsWrite == [SyncNext]_syncVars => UNCHANGED rowVars \/ \E q \in Requests : applySubscription(q)
BY DEF SyncNext, Stripe, Reconciliation, PayCheckout, ChangeStatus, Webhook, SuccessPage, Refresh, Starts,
       retrieveSubscription, LockOrganization, ReadRows, CheckCurrent, startCheckout, Fail,
       syncVars, rowVars

\* A subscription that leaves its place never takes it again, and nothing but
\* a newer one or its own end makes it leave.
THEOREM Refinement == SyncSpec => ImplementsPlan
<1>1. SyncInit => Plan!Init
  <2> SUFFICES ASSUME SyncInit PROVE Plan!Init
    OBVIOUS
  <2>1. CurrentSubs(row) = {} /\ Past(row) = {}
    BY DEF SyncInit, CurrentSubs, IsCurrent, Past, NoRows, NoRow
  <2> QED BY <2>1, CurrentIs DEF Plan!Init, Past
<1>2. SyncInvariant /\ [SyncNext]_syncVars => [Plan!Next]_(Plan!vars)
  <2> SUFFICES ASSUME SyncInvariant, [SyncNext]_syncVars
               PROVE  Plan!Next \/ (Current(row') = Current(row) /\ Past(row') = Past(row))
    BY DEF Plan!vars
  <2>1. CASE UNCHANGED rowVars
    BY <2>1 DEF rowVars
  <2>2. ASSUME NEW q \in Requests, applySubscription(q)
        PROVE  Plan!Next \/ (Current(row') = Current(row) /\ Past(row') = Past(row))
    <3> DEFINE s == job[q].sub
    <3>1. s \in Subs
      BY <2>2 DEF applySubscription, SyncInvariant, Working
    <3>2. CASE CommitKeeps(q)
      BY <3>2 DEF CommitKeeps, Current, Past
    <3>3. CASE CommitEnds(q)
      <4>1. Current(row) = s /\ Current(row') = Base /\ s # Base
        BY <3>1, <3>3, CurrentIs, NamesAssumption DEF CommitEnds
      <4>2. Past(row') = Past(row) \cup {s}
        BY <3>1, <3>3 DEF CommitEnds, Past
      <4>3. Plan!End
        BY <4>1, <4>2 DEF Plan!End, Plan!Left
      <4> QED BY <4>3 DEF Plan!Next
    <3>4. CASE CommitReplaces(q)
      <4>1. Current(row') = s /\ s # Current(row) /\ s \notin Past(row)
        BY <3>1, <3>4, CurrentIs, NamesAssumption DEF CommitReplaces, Past, Current, CurrentSubs, IsCurrent
      <4>2. Past(row') = IF Current(row) = Base THEN Past(row) ELSE Past(row) \cup {Current(row)}
        <5>1. /\ s \notin Past(row) /\ s \notin Past(row')
              /\ \A u \in Subs \ {s} :
                    u \in Past(row') <=> u \in Past(row) \/ (row[u].exists /\ u = Current(row))
          BY <3>1, <3>4 DEF CommitReplaces, Past, CurrentSubs, IsCurrent
        <5>2. Current(row) # Base => Current(row) \in CurrentSubs(row)
          BY DEF Current
        <5>3. Past(row) \subseteq Subs /\ Past(row') \subseteq Subs
          BY DEF Past
        <5> QED BY <3>1, <4>1, <5>1, <5>2, <5>3, NamesAssumption DEF CurrentSubs, IsCurrent
      <4>3. Plan!Replace(s)
        BY <4>1, <4>2 DEF Plan!Replace, Plan!Left
      <4> QED BY <3>1, <4>3 DEF Plan!Next
    <3> QED BY <2>2, <3>2, <3>3, <3>4, CommitCases
  <2> QED BY <2>1, <2>2, OnlyCommitsWrite
<1> QED BY <1>1, <1>2, Invariance, PTL DEF SyncSpec, ImplementsPlan, Plan!Spec

-----------------------------------------------------------------------------
(* The newest subscription stays *)

Started == {u \in Subs : stripe[u] # "none"}

\* Whatever the rows, the events and the requests speak of has started at Stripe.
Born ==
    /\ \A s \in Subs : /\ checkout[s] = "paid" <=> stripe[s] # "none"
                       /\ events[s] > 0 => stripe[s] # "none"
                       /\ row[s].exists => stripe[s] # "none"
    /\ \A q \in Requests :
          syncPc[q] \in {"fetch", "waiting", "locked", "apply"} => stripe[job[q].sub] # "none"

\* No two subscriptions start at the same time.
StartsDiffer ==
    /\ \A s \in Started : start[s] <= Cardinality(Started)
    /\ \A s, u \in Started : s # u => start[s] # start[u]

\* A commit changes what is known of no subscription but the request's own.
LEMMA CommitBorn ==
    ASSUME SyncInvariant, Born, NEW q \in Requests, applySubscription(q)
    PROVE  Born'
<1>1. job[q].sub \in Subs /\ stripe[job[q].sub] # "none"
  BY DEF applySubscription, SyncInvariant, Working, Born
<1>2. \A s \in Subs : row'[s].exists => row[s].exists \/ s = job[q].sub
  <2>1. CASE CommitKeeps(q)
    BY <2>1 DEF CommitKeeps
  <2>2. CASE CommitEnds(q)
    BY <2>2 DEF CommitEnds
  <2>3. CASE CommitReplaces(q)
    BY <2>3 DEF CommitReplaces
  <2> QED BY <2>1, <2>2, <2>3, CommitCases
<1>3. UNCHANGED <<checkout, stripe, start, events>>
  BY DEF applySubscription
<1>4. \A r \in Requests : syncPc'[r] \in {"fetch", "waiting", "locked", "apply"} => syncPc'[r] = syncPc[r] /\ job'[r] = job[r]
  <2>1. /\ \/ syncPc' = [syncPc EXCEPT ![q] = "check"]
           \/ syncPc' = [syncPc EXCEPT ![q] = "idle"]
        /\ job' = job \/ job' = [job EXCEPT ![q] = Idle]
    BY DEF applySubscription, Ends
  <2> QED BY <2>1 DEF SyncInvariant, SyncTypeOK
<1> QED BY <1>1, <1>2, <1>3, <1>4 DEF Born

\* Every step keeps both: only the payment of a checkout starts a subscription,
\* after all others, and a request works on one it found started.
LEMMA NextBorn ==
    SyncInvariant /\ Born /\ StartsDiffer /\ [SyncNext]_syncVars => Born' /\ StartsDiffer'
<1> SUFFICES ASSUME SyncInvariant, Born, StartsDiffer, [SyncNext]_syncVars PROVE Born' /\ StartsDiffer'
  OBVIOUS
<1> USE StatusesAssumption, MaxEventsAssumption DEF SyncInvariant, SyncTypeOK, stripeVars, rowVars, requestVars
<1>0. UNCHANGED <<stripe, start>> => StartsDiffer'
  BY DEF StartsDiffer, Started
<1>1. ASSUME NEW s \in Subs, NEW status \in Statuses, PayCheckout(s, status) PROVE Born' /\ StartsDiffer'
  <2>1. stripe[s] = "none" /\ status # "none"
    BY <1>1 DEF PayCheckout, Born
  <2>2. stripe' = [stripe EXCEPT ![s] = status] /\ start' = [start EXCEPT ![s] = Cardinality(Started) + 1]
    BY <1>1 DEF PayCheckout, Started
  <2>3. Started' = Started \cup {s} /\ s \notin Started
    BY <2>1, <2>2 DEF Started
  <2>4. IsFiniteSet(Started) /\ Cardinality(Started) \in Nat
    BY SubsAssumption, FS_Subset, FS_CardinalityType DEF Started
  <2>5. Cardinality(Started') = Cardinality(Started) + 1
    BY <2>3, <2>4, FS_AddElement
  <2>6. \A u \in Started : u \in Subs /\ start'[u] = start[u] /\ start[u] \in Nat /\ start[u] <= Cardinality(Started)
    BY <2>2, <2>3 DEF Started, StartsDiffer
  <2>7. start'[s] = Cardinality(Started) + 1
    BY <2>2
  <2>8. StartsDiffer'
    <3>1. \A u \in Started' : start'[u] <= Cardinality(Started')
      BY <2>3, <2>4, <2>5, <2>6, <2>7
    <3>2. \A u, w \in Started' : u # w => start'[u] # start'[w]
      BY <2>3, <2>4, <2>6, <2>7 DEF StartsDiffer
    <3> QED BY <3>1, <3>2 DEF StartsDiffer
  <2>9. Born'
    BY <1>1, <2>1, <2>2 DEF PayCheckout, Emits, Born, Working
  <2> QED BY <2>8, <2>9
<1>2. ASSUME NEW s \in Subs, NEW status \in Statuses, ChangeStatus(s, status) PROVE Born' /\ StartsDiffer'
  <2>1. Started' = Started /\ start' = start
    BY <1>2 DEF ChangeStatus, Started
  <2>2. StartsDiffer'
    BY <2>1 DEF StartsDiffer
  <2>3. Born'
    BY <1>2 DEF ChangeStatus, Emits, Born, Working
  <2> QED BY <2>2, <2>3
<1>3. ASSUME NEW q \in Requests, NEW task, NEW next, Starts(q, task, next),
             next \in {"fetch", "waiting", "locked", "apply"} => stripe[task.sub] # "none"
      PROVE  Born' /\ StartsDiffer'
  BY <1>0, <1>3 DEF Starts, Born
<1>4. ASSUME NEW q \in Requests, NEW s \in Subs, NEW n \in 1..MaxEvents, Webhook(q, s, n)
      PROVE  Born' /\ StartsDiffer'
  <2>1. stripe[s] # "none"
    BY <1>4 DEF Webhook, Born
  <2> QED BY <1>3, <1>4, <2>1 DEF Webhook
<1>5. ASSUME NEW q \in Requests, NEW s \in Subs, SuccessPage(q, s) PROVE Born' /\ StartsDiffer'
  <2>1. stripe[s] # "none"
    BY <1>5 DEF SuccessPage, Born
  <2> QED BY <1>3, <1>5, <2>1 DEF SuccessPage
<1>6. ASSUME NEW q \in Requests, NEW by \in {"page", "checkout"}, Refresh(q, by) PROVE Born' /\ StartsDiffer'
  <2>1. \A s \in CurrentSubs(row) : stripe[s] # "none"
    BY DEF CurrentSubs, IsCurrent, Born
  <2> QED BY <1>3, <1>6, <2>1 DEF Refresh
<1>7. ASSUME NEW q \in Requests, retrieveSubscription(q) PROVE Born' /\ StartsDiffer'
  BY <1>0, <1>7 DEF retrieveSubscription, Born
<1>8. ASSUME NEW q \in Requests, LockOrganization(q) PROVE Born' /\ StartsDiffer'
  BY <1>0, <1>8 DEF LockOrganization, Born
<1>9. ASSUME NEW q \in Requests, ReadRows(q) PROVE Born' /\ StartsDiffer'
  BY <1>0, <1>9 DEF ReadRows, Born
<1>10. ASSUME NEW q \in Requests, applySubscription(q) PROVE Born' /\ StartsDiffer'
  <2>1. UNCHANGED <<stripe, start>>
    BY <1>10 DEF applySubscription
  <2> QED BY <1>0, <1>10, <2>1, CommitBorn
<1>11. ASSUME NEW q \in Requests, CheckCurrent(q) PROVE Born' /\ StartsDiffer'
  BY <1>0, <1>11 DEF CheckCurrent, Ends, Born
<1>12. ASSUME NEW q \in Requests, NEW s \in Subs, startCheckout(q, s) PROVE Born' /\ StartsDiffer'
  BY <1>0, <1>12 DEF startCheckout, Ends, Born
<1>13. ASSUME NEW q \in Requests, Fail(q) PROVE Born' /\ StartsDiffer'
  BY <1>0, <1>13 DEF Fail, Ends, Born
<1>14. CASE UNCHANGED syncVars
  BY <1>0, <1>14 DEF syncVars, Born
<1> QED BY <1>1, <1>2, <1>4, <1>5, <1>6, <1>7, <1>8, <1>9, <1>10, <1>11, <1>12, <1>13, <1>14
        DEF SyncNext, Stripe, Reconciliation

\* An earlier subscription never takes the place of a later one, in whatever
\* order their webhooks and pages arrive.
THEOREM NewestInForce == SyncSpec => NewestStays
<1>1. SyncInit => Born /\ StartsDiffer
  BY DEF SyncInit, Born, StartsDiffer, Started, NoRows, NoRow
<1>2. SyncSpec => [](Born /\ StartsDiffer)
  BY <1>1, NextBorn, Invariance, PTL DEF SyncSpec
<1>3. SyncInvariant /\ Born /\ StartsDiffer /\ [SyncNext]_syncVars =>
         [Current(row) # Base /\ Current(row') \notin {Base, Current(row)}
              => start[Current(row')] > start[Current(row)]]_syncVars
  <2> SUFFICES ASSUME SyncInvariant, Born, StartsDiffer, [SyncNext]_syncVars,
                      Current(row) # Base, Current(row') \notin {Base, Current(row)}
               PROVE  start[Current(row')] > start[Current(row)]
    OBVIOUS
  <2>1. PICK q \in Requests : applySubscription(q)
    BY OnlyCommitsWrite DEF rowVars
  <2> DEFINE s == job[q].sub
             c == Current(row)
  <2>2. s \in Subs /\ stripe[s] # "none" /\ rowsSeen[q].row = row /\ row \in [Subs -> Row] /\ start \in [Subs -> Nat]
    BY <2>1 DEF applySubscription, SyncInvariant, Working, RowsAreCurrent, SyncTypeOK, Born
  <2>3. CommitReplaces(q)
    <3>1. ~CommitKeeps(q)
      BY DEF CommitKeeps, Current
    <3>2. ~CommitEnds(q)
      BY DEF CommitEnds, Current
    <3> QED BY <2>1, <3>1, <3>2, CommitCases
  <2>4. Current(row') = s /\ c \in CurrentSubs(row) /\ s # c
    BY <2>2, <2>3, CurrentIs DEF CommitReplaces, Current
  <2>5. c \in Subs /\ stripe[c] # "none"
    BY <2>4 DEF CurrentSubs, IsCurrent, Born
  <2>6. Creates(q)
    <3>1. ~row[s].exists /\ row'[s].exists
      BY <2>2, <2>3 DEF CommitReplaces, CurrentSubs, IsCurrent
    <3>2. ~Creates(q) => row'[s] = row[s]
      BY <2>1, <2>2, <3>1 DEF applySubscription, Applied
    <3> QED BY <3>1, <3>2
  <2>7. ~(start[c] > start[s])
    BY <2>2, <2>6 DEF Creates, Superseded
  <2>8. start[c] # start[s]
    BY <2>2, <2>4, <2>5 DEF StartsDiffer, Started
  <2> QED BY <2>2, <2>4, <2>5, <2>7, <2>8
<1> QED BY <1>2, <1>3, Invariance, PTL DEF SyncSpec, NewestStays

-----------------------------------------------------------------------------
(* Requests that meet no other *)

\* Events come from what starts and changes at Stripe, and only those are done.
EventsOf(s) ==
    /\ done[s] \subseteq 1..events[s]
    /\ stripe[s] # "none" => events[s] > 0

\* A row that does not say what Stripe says has its last event still to come.
ToldLater(s) == row[s].exists /\ row[s].estado # mapStripeStatus(stripe[s]) => events[s] \notin done[s]

\* So has a status that is no longer what a request read, and it is not the
\* event this request is of.
ReadLater(q) ==
    LET s == job[q].sub IN
    syncPc[q] \in {"fetch", "waiting", "locked", "apply"} =>
        /\ job[q].event <= events[s]
        /\ syncPc[q] # "fetch" /\ snapshot[q] # stripe[s] =>
              events[s] \notin done[s] /\ job[q].event < events[s]

LaterInvariant ==
    /\ \A s \in Subs : EventsOf(s) /\ ToldLater(s)
    /\ \A q \in Requests : ReadLater(q)

\* Something happens to a subscription at Stripe: its event is a new one.
LEMMA NewEvent ==
    ASSUME SyncInvariant, Born, LaterInvariant, NEW s \in Subs, NEW status \in Statuses,
           stripe' = [stripe EXCEPT ![s] = status], Emits(s),
           UNCHANGED <<rowVars, requestVars>>
    PROVE  LaterInvariant'
<1> USE MaxEventsAssumption, StatusesAssumption DEF SyncInvariant, SyncTypeOK
<1>1. /\ events' = [events EXCEPT ![s] = @ + 1] /\ done' = done
      /\ UNCHANGED <<row, base, syncPc, job, snapshot, rowsSeen>>
  BY DEF Emits, rowVars, requestVars
<1>2. \A u \in Subs : events[u] \in Nat /\ done[u] \subseteq 1..events[u]
  BY DEF LaterInvariant, EventsOf
<1>3. events'[s] = events[s] + 1 /\ events'[s] \notin done'[s] /\ stripe'[s] = status
  BY <1>1, <1>2
<1>4. \A u \in Subs : u # s => events'[u] = events[u] /\ stripe'[u] = stripe[u]
  BY <1>1
<1>5. ASSUME NEW u \in Subs PROVE EventsOf(u)' /\ ToldLater(u)'
  <2>1. CASE u = s
    <3>1. done'[s] \subseteq 1..events'[s]
      BY <1>1, <1>2, <1>3
    <3>2. events'[s] > 0
      BY <1>2, <1>3
    <3> QED BY <1>3, <2>1, <3>1, <3>2 DEF EventsOf, ToldLater
  <2>2. CASE u # s
    BY <1>1, <1>4, <2>2 DEF LaterInvariant, EventsOf, ToldLater
  <2> QED BY <2>1, <2>2
<1>6. ASSUME NEW q \in Requests PROVE ReadLater(q)'
  <2>1. CASE syncPc[q] \in {"fetch", "waiting", "locked", "apply"}
    <3>1. job[q].sub \in Subs /\ job[q].event <= events[job[q].sub] /\ job[q].event \in Nat
      BY <2>1 DEF LaterInvariant, ReadLater, Working, Task
    <3>2. CASE job[q].sub = s
      BY <1>1, <1>2, <1>3, <3>1, <3>2 DEF ReadLater
    <3>3. CASE job[q].sub # s
      BY <1>1, <1>4, <3>1, <3>3 DEF LaterInvariant, ReadLater
    <3> QED BY <3>2, <3>3
  <2>2. CASE syncPc[q] \notin {"fetch", "waiting", "locked", "apply"}
    BY <1>1, <2>2 DEF ReadLater
  <2> QED BY <2>1, <2>2
<1> QED BY <1>5, <1>6 DEF LaterInvariant

\* Steps of one request that write no row and process no event.
LEMMA ReadLaterKept ==
    ASSUME LaterInvariant, NEW q \in Requests, UNCHANGED <<stripe, events, done, row>>, ReadLater(q)',
           \A r \in Requests : r # q => syncPc'[r] = syncPc[r] /\ job'[r] = job[r] /\ snapshot'[r] = snapshot[r]
    PROVE  LaterInvariant'
<1>1. ASSUME NEW r \in Requests, r # q PROVE ReadLater(r)'
  BY <1>1 DEF LaterInvariant, ReadLater
<1>2. \A s \in Subs : EventsOf(s)' /\ ToldLater(s)'
  BY DEF LaterInvariant, EventsOf, ToldLater
<1> QED BY <1>1, <1>2 DEF LaterInvariant

\* The commit of a request that meets no other writes what Stripe says, or
\* what is corrected by an event still to come.
LEMMA CommitLater ==
    ASSUME SyncInvariant, Born, LaterInvariant, OneAtATime, NEW q \in Requests, applySubscription(q)
    PROVE  LaterInvariant'
<1> DEFINE s == job[q].sub
<1>1. /\ syncPc[q] = "apply" /\ s \in Subs /\ rowsSeen[q].row = row /\ row \in [Subs -> Row]
      /\ UNCHANGED <<stripe, events>>
      /\ job[q].by = "webhook" => job[q].event \in 1..MaxEvents
  BY MaxEventsAssumption
  DEF applySubscription, SyncInvariant, Working, RowsAreCurrent, SyncTypeOK, Task
<1>2. /\ events[s] \in Nat /\ job[q].event \in Nat /\ job[q].event <= events[s]
      /\ snapshot[q] # stripe[s] => events[s] \notin done[s] /\ job[q].event < events[s]
  BY <1>1, MaxEventsAssumption DEF LaterInvariant, ReadLater, SyncInvariant, SyncTypeOK, Task
<1>3. /\ \A u \in Subs : u # s => done'[u] = done[u]
      /\ done'[s] = IF job[q].by = "webhook" THEN done[s] \cup {job[q].event} ELSE done[s]
  BY <1>1 DEF applySubscription, SyncInvariant, SyncTypeOK
<1>4. /\ row'[s].exists => row'[s].estado = mapStripeStatus(snapshot[q])
      /\ \A u \in Subs : u # s => row'[u].exists = row[u].exists /\ row'[u].estado = row[u].estado
  <2>1. row' = [u \in Subs |->
                  CASE u = s /\ row[s].exists -> Updated(row[s], snapshot[q])
                    [] u = s /\ Creates(q) -> Updated(NoRow, snapshot[q])
                    [] u # s /\ Creates(q) /\ u = Current(row) -> Finalized(row[u])
                    [] OTHER -> row[u]]
    BY <1>1 DEF applySubscription, Applied
  <2>2. \A old : Updated(old, snapshot[q]).estado = mapStripeStatus(snapshot[q])
    BY DEF Updated
  <2>3. \A u \in Subs : Finalized(row[u]).exists = row[u].exists /\ Finalized(row[u]).estado = row[u].estado
    BY DEF Finalized
  <2>4. row'[s].exists => row'[s].estado = mapStripeStatus(snapshot[q])
    BY <1>1, <2>1, <2>2
  <2>5. ASSUME NEW u \in Subs, u # s PROVE row'[u] \in {Finalized(row[u]), row[u]}
    BY <2>1, <2>5
  <2> QED BY <2>3, <2>4, <2>5
<1>5. ASSUME NEW u \in Subs PROVE EventsOf(u)' /\ ToldLater(u)'
  <2>1. CASE u = s
    <3>1. done[s] \subseteq 1..events[s] /\ (stripe[s] # "none" => events[s] > 0)
      BY <1>1 DEF LaterInvariant, EventsOf
    <3>2. done'[s] \subseteq 1..events[s]
      BY <1>1, <1>2, <1>3, <3>1
    <3>3. snapshot[q] # stripe[s] => events[s] \notin done'[s]
      BY <1>2, <1>3
    <3> QED BY <1>1, <1>4, <2>1, <3>1, <3>2, <3>3 DEF EventsOf, ToldLater
  <2>2. CASE u # s
    BY <1>1, <1>3, <1>4, <2>2 DEF LaterInvariant, EventsOf, ToldLater
  <2> QED BY <2>1, <2>2
<1>6. ASSUME NEW r \in Requests PROVE syncPc'[r] \notin {"fetch", "waiting", "locked", "apply"}
  <2>1. syncPc' = [syncPc EXCEPT ![q] = "check"] \/ syncPc' = [syncPc EXCEPT ![q] = "idle"]
    BY DEF applySubscription, Ends
  <2>2. r # q => syncPc[r] = "idle"
    BY <1>1 DEF OneAtATime
  <2> QED BY <2>1, <2>2 DEF SyncInvariant, SyncTypeOK
<1> QED BY <1>5, <1>6 DEF LaterInvariant, ReadLater

\* Every step keeps it as long as the requests do not meet.
LEMMA NextLater ==
    ASSUME SyncInvariant, Born, LaterInvariant, OneAtATime, [SyncNext]_syncVars
    PROVE  LaterInvariant'
<1> USE DEF stripeVars, rowVars, requestVars
<1>t. /\ syncPc \in [Requests -> {"idle", "fetch", "waiting", "locked", "apply", "check", "create"}]
      /\ job \in [Requests -> Task] /\ snapshot \in [Requests -> Statuses \cup {"none"}]
      /\ \A s \in Subs : events[s] \in Nat
  BY MaxEventsAssumption DEF SyncInvariant, SyncTypeOK
<1>1. ASSUME NEW s \in Subs, NEW status \in Statuses, PayCheckout(s, status) \/ ChangeStatus(s, status)
      PROVE  LaterInvariant'
  BY <1>1, NewEvent DEF PayCheckout, ChangeStatus
<1>2. ASSUME NEW q \in Requests, NEW task, NEW next, Starts(q, task, next),
             next \in {"fetch", "check"}, next = "fetch" => task.event <= events[task.sub]
      PROVE  LaterInvariant'
  <2>1. /\ syncPc'[q] = next /\ job'[q] = task /\ UNCHANGED <<stripe, events, done, row>>
        /\ \A r \in Requests : r # q => syncPc'[r] = syncPc[r] /\ job'[r] = job[r] /\ snapshot'[r] = snapshot[r]
    BY <1>t, <1>2 DEF Starts
  <2>2. ReadLater(q)'
    BY <1>2, <2>1 DEF ReadLater
  <2> QED BY <2>1, <2>2, ReadLaterKept
<1>3. ASSUME NEW q \in Requests, NEW s \in Subs, NEW n \in 1..MaxEvents, Webhook(q, s, n)
      PROVE  LaterInvariant'
  BY <1>2, <1>3 DEF Webhook
<1>4. ASSUME NEW q \in Requests, NEW s \in Subs, SuccessPage(q, s) PROVE LaterInvariant'
  BY <1>t, <1>2, <1>4 DEF SuccessPage
<1>5. ASSUME NEW q \in Requests, NEW by \in {"page", "checkout"}, Refresh(q, by) PROVE LaterInvariant'
  <2>1. CurrentSubs(row) \subseteq Subs
    BY DEF CurrentSubs
  <2>2. ASSUME NEW s \in CurrentSubs(row), Starts(q, [by |-> by, sub |-> s, event |-> 0], "fetch")
        PROVE  LaterInvariant'
    <3> DEFINE task == [by |-> by, sub |-> s, event |-> 0]
    <3>1. task.event <= events[task.sub]
      BY <1>t, <2>1
    <3> HIDE DEF task
    <3> QED BY <1>2, <2>2, <3>1 DEF task
  <2>3. ASSUME Starts(q, [by |-> by, sub |-> NoSub, event |-> 0], "check") PROVE LaterInvariant'
    BY <1>2, <2>3
  <2> QED BY <1>5, <2>2, <2>3 DEF Refresh
<1>6. ASSUME NEW q \in Requests, retrieveSubscription(q) PROVE LaterInvariant'
  <2>1. /\ syncPc[q] = "fetch" /\ syncPc'[q] = "waiting" /\ snapshot'[q] = stripe[job[q].sub]
        /\ UNCHANGED <<stripe, events, done, row, job>>
        /\ \A r \in Requests : r # q => syncPc'[r] = syncPc[r] /\ snapshot'[r] = snapshot[r]
    BY <1>t, <1>6 DEF retrieveSubscription
  <2>2. ReadLater(q)'
    BY <2>1 DEF LaterInvariant, ReadLater
  <2> QED BY <2>1, <2>2, ReadLaterKept
<1>7. ASSUME NEW q \in Requests, LockOrganization(q) \/ ReadRows(q) PROVE LaterInvariant'
  <2>1. /\ syncPc[q] \in {"waiting", "locked"} /\ syncPc'[q] \in {"locked", "apply"}
        /\ UNCHANGED <<stripe, events, done, row, job, snapshot>>
        /\ \A r \in Requests : r # q => syncPc'[r] = syncPc[r]
    BY <1>t, <1>7 DEF LockOrganization, ReadRows
  <2>2. ReadLater(q)'
    BY <2>1 DEF LaterInvariant, ReadLater
  <2> QED BY <2>1, <2>2, ReadLaterKept
<1>8. ASSUME NEW q \in Requests, applySubscription(q) PROVE LaterInvariant'
  BY <1>8, CommitLater
<1>9. ASSUME NEW q \in Requests, CheckCurrent(q) \/ Fail(q) \/ \E s \in Subs : startCheckout(q, s)
      PROVE  LaterInvariant'
  <2>1. /\ syncPc'[q] \in {"create", "idle"} /\ UNCHANGED <<stripe, events, done, row>>
        /\ \A r \in Requests : r # q => syncPc'[r] = syncPc[r] /\ job'[r] = job[r] /\ snapshot'[r] = snapshot[r]
    BY <1>t, <1>9 DEF CheckCurrent, Fail, startCheckout, Ends
  <2>2. ReadLater(q)'
    BY <2>1 DEF ReadLater
  <2> QED BY <2>1, <2>2, ReadLaterKept
<1>10. CASE UNCHANGED syncVars
  BY <1>10 DEF syncVars, LaterInvariant, EventsOf, ToldLater, ReadLater
<1> QED BY <1>1, <1>3, <1>4, <1>5, <1>6, <1>7, <1>8, <1>9, <1>10 DEF SyncNext, Stripe, Reconciliation

\* As long as no two requests meet, the rows say what Stripe says as soon as
\* every event is processed, in whatever order events and pages come.
THEOREM AgreesWhenAlone == SyncSpec /\ []OneAtATime => []SettledAgrees
<1>1. SyncInit => Born /\ StartsDiffer /\ LaterInvariant
  BY DEF SyncInit, Born, StartsDiffer, Started, NoRows, NoRow, LaterInvariant, EventsOf, ToldLater, ReadLater
<1>2. SyncInvariant /\ Born /\ LaterInvariant /\ OneAtATime /\ [SyncNext]_syncVars => LaterInvariant'
  BY NextLater
<1>3. SyncInvariant /\ Born /\ LaterInvariant => SettledAgrees
  <2> SUFFICES ASSUME SyncInvariant, Born, LaterInvariant, NEW s \in Subs,
                      done[s] = 1..events[s], row[s].exists
               PROVE  row[s].estado = mapStripeStatus(stripe[s])
    BY DEF SettledAgrees
  <2>1. events[s] \in Nat /\ events[s] > 0
    BY MaxEventsAssumption DEF Born, LaterInvariant, EventsOf, SyncInvariant, SyncTypeOK
  <2>2. events[s] \in done[s]
    BY <2>1
  <2> QED BY <2>2 DEF LaterInvariant, ToldLater
<1> QED BY <1>1, <1>2, <1>3, NextBorn, Invariance, PTL DEF SyncSpec
=============================================================================
