# Verification of Valuaxis

Valuaxis is a Next.js server over PostgreSQL (Prisma) with an editor in the
browser, in which real-estate appraisers write, calculate, conclude and reopen
*avalúos* (valuations), in organizations that pay by subscription and, when the
platform charges per valuation, with prepaid credits bought at Stripe. This
directory holds TLA+ models of the parts in which several requests, people,
Stripe, answers that come late and failures meet, or in which long runs of edits
must keep stored structures together; the TLC configurations that check them; and
proofs that TLAPS checks.

All paths are relative to the repository. `V/` is `src/src/features/valuations/`,
`W/` is `V/services/valuation-workflow/`, `B/` is `src/src/features/billing/`.

1. [The system](#1-the-system): components, state, operations, interactions
2. [The modules](#2-the-modules) and how they correspond to the code
3. [The runs](#3-the-runs): what each asks, its bounds, what it shows
4. [Fairness](#4-fairness)
5. [The proofs](#5-the-proofs)
6. [Where the code and its documentation disagree](#6-where-the-code-and-its-documentation-disagree)
7. [What is abstracted, and what is not modelled](#7-what-is-abstracted-and-what-is-not-modelled)
8. [Plan](#8-plan)

## 1. The system

The server runs in stateless request handlers; its state is in PostgreSQL and at
Stripe. There are no workers and no queues: the interleavings are those of
concurrent requests (two tabs, two people, a webhook and a page) whose queries
run at READ COMMITTED, and the failures are those of a request that stops between
two queries or a transaction that is rolled back. Three things serialize: row
locks until the end of a transaction, unique indexes, and PostgreSQL advisory
locks per organization (one namespace for the ledger, one for the subscription).
The browser keeps the document being edited, its undo history and what it believes
to be saved; its requests are answered late, out of order or never.

| component | state | operations | talks to | must hold |
|---|---|---|---|---|
| **Credit ledger** (`B/credits.service.ts`, `B/credit-rules.ts`) | `MovimientoCreditos` (append-only; the balance is the sum), `Organizacion.BCobroPorAvaluo` | charge a conclusion, credit a purchase, adjust, switch the charge | called inside the transactions of the workflow and by the purchases | one consumption per valuation, one credit per payment, no overdraft while the charge is on |
| **Valuation workflow** (`W/`, `V/calculation/access.ts`, `save-valuation.action.ts`) | `Avaluo` (state, lock, current number, working and final version), `AvaluoVersion`, `EstadoAvaluoHistorial` | save sections, save a calculation, save the valuation's data, conclude, reopen, delete | charges the ledger in the transaction of the conclusion | a concluded document never changes, is charged exactly once, versions form a chain, state and lock agree |
| **Package purchases** (`B/credit-packages.service.ts`, `B/billing-webhook.service.ts`) | `EventoWebhookPago`; Checkout Sessions at Stripe | checkout, webhook, success page | Stripe (events, at least once, in any order), the ledger | what is paid is credited once, what is not paid never; a processed event leaves nothing to do |
| **Subscriptions** (`B/subscription-sync.service.ts`, `B/billing.service.ts`) | `Suscripcion`; subscriptions at Stripe | checkout, reconcile from webhook / success page / billing page | Stripe | exactly one current row per organization, the newest subscription wins, rows say what Stripe says |
| **Team** (`src/src/features/team/team.service.ts`) | members, roles, invitations, active organization of the sessions | make a team, invite, resend, revoke, change a role, remove, accept, switch, log in and out | sessions | the founder administers; nobody joins without the authority of who invited; a session works in the firm only for members |
| **Authentication** (`src/src/features/auth/services/`) | account, its identities, single-use links, sessions | register, prove the email, sign in, recover the password, sign in with Google | e-mail, Google | a link is used once; a password set by a stranger opens nothing; repeated failures lock |
| **Calculation chain** (`V/calculation/`) | captures and stored values of the approaches, comparables, the conclusion | save a capture, the precision, the summary's line; insert, change, delete comparables | runs in the workflow's drafts | what is stored follows from what is captured; which saves may wait for each other, and that no others do |
| **Editor save, autosave and undo** (`V/components/workspace/`) | the document in the tab, history, save status, requests on their way | edit, undo, redo, save, autosave, leave, write the concluded value | the save actions, the conclusion | what is shown as saved is stored; nobody leaves unasked what is not; the dictamen prints the concluded value |
| **Table formulas** (`V/services/table-formula-engine.ts`) | an order of evaluation and results | walk what formulas read, mark cycles, compute | the tables | each formula shows what it gives from what the others show; cycles are told, and only those |
| **Document tables** (`V/services/table.ts`) | columns, zones, header groups, hidden columns | insert, delete, drag, group, hide | the editor | the three lists stay one order; a header is over its column |
| **Document editor model** (`V/services/content-*.ts`, `block-flow.ts`, `V/components/workspace/`) | layouts of rows and columns, the flow of a block, apartados | drop, drag, step, pair, add, remove, duplicate, send elsewhere | the editor | every edit does what it says and moves nothing else |
| Calculation engine | none | decimal arithmetic | the calculation chain | see section 7 |
| Billing catalog and customers, folio and duplication, comparables of the firm, files, firm settings, PDF, AI, maps, notifications, accreditation, dashboard | mirrors at Stripe, one row per request | sync, upload, render, list | external services | see section 7 |

What is hard to test in this code, with its line, is the `hazards` list of
`PROJECT.json`. In short: a row that is read when a request starts and relied on
when it commits (workflow, team, account); the window between "is there a row?"
and its insert (ledger, events, versions); a server that stops between crediting
and marking (webhook); one event delivered twice at once, or two out of order; a
state read from Stripe that is older than what another request has committed
meanwhile; waiting for a lock whose holder fails; answers of a tab's saves that
come after the next edit; a value computed from rows another transaction is
changing; a walk over formulas that must know a cycle when it meets one; edits
computed on structures that earlier edits stored, half stored or left to follow
from the content.

## 2. The modules

| module | models | refines |
|---|---|---|
| `CreditLedger` | the ledger of one organization | `PrepaidCredits` |
| `PrepaidCredits` | what the ledger promises: a balance, who was charged, what was paid | |
| `ValuationLifecycle` | the workflow, composed with the whole ledger | `CreditLedger`, `ValuationDocument` |
| `ValuationDocument` | what the workflow promises: a draft and the sealed documents | |
| `PackagePurchases` | checkout, Stripe's events, webhook and page, composed with the whole ledger | `CreditLedger` |
| `SubscriptionSync` | checkout, Stripe and the reconciliation of one organization | `CurrentPlan` |
| `CurrentPlan` | what the reconciliation promises: one plan in force, none comes back | |
| `TeamMembership` | the team of one firm and the sessions that work in it | |
| `AccountAccess` | one person's ways into their account | |
| `CalculationChain` | captures, values and the chains that recompute them, of one version | |
| `EditorSession` | one tab: document, history, saves, leaving, the concluded value | |
| `FormulaEngine` | the walk over the formulas and their computation | |
| `DocumentTable` | the columns of one table | |
| `ContentLayout`, `BlockFlow` | pure operators: rows and columns of content, the flow of a block | |
| `BlockArrangement` | the edits of a section, over the two | |
| `CreditLedger_proofs`, `ValuationLifecycle_proofs`, `PackagePurchases_proofs`, `SubscriptionSync_proofs`, `Accounts_proofs`, `CalculationChain_proofs`, `EditorSession_proofs`, `Tables_proofs` | the theorems | |
| `MCValuationLifecycle`, `MCPackagePurchases`, `MCSubscriptionSync`, `MCCalculation`, `MCFormulas`, `MCSections` | small instances of one module | |
| `MCBilling`, `MCAccounts`, `MCBrowser`, `MCWorkspace` | small instances of several that share no row: a behaviour is of one and the others rest | |

**A request is a process.** In every module of the server each request has a `pc`,
`step` or `phase`, and locals that hold what it has read (`seen`, `read`,
`snapshot`, `task`, `work`, `noted`). A query whose result is used later is a step
of its own, so that others may commit in between. The writes of a transaction are
one step, its commit, when they depend only on what was read, and until it commits
nobody sees them; where a later query of the same transaction decides (a unique
index, a second look at the row), that is in the guard of the commit or is its own
step. In `CalculationChain`, whose transactions read what others commit while they
run, each statement is a step, with the rows a transaction wrote in `mine` and
held until it ends. `Fail`, `Rollback`, `Crash` or `Interrupt` may end a request
at any point, with nothing of its transaction written.

**CreditLedger.** `Begin` is the request for a movement (`isValidMovement` is in
the set of movements it accepts), `lockCreditLedger` the advisory lock,
`ReadLedger` the lookup of an earlier row, the balance and the switch,
`CommitLedger` the decision (`concludeCreditDecision`), the insert and the release
of the lock. `setCreditEnforcement` is one UPDATE that does *not* take the lock.
The two unique indexes of migration 040 are not used as a guard of the insert:
`UniqueIndexesNeverFire` says that they would never refuse one.

**ValuationLifecycle.** `INSTANCE`s the ledger over the same variables, so that a
conclusion is one transaction of both. Reads: `SectionsRead`, `CalculationRead`
(`writableVersion`, `access.ts`), `MetadataRead` (`saveValuation`, outside its
transaction), `ConcludeRead`, `ReopenRead`. Second looks: `ensureWorkingVersion`,
`ConcludeCheck`. Commits: `writeVersionSections`, `WriteNewVersion`,
`advanceToEditing`, `concludeValuation`, `reopenValuation`, `softDeleteValuation`.
A save into a version that exists writes nothing of the valuation's row, so that no
row lock orders it with a conclusion; the run `late_save` shows what follows. A
valuation starts `Registered` (created with a version) or `Unversioned` (rows of
before the workflow).

**PackagePurchases.** Stripe is external: a session is open, unpaid (a delayed
method) or paid, and each transition sends its event, which may be delivered any
number of times from then on. `FindRecord`, `CreateRecord`, `MarkProcessed` and
`Answer` are the record protocol of `processBillingWebhook` (a P2002 is the second
disjunct of `CreateRecord`); `reconcilePackageCheckout` reads the session from
Stripe and `creditPurchase` commits in the ledger. The success page does the same
without a record. `Ours` says which sessions carry this organization's tags.

**SubscriptionSync.** `retrieveSubscription` reads Stripe *before*
`LockOrganization`; `ReadRows` and `applySubscription` are the transaction
(`Updated`, `Creates`, `Superseded`, `EnsuresBase` are its branches). The partial
unique index on the current row is not a guard either: `OneCurrentRow` says it
would never refuse. A `checkout` request reconciles first, checks for a current
subscription and then starts its session. `base` counts the current base rows, as
a number so that having two of them is a state the model could reach.

**TeamMembership.** Each handler of `team.service.ts` query by query: `Manages` is
the check that opens every administrator's request, then for instance
`InviteCheck`, `Send`/`SendCollides` (the unique index on pending invitations),
`RevokeRead`, `RevokeWrite`, or `MemberRead`, `CountAdministrators`, `ChangeRole`,
and for a removal `Deactivate`, `Fallback`, `MoveSessions`, `EndSessions`, which are
separate statements outside a transaction. An acceptance is `AcceptRead`,
`InviterCheck`, `Claim` (the invitation, atomically), `Membership`. `unlapsed` is a
history variable: who stopped administering while the revocation of their
invitations is still to come.

**AccountAccess.** One account. `RegisterCheck`/`CreateAccount`,
`VerifyRead`, `RevokeLinks`/`CreateLink`, `ResetRead`/`ClaimLink`/`WritePassword`,
`SignInRead`/`Compare` with the failure count, and Google's `StateRead`,
`CompleteState`, `ExchangeCode`, `LinkRead`, `LinkWrite`. A password is named by
what wrote it; `provedBy` and `writes` are history.

**CalculationChain.** A row per approach, per construction section, exclusion list,
precision, summary and comparable, and `beneath` them what a transaction locks
before it comes to the row: the run of the last computation (`EjecucionCalculo`),
with the land for the costs, and the captured costs of the constructions. A save is
`SavesCapture` (its first statement) and then its chain: `Skip`, `Compute` (reads,
deletes the run and computes), `Store` (writes the result), `Commit`; `Compute` and
`Store` wait for whoever has the run or the row. `deleteRun` and
`saveConstructionCosts` are what `deleteMarket` and `saveCostCalculation` still
delete and rewrite before their chain. `recomputeDependents` and
`recomputeMarkets` are the chains of `market.service.ts:446-464`. A value is the
term of all it was computed from, so two are equal only when nothing they depend on
differs: staleness is visible without any arithmetic. `alone`, `overlapped` and
`repaired` are history.

**EditorSession.** `Edit`, `undoEditorChange`, `redoEditorChange` over a history
that keeps `EDITOR_HISTORY_LIMIT` steps; `handleSave`, `autosave` and `SaveFirst`
(the pages that save first) send, `StoreDocument`/`RefuseDocument` is the server's
side, `SaveAnswered`/`SaveFails` the answer, which may find the document changed.
`Leave`, `LeaveUnasked`, `exitWithoutSaving` are the ways out. `onCalculation`,
`ReadConclusion`, `applyConclusion` are the conclusion written into the document.

**FormulaEngine.** `EnterRoot`, `EnterRead`, `FollowRead`, `Leaves` are the turns of
the loop of `orderNodes` with its own stack; `ComputeFormula` one turn of
`evaluateFormulaWorld`. `Needs` and `ReachedBy` (properties only) say what a cycle
is without the walk.

**DocumentTable.** Every operation of `table-editor.tsx` on columns, as functions
of the table (`insertTableColumnBeside`, `removeTableColumn`, `moveTableColumnTo`,
`groupTableHeaders`...) that keep the columns, the zones and the printed header
together. `Only` is the `filter` of a list of columns, a recursive function so that it
can be reasoned about; `Arranged` says which tables there are to edit, and
`TablesAssumption` that the two a behaviour may start from are among them.

**ContentLayout, BlockFlow, BlockArrangement.** The operators are the functions of
the code, on layouts that are stored or follow from the content: `BlockArrangement`
has one action per edit (`Drop`, `DragApartado`, `StepApartado`, `AddConcept`,
`RemoveConcepts`, `DuplicateConcept`, `MoveConceptsTo`, `AddApartado`,
`RemoveApartado`, `DuplicateApartado`, `MoveApartadoTo`). `EditsLandAsTold` compares
every edit possible in a state with what its documentation promises, computed
without the code's index arithmetic. It claims less than everything in three
places, each a named condition: an apartado dragged past a row (`PastARow`, the
finding of `apartados_early`); a removal from a block that stores a flow and not the
layout the flow orders, which numbers the rows anew (`FlowOfNoLayout`); and a copy
in a row that is full, which the code splits. Where a moved column was in the
target row itself, "a new row before" it comes after the items that stay, and
concepts sent away together arrive in layout order, not in the order they were
picked: no document says otherwise, and the properties state what the code does.

## 3. The runs

Twelve runs. `pass` runs finish without an error; a `violation` run checks the one
property that a sentence of the repository states and the code does not keep
(section 6). Components that share no row are in one run, so that each run is one
part of the product as a whole: in `billing`, `accounts`, `browser` and `workspace`
the first state says which of them the behaviour is about.

| run | configuration | asks | states |
|---|---|---|---|
| `billing` | MCBilling | the subscription has one current row, the newest stays, rows agree with Stripe when reconciliations do not meet, implements `CurrentPlan`; the ledger charges and credits nothing twice, no enforced balance is overdrawn, implements `PrepaidCredits` | about 2.0 M |
| `lifecycle_concurrent` | MCLifecycleConcurrent | what holds however two requests interleave: lock ⇔ no draft, versions numbered and chained, a final version ⇔ its credit, only legal uses of the ledger; and every request ends | 382 548 |
| `workspace` | MCWorkspace | the contract of the workflow for requests that do not meet (sealed documents, state agrees with lock, history is a chain, implements `ValuationDocument`); values follow from captures; which saves may wait for each other, over rows and over runs; formulas show what they give and cycles are told; the columns of a table stay one order under their titles | 1 205 266 |
| `accounts` | MCAccounts | the founder administers, sessions are of members, nobody joins without authority, answered invitations stay; a link writes one password, a registered password needs proof | 991 436 |
| `browser` | MCBrowser | what is shown as saved or left unasked is stored, the dictamen prints the concluded value, pending edits get stored; every edit of a section lands as told; only what is paid is credited, once, and in the end | 443 500 |
| `purchases_lost` | MCPurchasesLost | violation: `AckedIsHandled` | – |
| `subscriptions_stale` | MCSubscriptionsStale | violation: `SettledAgrees`, which `billing` checks of requests that do not meet | – |
| `two_subscriptions` | MCTwoSubscriptions | violation: `OnePaidSubscription` | – |
| `late_save` | MCLateSave | violation: `ConcludedIsReadOnly` | – |
| `conclusion_stale` | MCConclusionStale | violation: `ConclusionFollows` | – |
| `circular_unmarked` | MCCircular | violation: `CircularIsReported` | – |
| `apartados_early` | MCApartadosEarly | violation: `ApartadosLandAsTold` | – |

**The instances.** The only bounds on counters are `MaxMovements`, `MaxVersions`,
`MaxEvents`, `MaxRetries`, `MaxEdits`, `MaxValue`, `MaxInserted`, `MaxHidden` and
`MaxArranging`, each a guard of the action that would exceed it (`MaxRetries` and
`EDITOR_HISTORY_LIMIT` are limits of the code, made small).

- *billing*: two subscriptions and two requests of statuses active and canceled
  with two events each (`Meeting`), which lets the old one end before, between and
  after what the new one does; one request with three statuses and three events
  each (`Alone`); three ledger transactions, two valuations, a payment of one
  credit, adjustments −2 and +2 and three rows (`Charging`), which lets both
  valuations and the payment or two adjustments reach the ledger, with one that
  waits while one decides and one rolls back, and a balance of −1, 0 and 1 before
  each conclusion.
- *lifecycle_concurrent*: two interchangeable requests, one valuation, a signed and
  an unsigned document, two versions, two movements: every pair of saves,
  conclusions, reopenings and changes of the switch.
- *workspace*: one request on two valuations with three documents (signed,
  unsigned, without required sections) and three versions, so that a request may
  conclude, reopen and conclude again (`Concluding`); two panels saving at once over
  every approach with two comparables, captures that can be computed or not, from
  versions in step and versions an overlap left behind (`Calculating`), which are
  interchangeable (`MCPanels`); something is found beneath the construction types
  and the summary (`Traced`), where the chains of all the sale markets, the costs and
  the income meet, and the proof has it beneath every table; three
  formulas and every graph of what they read of each other, of a number, a blank
  and a text (`Computing`); a homologation of three columns and a free table of two
  with one inserted and one hidden (`Arranging`).
- *accounts*: the team with three people, two invitations, two sessions and two
  interchangeable requests; the account with three requests, one recovery link, one
  Google sign-in and two sessions, one failure short of the lock. Two requests reach
  every race of two handlers; the third person is who is invited, demoted or
  removed by the others.
- *browser*: two saves and one conclusion in flight, two steps of the user and a
  history of two, so that the oldest step falls out (`Editing`); a plain section
  with two edits and an arranged one, with a full row and a pair of apartados, with
  one (`Arranging`); purchases by one request for an own and a foreign session
  (`Buying`) and by two that meet on the own one (`Racing`).

`CHECK_DEADLOCK FALSE` is set where requests are served once each or edits are
bounded and the system then rests: MCAccounts, MCBrowser, MCWorkspace, MCCircular,
MCConclusionStale, MCApartadosEarly. The others never stop.

**One at a time and two at a time.** `WorkflowContract`, `ImplementsDocument` and
`AloneSettledAgrees` are about requests that do not meet, with failures at any
point. Two that meet break them, because a request that read before a conclusion
commits after it: `late_save` and `subscriptions_stale` are the witnesses, and the
proofs state the exact hypothesis (section 5). What is claimed for any number at
once is what the code really keeps: `LockedIffNoDraft`, `VersionsChained`,
`ChargedIffConcluded`, `OneCurrentRow`, `NewestStays`, `LockOrder` and the
refinements of the ledger and of the plan. `StepsWithCaptures` likewise says what
holds after overlapping saves (what is computed from one row, and everything again
once the precision was changed alone) and what holds only without them.

**Mutants.** Every property of a passing run has, in `PROJECT.json`, a mutation of
a mapped definition (an operator marked "Mutant" beside it in the module) under
which TLC finds it violated: a lock not taken, a check skipped, a field not reset.

## 4. Fairness

Safety is checked without fairness. Liveness assumes:

- `ValuationLifecycle!Fairness`: a request that has started goes on (weak fairness
  of each of its later steps): the server runs it, its transactions have a timeout,
  and nothing else must happen first. The lock is granted under strong fairness,
  because PostgreSQL queues the waiters of an advisory lock, so one that keeps
  waiting while others take and free it is served. `Fail` is not fair: it may
  happen always or never. No user has to start anything. The bound
  `MaxMovements` may hold back a `Begin`; there, and only there, the request fails
  instead.
- `PackagePurchases!Fairness`: a request that has started goes on; failures stop
  some day (a server that fails every time credits nothing, and Stripe gives up);
  Stripe goes on delivering an event while it has no 200 (`SF` on the delivery of
  an event that is not acked). Neither paying nor returning to the page is fair.
- `EditorFairness`: the autosave timer of a tab that stays open fires, and a save
  that was sent is served or fails, and its answer comes or is given up. No user has
  to edit, save or leave.

That two deliveries at once can lose an event is why `PurchaseIsCredited` is about
one request at a time: see `purchases_lost`. Liveness is checked without symmetry.

## 5. The proofs

TLAPS proves, for every value of the constants that the named `ASSUME`s allow
(any number of transactions, valuations, versions, documents, payments, credits per
payment, requests, subscriptions, people, invitations, sessions, links, formulas,
comparables, texts; any bound):

| module | theorem | says |
|---|---|---|
| `CreditLedger_proofs` | `Invariance` | `LedgerInvariant` is inductive and holds always |
| | `TypeCorrect`, `MutualExclusion`, `Currency`, `ChargedAndCreditedOnce` | `TypeOK`, `OneWriter`, `DecisionsAreCurrent`, `UniqueIndexesNeverFire` |
| | `NoOverdraft` | `EnforcedNeverOverdraws`, an action property |
| | `Refinement` | `Spec => ImplementsAccount`: the ledger implements `PrepaidCredits` |
| `ValuationLifecycle_proofs` | `Invariance` | `LifeInvariant` is inductive and holds always |
| | `TypeCorrect`, `LockMatchesDraft`, `Chain`, `ChargeMatchesConclusion` | `TypeOK`, `LockedIffNoDraft`, `VersionsChained`, `ChargedIffConcluded` |
| | `UsesLedger` | the theorems of the ledger hold of the workflow |
| | `TurnsKeep`, `ContractHolds` | while no two requests are at work on one valuation: `WorkflowContract` |
| | `DocumentIsImplemented`, `ConcludedStays` | under the same hypothesis: the workflow implements `ValuationDocument`, and a concluded version is read-only |
| `PackagePurchases_proofs` | `Invariance` | `PurchaseInvariant` is inductive and holds always |
| | `TypeCorrect`, `OnlyPaidIsCredited`, `MarkFollowsCredit` | `TypeOK`, `CreditsArePaidFor`, `ProcessedIsCredited` |
| | `UsesLedger` | the theorems of the ledger hold of the purchases |
| `SubscriptionSync_proofs` | `Invariance` | `SyncInvariant` is inductive and holds always |
| | `TypeCorrect`, `OneRow` | `SyncTypeOK`, `OneCurrentRow` |
| | `NewestInForce` | `NewestStays`, an action property |
| | `Refinement` | `SyncSpec => ImplementsPlan`: the reconciliation implements `CurrentPlan` |
| | `AgreesWhenAlone` | while no two requests meet: `SettledAgrees` |
| `Accounts_proofs` | `TeamInvariantHolds`, `TypeCorrect`, `FounderAlwaysAdministers`, `SessionsAlwaysOfMembers` | the team's inductive invariant, `TeamTypeOK`, `FounderAdministers`, `SessionsOfMembers` |
| | `AlwaysJoinsUnderAuthority`, `SettledAlwaysStays` | `JoinsUnderAuthority`, `SettledStays`, action properties |
| | `AccessKeeps`, `AccountTyped`, `LinkAlwaysWritesOnce`, `RegisteredAlwaysNeedsProof` | the account's inductive invariant, `AccountTypeOK`, `LinkWritesOnce`, `RegisteredNeedsProof` |
| `CalculationChain_proofs` | `ChainsInOrder`, `CalculationTyped`, `LocksAlwaysInOrder` | the inductive invariant of the chains, `CalculationTypeOK`, `LockOrder` |
| | `StepInvariance`, `CapturesAreFollowed` | the inductive invariant of what is stored, `StepsWithCaptures` |
| `EditorSession_proofs` | `EditorKeeps`, `EditorTyped`, `SavedAlwaysStored`, `LeftAlwaysStored`, `AlwaysPrintsConclusion` | the inductive invariant of the tab, `EditorTypeOK`, `SavedIsStored`, `LeftIsStored`, `PrintsConclusionUnlessUndone` |
| `Tables_proofs` | `FormulasInOrder`, `FormulasTyped`, `FormulasShowComputed` | the inductive invariant of the walk, `FormulaTypeOK`, `ShownIsComputed` |
| | `CyclesMarked`, `CyclesAlwaysTold` | the invariant of the marks, `CyclesAreTold` |
| | `TableArranged`, `TableTyped` | `TableInvariant` is inductive and holds always; `TableTypeOK` |
| | `ColumnsHaveOneOrder`, `HeadersOverColumns` | `OneOrder`, `HeaderIsOverItsColumn` |
| | `TitlesAreKept` | `TitlesStay`, an action property |

The assumptions on constants are the named `ASSUME`s of the modules: bounds are
naturals, a null is not one of the values, sets of names are disjoint; where a
number is counted the set is finite (comparables, subscriptions, people); and the
tables there are to edit are arranged (`TablesAssumption`, which the run `workspace`
evaluates on the homologation table that `createHomologationTable` makes and on one
without structure).

**The ledger.** `UniqueIndexesNeverFire` is not inductive: a commit is harmless
only because the row it looked for is still missing. So `LedgerInvariant` adds that
what was read under the lock is still true (`DecisionsAreCurrent`), which needs
that only the holder of the lock is between its lock and its commit (`OneWriter`),
and that a pending movement is one the services write (`Asked`). The proof goes
action by action; only the commit writes rows, and every other transaction is then
not `decided`.

**The balance.** `getCreditBalance` is a recursive function over the rows, and its
value after `Append` needs induction, which the library states with an operator
parameter the provers cannot instantiate. `NatSetInduction` proves the form that can
be cited: a set that contains 0 and the successor of each of its numbers contains
`Nat` (from the well-foundedness of strict inclusion on finite sets).
`RunningTotalExists` and `SameRowsSameTotals` use it to show that the totals exist
and do not depend on later rows; `AppendBalance` (one more row adds its credits) is
then all that `NoOverdraft` and `Refinement` cite.

**The workflow.** No request holds a lock between what it reads and what it
writes, so the proof is about what a stale read may still rely on. `Sound` says of
one valuation that its row and its versions fit together (it contains
`LockedIffNoDraft` and `VersionsChained`, and adds that drafts and finals exist);
`Grows` says what no step undoes: the current number rises, versions are not
removed, a final one stays final. Each commit has a lemma about the row and the
versions it leaves, as data, without any process (`SoundCreate`, `SoundConclude`,
`SoundReopen`). `Relies` is what each request still has of its read at its next
step (a reopening: its number is at most one more than the current one, and the
version it copies is final and earlier); it survives the others' steps because rows
only grow (`ReliesKept`). `ChargedIffConcluded` needs the ledger's
`DecisionsAreCurrent`, which is taken from `CreditLedger_proofs` through an
instance: `LedgerStep` shows that every step of the workflow is one of the ledger,
and the ledger's `NextInvariant` does the rest.

**The workflow, when requests do not meet.** `NoneMeet` says that no two requests
are at work on the same valuation; it is a hypothesis of the behaviour, not of the
constants, so the theorems have the form `Spec /\ []NoneMeet => ...` and hold of any
number of requests on different valuations. The run `late_save` is what happens
without it. `TurnInvariant` says that then the final versions are the first ones,
each carries the hash of what it holds, the draft is the one after them, and what a
request read of its valuation is still so. `ImplementsDocument` follows action by
action: a conclusion seals, a reopening opens the next draft, and every other
commit either rewrites the draft or stutters.

**The purchases.** The webhook and the page read the session at Stripe without any
lock. `Knows` says what each request still knows when it acts: a paid session stays
paid, so a request in the ledger is there for a session that is paid; and a request
that is about to mark the event that announced the payment leaves it credited. An
event that came before the payment may be marked without a credit, and
`DelayedPaymentSucceeds` then makes another event the decisive one, which nobody
has yet received (`Announced`). That is why `ProcessedIsCredited` holds although
two deliveries and the page interleave.

**The reconciliation.** `OneCurrentRow` is a property of the *committed* rows; the
commit decides on rows it read earlier. `SyncInvariant` adds that they are still
the rows (`RowsAreCurrent`), that only the holder of the lock is at work
(`OneReconciliation`), and that what it works on exists (`Working`).
`CommitCases` lists what a commit can do to the rows: nothing to the current
one, replace it by the request's own, or end it and put the base plan back; both
`OneRow` and `Refinement` follow from those cases. `NewestInForce` needs two more
invariants: `Born`, whatever a row, an event or a request speaks of has started at
Stripe; and `StartsDiffer`, no two subscriptions started at the same position (the
position is one more than the number already started, so a cardinality argument).
Without them an older subscription could tie with a newer one and displace it.
`AgreesWhenAlone` has the hypothesis `OneAtATime`, and needs that what the only
request read of Stripe is still so or has an event to come.

**Accounts.** A request of the team acts on rows it read queries earlier. The proof
is that rows change only in ways that keep what each step relies on: `Stable` says
it once for all requests, and each handler's proof only shows its own next step. The
founder stays an administrator because every path that would demote or remove him
is refused on what *cannot* change, his being the founder, and not on the count of
administrators, which two requests may both read before either writes. For the
account, `Later` plays the same part: once there it stays, once proved it stays
proved by whoever proved it; a link is claimed once (`LinkWritesOnce`), and a session
opened with the registered password remembers whose proof let it in.

**The chains.** `Level` numbers the tables in the order the code takes them.
`ChainInvariant` says that the chain of every transaction but the one of the
precision climbs, that what its transaction has written is no higher than what it
has left (`Before`), and that each row has one holder. `BeneathInvariant` says the
same of what is locked beneath the rows: a chain locks the run of a table before the
table's row, so what it has beneath is of tables no higher than the one it is at, and
each run has one that took it.

`LockOrder` is not that nobody ever waits in a circle: the code does not keep that.
A save takes the row of its capture first and the run of its result next
(`conclusion.service.ts:187` and `195`, and so the saves of markets, costs, income,
machinery and statistics), while a chain that comes from elsewhere takes the run
first and the row next (`195` and `206`). So the settings of the conclusion and the
save of any approach that concludes may wait for each other, with nobody changing
the precision; PostgreSQL ends one of the two (`Rollback`). The property names every
such wait and says that there are no others. Its exceptions are:

- a transaction that has the row before the run: a save at its own capture, an empty
  market taken out, or the land market, which concludes twice (`RowBeforeRun`);
- the precision, whose chain goes over the markets and back to the costs;
- the construction types, saved before the costs, which a save of the costs takes the
  other way round;
- two renumberings, which lock comparables in no fixed order.

Each is needed: without any one of them TLC finds the two that wait for each other.
The proof is that outside them each of the two is either at the row of what it
computed (`AtRow`) or at a run beneath it (`AtRun`); in each of the four cases what
one holds is no higher than what it waits for, so both are at the same table, and
there the run is taken before the row: one of them would hold what the other holds.
`LockOrder` is about pairs of requests; longer circles are not stated.

`StepInvariant` is what makes `StepsWithCaptures` inductive. It speaks of the view
of a transaction, what it wrote over what is committed:

- `Told`: in the view of one that met nobody, a value that is fed by other rows is
  what its inputs give or is still in the chain, and so is the conclusion where a
  chain reaches it;
- `Closed`: in a chain, everything a recomputation puts out of step comes after it.
  `ClosedRest` and `ClosedOn` say that this survives a step and holds of two chains
  joined, so each action needs only what its own write puts out of step;
- `Bare`: what is not captured has no value, so a chain may skip it;
- `OwnLast`: of *every* transaction, that a value of machinery or statistics is in
  step with its own capture or in the chain, because its row is locked before it is
  read; this is why `OwnValuesInStep` has no exception for those that meet;
- `Meeting`: who is at work alone is the only one at work, so what it sees is what
  is stored but for its own writes, and its commit stores what it sees;
- `NumbersFollow`: until transactions meet, the comparables of each market have the
  numbers 1..n. An insertion uses n + 1, the number it took in its first
  transaction; a deletion numbers the rest by an injection, which is onto 1..n by
  counting.

The chain of the precision needs none of what was stored before: it starts with
every market captured, the costs, the income and the conclusion in it, and by `Bare`
the other markets have no value to correct, so `Told` holds at once
(`PrecisionMoves`). This is why a change of the precision alone repairs what
transactions that met left behind.

**The tab.** `SavedIsStored` is not inductive: that the answer of a save means that
the text is stored depends on which save is on its way. The invariant says that in
the normal course one save is on its way (`OneSave`), that the status tells with
what is in flight whether the text is the stored one (`StatusTells`), that who left
was at rest (`LeftAtRest`), and that the last conclusion is in the text or still to
arrive (`ConclusionArrives`). The exceptions of the properties (saves that
overlapped, a lost answer, a conclusion undone by the user) are history the model
keeps, because the code does lose track there.

**The formulas.** The stack is a path of reads whose cells are the ones being
visited, what is done was ordered once, after everything it reads that is not
marked, and each result is what the formula gives from the results before it; so
a computed formula never shows a stale value (`ShownIsComputed`). `CycleInv` adds
that each cell on the stack reaches the next ones, that what is marked reaches
itself, and that a computed formula tells of a cycle only where one concerns it.
`CyclesAreTold` follows: a formula no cycle concerns is computed, and one that needs
its own value to be computed shows no number. `circular_unmarked` is what does not.

**The columns.** The columns are stored twice and shown by a third list, and
`OneOrder` alone is not inductive: a move reads the zone of its target, and a
grouping makes new zones of what it finds. `TableInvariant` says that the table is
`Arranged`: no column and no zone is named twice, there is a numbering of the columns
by zone that never falls along the columns (`ZonedBy`), each zone lists exactly the
columns with its number in the table's order, and each column has its cells; and
that the columns inserted so far have the numbers down to `-inserted`, so that the
next one is new.

What a filter, an insertion or a concatenation computes is an induction over data.
It is made in the form of the ledger's: the lengths for which the fact holds are a
set, and `NatSetInduction` shows that the set is all of them. That gives the lemmas
the rest is built from: which members `Only` keeps and that it keeps their order;
that a sequence without repetition is determined by its members and their order, so
that two lists made in different ways are shown equal by comparing both; and that
filters of a list by consecutive numbers, one after another, are the list itself
(`OneOrder`). Then there is one lemma per operation:

- a move or an insertion changes the numbering of one column, and the new numbering
  still never falls, because the column takes the number of the one whose place it
  takes or that it is inserted beside;
- a grouping cuts the columns into runs. The runs are the new zones, and their ids
  differ because a key can come back only in the run after the range, which is the
  one that takes the second new id;
- a deletion filters both lists.

`TitlesAreKept` follows from the same lemmas with the id of the zone over each column
before and after. For `HeadersOverColumns` the header is laid row by row: `Heads`
says that two rows use each other up, cell by cell, over a list of columns; a title
over its columns and columns by themselves do, rows that do can be joined, and the
zones' parts joined are the columns printed.

**Only model-checked**, and why:

- liveness (`EveryRequestEnds`, `PendingIsStored`, `PurchaseIsCredited`): fairness
  and `ENABLED` are outside what TLAPS proves;
- `SectionEditsLandAsTold`: it compares, edit by edit, two ways to compute nested
  lists of rows and columns; the lemmas on flat lists that the tables have would have
  to be made again for these, and that has not been done;
- `BillingTypeOK`, `AccountsTypeOK`, `BrowserTypeOK`, `WorkspaceTypeOK`,
  `AloneSettledAgrees`: defined in the MC modules out of parts; each part that is
  about a module with a proof is proved there (`TypeOK`, `SyncTypeOK`, `TeamTypeOK`,
  `AccountTypeOK`, `CalculationTypeOK`, `EditorTypeOK`, `FormulaTypeOK`,
  `TableTypeOK`, `SettledAgrees`).

## 6. Where the code and its documentation disagree

Seven runs are counterexamples to a sentence of the repository, each quoted in
`PROJECT.json` under `findings`.

- **A concluded document may still change** (`late_save`). A save checks
  `BBloqueado` when it starts (`V/calculation/access.ts:50`) and writes the version
  without a lock on the valuation. Concluding in between seals the version, stores
  its hash, and the save then changes what the hash was taken of.
- **An event acknowledged and lost** (`purchases_lost`). The second of two
  simultaneous deliveries finds the row of the first and is answered 200
  (`B/billing-webhook.service.ts:68`). If the first then fails, it answers 500, but
  Stripe already has a 200 for the event; the purchase is credited only if the
  customer opens the success page.
- **The row keeps an older status** (`subscriptions_stale`). The subscription is
  read from Stripe before the lock is asked for (`B/subscription-sync.service.ts:149`,
  the lock at line 79). The request that read first may commit last.
- **Two paid subscriptions** (`two_subscriptions`). `startCheckout` looks for a
  current subscription, not for an open checkout (`B/billing.service.ts:217`).
- **A conclusion left behind** (`conclusion_stale`). The statistical methods and the
  land rents may be the only line of the summary, and saving them does not conclude
  again.
- **A cycle unmarked** (`circular_unmarked`). A formula that closes a cycle through
  one already done is not marked: `f1 = f2 + f3`, `f2 = f1 + f1`,
  `f3 = IFERROR(f2, 1)` shows 1 in `f3`, which reads itself.
- **An apartado lands early** (`apartados_early`). Dragged down past two rows, an
  apartado that was alone lands one row before the slot (`V/services/block-flow.ts:516`).

## 7. What is abstracted, and what is not modelled

- A version's document is one value in `ValuationLifecycle`, and its hash is the
  document it was taken of (in the code `SHashContenido` is a digest of the
  version's section rows). What concluding requires of it is the two sets
  `Sectioned` and `Signed`. Its tables, formulas, arrangement and calculations have
  modules of their own, related by what they assume of each other and not by rows.
- A Prisma query with `include` is one read, although it issues several SELECTs.
- The list of movements, audit entries, notifications and e-mails are left out: no
  rule depends on them.
- `ValuationLifecycle` leaves out archiving (a flag no rule of the workflow reads)
  and duplication; creation is an initial state.
- `PackagePurchases` leaves out the catalog sync inside the checkout, and what the
  webhook refuses before it looks at a record.
- `SubscriptionSync` treats the webhook's record as one step with its
  reconciliation (the protocol itself is in `PackagePurchases`), and leaves out
  prices, periods, trials, grace days, and subscriptions of other customers, which
  are refused before anything is locked.
- `TeamMembership` has one firm and knows of other organizations only whether a
  person has a space of their own; roles that do not administer are one.
  `AccountAccess` has one account, without rate limits per address.
- `CalculationChain` leaves out the arithmetic of the engine (values are terms),
  formulas typed in fields, photographs and reviews of comparables. Of the locks of a
  transaction it has those on captures, results, comparables, runs and construction
  costs. The other children of an approach are only touched under the approach's own
  row and count with it; the rows of one kind that a statement after another goes
  over count as one (the types of the construction section, the costs of the
  constructions, the runs of one result). Left out are the ratings of the comparables
  (`FactorHomologacion`), the rows and counters of the firm's base, which are taken in
  statements that come before the chain, and the types that a cost capture of an older
  client still carries and creates. What `LockOrder` says is of the locks it has.
- `EditorSession` groups the keystrokes of a step and leaves out scrolling and the
  blocks of the other approaches; `FormulaEngine` keeps the operations that tell the
  kinds of failure apart; `DocumentTable` has no rows or text; the arrangement has no
  styles, widths or links, and blocks do not move as wholes.
- Not modelled: the calculation engine (decimal arithmetic, stateless, with worked
  examples as unit tests), billing catalog and customers, folio and duplication, the
  firm's base of comparables, files, firm settings, PDF, AI, maps, notifications,
  accreditation, dashboard (I/O or one row per request).

## 8. Plan

Done: the ledger, the workflow, purchases and subscriptions with their abstract
specifications; team and account; the calculation chains; the editor's session,
formulas, tables and arrangement; the proofs of section 5.

Next, in this order:

1. The trial periods of `SubscriptionSync`, and the catalog with its idempotency
   keys.
2. The lemmas on flat lists of `Tables_proofs` for rows of columns, and
   `EditsLandAsTold` with them.
