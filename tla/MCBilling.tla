------------------------------ MODULE MCBilling ------------------------------
(* Small instances of what an organization pays with: its subscription, with  *)
(* two reconciliations that meet and few events or one that meets no other    *)
(* and more events, and its ledger of credits, with three writers, two        *)
(* valuations that compete for the credits of one small purchase and two      *)
(* adjustments.  They share no row, so a behaviour is of one of the three     *)
(* and the others are at rest.                                                *)
EXTENDS MCSubscriptionSync, CreditLedger

CONSTANTS w1, w2, w3, v1, v2, r1, Meeting, Alone, Charging

MCTx == {w1, w2, w3}
MCValuations == {v1, v2}
MCReferences == {r1}
MCCreditsOf == [r \in MCReferences |-> 1]
\* No adjustment looks like a consumption or like the purchase.
MCAdjustments == {-2, 2}

VARIABLE instance

MCInit == SyncInit /\ Init /\ instance \in {Meeting, Alone, Charging} /\ (enforced \/ instance = Charging)

FewEvents == \A s \in Subs : stripe[s] \in MCTwoStatuses \cup {"none"} /\ events[s] < MaxEvents

MCNext ==
    \/ instance = Meeting /\ SyncNext /\ FewEvents' /\ UNCHANGED <<vars, instance>>
    \/ instance = Alone /\ SyncNext /\ syncPc'[q2] = "idle" /\ UNCHANGED <<vars, instance>>
    \/ instance = Charging /\ Next /\ UNCHANGED <<syncVars, instance>>

MCSpec == MCInit /\ [][MCNext]_<<syncVars, vars, instance>>

\* The types of both components.
BillingTypeOK == SyncTypeOK /\ TypeOK

\* A reconciliation that meets no other leaves the rows in agreement with Stripe
\* (subscription-sync.service.ts:84-135).
AloneSettledAgrees == instance = Alone => SettledAgrees
=============================================================================
