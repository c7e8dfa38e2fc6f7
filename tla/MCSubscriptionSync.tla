------------------------ MODULE MCSubscriptionSync ------------------------
(* Small instances of SubscriptionSync: two checkouts of one organization,   *)
(* whose subscriptions become active, past due and canceled.                 *)
EXTENDS SubscriptionSync

CONSTANTS q1, q2, s1, s2

MCOneRequest == {q1}
MCTwoRequests == {q1, q2}
MCSubs == {s1, s2}

\* One status of each kind: in force, unpaid and ended.
MCStatuses == {"active", "past_due", "canceled"}
MCTwoStatuses == {"active", "canceled"}
=============================================================================
