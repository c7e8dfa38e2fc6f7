---------------------------- MODULE CurrentPlan ----------------------------
(***************************************************************************)
(* What the reconciliation promises of an organization's plan              *)
(* (subscription-sync.service.ts, docs/COBRO.md): it has exactly one, the  *)
(* free base plan or a paid subscription, and one that has left its place  *)
(* never takes it again.                                                   *)
(***************************************************************************)
CONSTANTS Subs, Base

VARIABLES
    current,    \* the plan in force
    past        \* paid subscriptions that were once in force

vars == <<current, past>>

Init == current = Base /\ past = {}

Left == IF current = Base THEN past ELSE past \cup {current}

\* A new paid subscription takes the place of what there was.
Replace(s) ==
    /\ s \notin past \cup {current}
    /\ current' = s
    /\ past' = Left

\* The paid subscription ends.
End ==
    /\ current # Base
    /\ current' = Base
    /\ past' = Left

Next == End \/ \E s \in Subs : Replace(s)

Spec == Init /\ [][Next]_vars
=============================================================================
