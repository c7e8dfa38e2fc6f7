-------------------------- MODULE ValuationDocument --------------------------
(***************************************************************************)
(* What the workflow promises of a valuation's document (the behaviour     *)
(* tests/integration/valuation-workflow-rules.integration.ts walks         *)
(* through): a draft that is edited, sealed documents that never change    *)
(* again, and a reopening that starts the next draft from the last sealed  *)
(* document.                                                               *)
(***************************************************************************)
EXTENDS Integers

CONSTANTS Valuations, Contents, Sectioned, Signed, MaxVersions, NoDraft

VARIABLES
    sealed,     \* the concluded documents of each valuation, by version number
    draft       \* the document being edited, or NoDraft

vars == <<sealed, draft>>

Rounds(a) == DOMAIN sealed[a]

Init ==
    /\ sealed = [a \in Valuations |-> [n \in {} |-> NoDraft]]
    /\ draft \in [Valuations -> Contents \cup {NoDraft}]

\* A save; the first one of a valuation without a document starts it.
Edit(a, c) ==
    /\ draft[a] # NoDraft \/ Rounds(a) = {}
    /\ draft' = [draft EXCEPT ![a] = c]
    /\ UNCHANGED sealed

\* The draft, complete, becomes the next sealed document.
Conclude(a, n) ==
    /\ draft[a] \in Sectioned \cap Signed
    /\ Rounds(a) = 1..(n - 1)
    /\ sealed' = [sealed EXCEPT ![a] = [i \in 1..n |-> IF i = n THEN draft[a] ELSE sealed[a][i]]]
    /\ draft' = [draft EXCEPT ![a] = NoDraft]

\* The next draft is the last sealed document.
Reopen(a, n) ==
    /\ draft[a] = NoDraft
    /\ n >= 1 /\ Rounds(a) = 1..n
    /\ draft' = [draft EXCEPT ![a] = sealed[a][n]]
    /\ UNCHANGED sealed

Next ==
    \/ \E a \in Valuations, c \in Contents : Edit(a, c)
    \/ \E a \in Valuations, n \in 1..MaxVersions : Conclude(a, n) \/ Reopen(a, n)

Spec == Init /\ [][Next]_vars
=============================================================================
