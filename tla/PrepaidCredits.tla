--------------------------- MODULE PrepaidCredits ---------------------------
(***************************************************************************)
(* What the credit ledger promises (credit-rules.ts, docs/COBRO.md): a     *)
(* balance that each paid session raises once by what it sold, that each   *)
(* concluded valuation lowers by one once, and that only a manual          *)
(* adjustment moves otherwise.  Movements, transactions and locks are not  *)
(* part of the promise.                                                    *)
(***************************************************************************)
EXTENDS Integers

CONSTANTS Valuations, References, CreditsOf, Adjustments

VARIABLES
    charged,    \* valuations that have consumed their credit
    paid,       \* Checkout Sessions that have been credited
    balance     \* what the organization has left; negative is owed

vars == <<charged, paid, balance>>

Init == charged = {} /\ paid = {} /\ balance = 0

Charge(v) ==
    /\ v \notin charged
    /\ charged' = charged \cup {v}
    /\ balance' = balance - 1
    /\ UNCHANGED paid

Credit(r) ==
    /\ r \notin paid
    /\ paid' = paid \cup {r}
    /\ balance' = balance + CreditsOf[r]
    /\ UNCHANGED charged

Adjust(n) ==
    /\ balance' = balance + n
    /\ UNCHANGED <<charged, paid>>

Next ==
    \/ \E v \in Valuations : Charge(v)
    \/ \E r \in References : Credit(r)
    \/ \E n \in Adjustments : Adjust(n)

Spec == Init /\ [][Next]_vars
=============================================================================
