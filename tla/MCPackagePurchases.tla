------------------------- MODULE MCPackagePurchases -------------------------
(* Small instances of PackagePurchases: a session of the organization's own  *)
(* and one of somebody else, and one or two requests at a time.              *)
EXTENDS PackagePurchases, TLC

CONSTANTS t1, t2, own, foreign

MCOneRequest == {t1}
MCTwoRequests == {t1, t2}
MCOwnAndForeign == {own, foreign}
MCOwn == {own}
MCNoValuations == {}
MCNoAdjustments == {}
MCCreditsOf == [r \in References |-> 1]

MCSymmetry == Permutations(MCTwoRequests)
=============================================================================
