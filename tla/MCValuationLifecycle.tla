------------------------ MODULE MCValuationLifecycle ------------------------
(* Small instances of ValuationLifecycle: one valuation whose document goes  *)
(* from unsigned to signed and back, a purchase and an organization that is  *)
(* charged or not.                                                           *)
EXTENDS ValuationLifecycle, TLC

CONSTANTS t1, t2, v1, v2, r1, unsigned, signed, unsectioned

MCOneRequest == {t1}
MCTwoRequests == {t1, t2}
MCOneValuation == {v1}
MCTwoValuations == {v1, v2}
MCReferences == {r1}
MCNoReferences == {}
MCCreditsOf == [r \in MCReferences |-> 1]
MCNoCredits == [r \in MCNoReferences |-> 1]
MCNoAdjustments == {}

\* A signed document, one without signatures and one without required sections.
MCContents == {unsigned, signed, unsectioned}
MCTwoContents == {unsigned, signed}
MCSectioned == {unsigned, signed}
MCSigned == {signed}

\* Two requests that are interchangeable.
MCSymmetry == Permutations(MCTwoRequests)

\* The purchase is the first request's and comes before any valuation moves on,
\* so that the ledger has a credit or none when conclusions race.
MCNext ==
    \/ Saves \/ Workflow
    \/ \E m \in Uncharged : (\A a \in Valuations : historial[a] = << >>) /\ LedgerBegin(t1, m)
    \/ \E t \in Tx : LedgerLock(t)
    \/ \E t \in Tx : LedgerRead(t)
    \/ \E t \in Tx : LedgerCommit(t)
    \/ \E on \in BOOLEAN : Enforcement(on)
    \/ \E t \in Tx : Fail(t)

MCFairSpec == Init /\ [][MCNext]_vars /\ Fairness
=============================================================================
