------------------------------ MODULE MCAccounts ------------------------------
(* Small instances of the accounts of people: the team of one firm, or one    *)
(* person getting into their account.  The two share no row that the other's  *)
(* properties are about, so a behaviour is of one side, the other at rest.    *)
EXTENDS TeamMembership, AccountAccess, TLC

CONSTANTS f, b, c, i1, i2, s1, s2, t1, t2, a1, a2, a3, k1, x1, c1, c2

MCUsers == {f, b, c}
MCOwnSpace == {b}
MCInvitations == {i1, i2}
MCSessions == {s1, s2}
MCRequests == {t1, t2}
MCAttempts == {a1, a2, a3}
MCLinks == {k1}
MCSignIns == {x1}
MCCookies == {c1, c2}
MCSymmetry == Permutations(MCRequests)

TeamAtRest ==
    /\ org.scope = "PERSONAL"
    /\ \A i \in Invitations : invitations[i] = NoRow
    /\ \A s \in Sessions : sessions[s] = Closed
    /\ teamPc = [t \in Requests |-> "done"]
    /\ task = [t \in Requests |-> Idle]
    /\ unlapsed = {}

AccountAtRest ==
    /\ account = NoAccount
    /\ links = [k \in Links |-> "none"]
    /\ signIns = [x \in SignIns |-> [state |-> "none", exchanged |-> FALSE]]
    /\ opened = [s \in Cookies |-> "none"]
    /\ step = [t \in Attempts |-> "done"]
    /\ work = [t \in Attempts |-> Nothing]
    /\ writes = [k \in Links |-> 0]
    /\ provedBy = "nobody"

\* The founder and one more person have a session; who has a space of their own
\* does not administer yet, who has none may, and one invitation is free.
TeamStarts ==
    /\ TeamInit
    /\ members[b] \in {NoMember, [role |-> "VALUADOR", active |-> TRUE]}
    /\ members[c].role = "ADMINISTRADOR" => members[c].active
    /\ invitations[i2] = NoRow
    /\ sessions[s1].user = f /\ sessions[s2].user \in {b, c}

MCInit ==
    \/ TeamStarts /\ AccountAtRest
    \/ FirmRow /\ MemberRows /\ (\A u \in Users \ {f} : members[u] = NoMember) /\ InvitationRows /\ SessionRows
         /\ TeamAtRest /\ AccountInit /\ account.failures = (IF account.exists THEN MaxRetries - 1 ELSE 0)

TeamServes == \E t \in Requests : teamPc[t] # "done"

AccountServes == \E t \in Attempts : step[t] # "done"

MCNext ==
    \/ TeamNext /\ TeamServes /\ UNCHANGED accountVars
    \/ AccountNext /\ AccountServes /\ UNCHANGED teamVars

MCSpec == MCInit /\ [][MCNext]_<<teamVars, accountVars>>

\* The types of both components.
AccountsTypeOK == TeamTypeOK /\ AccountTypeOK
=============================================================================
