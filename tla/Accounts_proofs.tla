--------------------------- MODULE Accounts_proofs ---------------------------
(***************************************************************************)
(* Proofs about people: the team of a firm, and how one person gets into   *)
(* their account, for any number of people, invitations, sessions, links,  *)
(* sign-ins and requests.                                                  *)
(*                                                                         *)
(* The founder always administers, nobody enters on an invitation whose    *)
(* sender lost his authority and whose invitations were revoked, and a     *)
(* session works in the firm only for who joined it.  What a request read  *)
(* stays true enough because rows only change in the ways Grows allows:    *)
(* that is what Stable says, once for all requests.                        *)
(*                                                                         *)
(* A recovery link writes one password, and a password set by whoever      *)
(* registered the email opens no session before its owner proved it.  A    *)
(* request may act on a row it read long before: it is safe because an     *)
(* account, once there, stays, and once proved stays proved by whoever     *)
(* proved it (Later).                                                      *)
(***************************************************************************)
EXTENDS TeamMembership, AccountAccess, TLAPS


-----------------------------------------------------------------------------
(* The invariant of a team *)

FirmForms ==
    {[scope |-> "PERSONAL", owner |-> Founder, founder |-> NoUser],
     [scope |-> "TEAM", owner |-> NoUser, founder |-> Founder]}

Authority(u) == Administers(u) \/ u \in unlapsed

AuthorityNext(u) == (members'[u].active /\ members'[u].role = "ADMINISTRADOR") \/ u \in unlapsed'

\* The rows: one founder, whom no pending invitation is for, and sessions in the
\* firm only of people who joined.
RowsSound ==
    /\ org \in FirmForms
    /\ Administers(Founder)
    /\ \A u \in Users : members[u].active => members[u].role # "none"
    /\ \A i \in Invitations : invitations[i].state = "pendiente" =>
           invitations[i].to \in Users \ {Founder} /\ invitations[i].by \in Users
    /\ \A s \in Sessions : sessions[s].place = "firm" =>
           sessions[s].user \in Users /\ members[sessions[s].user].role # "none"

Joined(u) == u \in Users /\ members[u].role # "none"

\* What a request works on, at each step.
WorksOn(t) ==
    /\ teamPc[t] \in {"convert", "count"} => task[t].seenOrg \in FirmForms
    /\ teamPc[t] \in {"invite", "role", "remove", "count", "change", "lapse", "fallback", "move", "end", "send"}
         => task[t].member \in Users
    /\ teamPc[t] \in {"send", "change"} => task[t].member # Founder
    /\ teamPc[t] \in {"resend", "revoke", "cancel", "accept", "inviter", "claim"} => task[t].invitation \in Invitations
    /\ teamPc[t] \in {"accept", "inviter", "claim", "membership", "switch", "enter"} => task[t].session \in Sessions
    /\ teamPc[t] \notin {"new", "done"} => task[t].by \in Users

\* What it knows of the rows: its session, the invitation it accepts, and who joined.
KnowsSession(t) ==
    teamPc[t] \in {"accept", "inviter", "claim", "membership", "switch", "enter"} =>
        sessions[task[t].session].user = task[t].by

KnowsInvitation(t) ==
    LET row == invitations[task[t].invitation]
    IN  /\ teamPc[t] \in {"inviter", "claim"} => row.state # "none" /\ row.to = task[t].by
        /\ teamPc[t] = "claim" /\ row.state = "pendiente" => Authority(row.by)

KnowsMember(t) ==
    /\ teamPc[t] \in {"count", "change"} => Joined(task[t].member)
    /\ teamPc[t] = "move" /\ task[t].place = "firm" => Joined(task[t].member)
    /\ teamPc[t] \in {"enter", "open"} /\ task[t].place = "firm" => Joined(task[t].by)

Knows(t) == WorksOn(t) /\ KnowsSession(t) /\ KnowsInvitation(t) /\ KnowsMember(t)

TeamInvariant == TeamTypeOK /\ RowsSound /\ \A t \in Requests : Knows(t)

\* How the rows change under a request that is not looking.
Grows ==
    /\ \A u \in Users : members[u].role # "none" => members'[u].role # "none"
    /\ \A i \in Invitations : invitations[i].state # "none" =>
         /\ invitations'[i].state # "none"
         /\ invitations'[i].to = invitations[i].to /\ invitations'[i].by = invitations[i].by
         /\ invitations'[i].state = "pendiente" =>
              /\ invitations[i].state = "pendiente"
              /\ Authority(invitations[i].by) => AuthorityNext(invitations[i].by)
    /\ \A s \in Sessions : sessions[s].user \in Users => sessions'[s].user = sessions[s].user

\* What a request knows stays true while the rows only grow, whoever takes the step.
LEMMA Stable ==
    ASSUME NEW t \in Requests, TeamTypeOK, Knows(t), Grows, teamPc'[t] = teamPc[t], task'[t] = task[t]
    PROVE  Knows(t)'
<1>1. WorksOn(t)'
  BY DEF Knows, WorksOn
<1>2. KnowsSession(t)'
  BY DEF Knows, WorksOn, KnowsSession, Grows
<1>3. KnowsMember(t)'
  BY DEF Knows, KnowsMember, Joined, Grows
<1>4. KnowsInvitation(t)'
  <2> SUFFICES ASSUME NEW i, i = task[t].invitation, i = task'[t].invitation,
                      teamPc[t] \in {"inviter", "claim"}
               PROVE  /\ invitations'[i].state # "none" /\ invitations'[i].to = task[t].by
                      /\ teamPc[t] = "claim" /\ invitations'[i].state = "pendiente" => AuthorityNext(invitations'[i].by)
    BY DEF KnowsInvitation, AuthorityNext, Authority, Administers
  <2>1. i \in Invitations /\ invitations[i].state # "none" /\ invitations[i].to = task[t].by
    BY DEF Knows, WorksOn, KnowsInvitation
  <2>2. invitations'[i].state # "none" /\ invitations'[i].to = task[t].by /\ invitations'[i].by = invitations[i].by
    BY <2>1 DEF Grows
  <2>3. ASSUME teamPc[t] = "claim", invitations'[i].state = "pendiente" PROVE AuthorityNext(invitations[i].by)
    <3>1. invitations[i].state = "pendiente" /\ (Authority(invitations[i].by) => AuthorityNext(invitations[i].by))
      BY <2>1, <2>3 DEF Grows
    <3> QED BY <2>3, <3>1 DEF Knows, KnowsInvitation
  <2> QED BY <2>2, <2>3
<1> QED BY <1>1, <1>2, <1>3, <1>4 DEF Knows

\* A step of one request that only lets the rows grow leaves the others' knowledge.
LEMMA OthersKnow ==
    ASSUME NEW t \in Requests, TeamInvariant, Grows, NEW p, NEW w,
           teamPc' = [teamPc EXCEPT ![t] = p], task' = [task EXCEPT ![t] = w], Knows(t)'
    PROVE  \A r \in Requests : Knows(r)'
<1> SUFFICES ASSUME NEW r \in Requests PROVE Knows(r)'
  OBVIOUS
<1>1. CASE r = t
  BY <1>1
<1>2. CASE r # t
  <2>1. teamPc'[r] = teamPc[r] /\ task'[r] = task[r]
    BY <1>2 DEF TeamInvariant, TeamTypeOK
  <2> QED BY <2>1, Stable DEF TeamInvariant
<1> QED BY <1>1, <1>2

\* Nothing is required of a request that is over.
LEMMA DoneKnows ==
    ASSUME NEW t \in Requests, TeamTypeOK, RequestEnds(t)
    PROVE  /\ Knows(t)'
           /\ teamPc' = [teamPc EXCEPT ![t] = "done"] /\ task' = [task EXCEPT ![t] = Idle]
           /\ teamPc' \in [Requests -> Steps] /\ task' \in [Requests -> Task]
<1>1. teamPc'[t] = "done"
  BY DEF RequestEnds, TeamTypeOK
<1>2. Idle \in Task
  BY DEF Idle, Task, NoOrganization, Organization, Roles, Places
<1>3. "done" \in Steps
  BY DEF Steps
<1>4. Knows(t)'
  BY <1>1 DEF Knows, WorksOn, KnowsSession, KnowsInvitation, KnowsMember
<1> QED BY <1>2, <1>3, <1>4 DEF RequestEnds, TeamTypeOK

\* A step that writes no row keeps what others know.
LEMMA StaysGrows ==
    ASSUME UNCHANGED <<rowVars, unlapsed>>, TeamTypeOK, RowsSound
    PROVE  Grows /\ RowsSound'
<1>1. UNCHANGED <<org, members, invitations, sessions, unlapsed>>
  BY DEF rowVars
<1>2. RowsSound'
  BY <1>1 DEF RowsSound, Administers
<1>3. Grows
  BY <1>1 DEF Grows, Authority, AuthorityNext, Administers
<1> QED BY <1>2, <1>3

\* A refusal keeps the invariant.
LEMMA RefusedKeeps ==
    ASSUME TeamInvariant, NEW t \in Requests, RequestRefused(t)
    PROVE  TeamInvariant'
<1>1. RequestEnds(t) /\ UNCHANGED <<rowVars, unlapsed>>
  BY DEF RequestRefused
<1>2. Grows /\ RowsSound'
  BY <1>1, StaysGrows DEF TeamInvariant
<1>3. Knows(t)' /\ teamPc' = [teamPc EXCEPT ![t] = "done"] /\ task' = [task EXCEPT ![t] = Idle]
      /\ teamPc' \in [Requests -> Steps] /\ task' \in [Requests -> Task]
  BY <1>1, DoneKnows DEF TeamInvariant
<1>4. \A r \in Requests : Knows(r)'
  BY <1>2, <1>3, OthersKnow
<1>5. TeamTypeOK'
  BY <1>1, <1>3 DEF TeamInvariant, TeamTypeOK, rowVars
<1> QED BY <1>2, <1>4, <1>5 DEF TeamInvariant

\* A request that reads and goes on: what it now knows is enough.
LEMMA NotesKeeps ==
    ASSUME TeamInvariant, NEW t \in Requests, NEW next \in Steps, NEW doing \in Task,
           Notes(t, next, doing),
           teamPc'[t] = next /\ task'[t] = doing => Knows(t)'
    PROVE  TeamInvariant'
<1>1. UNCHANGED <<rowVars, unlapsed>> /\ teamPc' = [teamPc EXCEPT ![t] = next] /\ task' = [task EXCEPT ![t] = doing]
  BY DEF Notes
<1>2. Grows /\ RowsSound'
  BY <1>1, StaysGrows DEF TeamInvariant
<1>3. TeamTypeOK'
  BY <1>1 DEF TeamInvariant, TeamTypeOK, rowVars
<1>4. teamPc'[t] = next /\ task'[t] = doing
  BY <1>1 DEF TeamInvariant, TeamTypeOK
<1>5. \A r \in Requests : Knows(r)'
  BY <1>1, <1>2, <1>4, OthersKnow
<1> QED BY <1>2, <1>3, <1>5 DEF TeamInvariant

\* A check that lets a request pass leaves its notes as they are.
LEMMA PassesNotes ==
    ASSUME TeamTypeOK, NEW t \in Requests, NEW next, Passes(t, next)
    PROVE  Notes(t, next, task[t]) /\ task[t] \in Task
BY DEF Passes, GoesOn, Notes, TeamTypeOK

\* Rows of the right types.
RowsTyped ==
    /\ org \in Organization
    /\ members \in [Users -> Member]
    /\ invitations \in [Invitations -> Invitation]
    /\ sessions \in [Sessions -> Session]
    /\ unlapsed \subseteq Users

\* A step that writes rows and ends, or goes on.
LEMMA EndsKeeps ==
    ASSUME TeamInvariant, NEW t \in Requests, RequestEnds(t), Grows, RowsSound', RowsTyped'
    PROVE  TeamInvariant'
<1>1. Knows(t)' /\ teamPc' = [teamPc EXCEPT ![t] = "done"] /\ task' = [task EXCEPT ![t] = Idle]
      /\ teamPc' \in [Requests -> Steps] /\ task' \in [Requests -> Task]
  BY DoneKnows DEF TeamInvariant
<1>2. \A r \in Requests : Knows(r)'
  BY <1>1, OthersKnow
<1>3. TeamTypeOK'
  BY <1>1 DEF TeamTypeOK, RowsTyped
<1> QED BY <1>2, <1>3 DEF TeamInvariant

\* A step of one request that keeps what it knows keeps the invariant.
LEMMA GoesOnKeeps ==
    ASSUME TeamInvariant, NEW t \in Requests, NEW next \in Steps, GoesOn(t, next), Grows, RowsSound', RowsTyped',
           teamPc'[t] = next /\ task'[t] = task[t] => Knows(t)'
    PROVE  TeamInvariant'
<1>1. teamPc' = [teamPc EXCEPT ![t] = next] /\ task' = [task EXCEPT ![t] = task[t]]
      /\ teamPc' \in [Requests -> Steps] /\ task' \in [Requests -> Task] /\ teamPc'[t] = next /\ task'[t] = task[t]
  BY DEF GoesOn, TeamInvariant, TeamTypeOK
<1>2. \A r \in Requests : Knows(r)'
  BY <1>1, OthersKnow
<1>3. TeamTypeOK'
  BY <1>1 DEF TeamTypeOK, RowsTyped
<1> QED BY <1>2, <1>3 DEF TeamInvariant

\* A step outside the requests keeps the invariant.
LEMMA OutsideKeeps ==
    ASSUME TeamInvariant, UNCHANGED requestVars, Grows, RowsSound', RowsTyped'
    PROVE  TeamInvariant'
<1>1. teamPc' = teamPc /\ task' = task
  BY DEF requestVars
<1>2. \A r \in Requests : Knows(r)'
  BY <1>1, Stable DEF TeamInvariant
<1>3. TeamTypeOK'
  BY <1>1 DEF TeamInvariant, TeamTypeOK, RowsTyped
<1> QED BY <1>2, <1>3 DEF TeamInvariant

\* A request that starts: what it is about is enough.
LEMMA StartsKeeps ==
    ASSUME TeamInvariant, NEW t \in Requests, NEW next \in Steps, NEW doing \in Task,
           Starts(t, next, doing),
           teamPc'[t] = next /\ task'[t] = doing => Knows(t)'
    PROVE  TeamInvariant'
BY NotesKeeps DEF Starts, Notes

-----------------------------------------------------------------------------
(* How each kind of row may change *)

\* Only invitations change: those that were pending may end, and authority is kept
\* wherever one goes on pending.
LEMMA InvitationsGrow ==
    ASSUME TeamInvariant, UNCHANGED <<org, members, sessions>>, unlapsed' \subseteq Users,
           invitations' \in [Invitations -> Invitation],
           \A i \in Invitations :
               \/ invitations'[i] = invitations[i]
                  /\ (invitations[i].state = "pendiente" /\ invitations[i].by \in unlapsed => invitations[i].by \in unlapsed')
               \/ /\ invitations[i].state = "none" /\ invitations'[i].state = "pendiente"
                  /\ invitations'[i].to \in Users \ {Founder} /\ invitations'[i].by \in Users
               \/ /\ invitations'[i].state \in {"aceptada", "cancelada"}
                  /\ invitations'[i].to = invitations[i].to /\ invitations'[i].by = invitations[i].by
    PROVE  Grows /\ RowsSound' /\ RowsTyped'
<1>1. RowsTyped'
  BY DEF TeamInvariant, TeamTypeOK, RowsTyped
<1>2. RowsSound'
  BY DEF TeamInvariant, RowsSound, Administers
<1>3. ASSUME NEW i \in Invitations, invitations[i].state # "none"
      PROVE  /\ invitations'[i].state # "none"
             /\ invitations'[i].to = invitations[i].to /\ invitations'[i].by = invitations[i].by
             /\ invitations'[i].state = "pendiente" =>
                  /\ invitations[i].state = "pendiente"
                  /\ Authority(invitations[i].by) => AuthorityNext(invitations[i].by)
  BY <1>3 DEF Authority, AuthorityNext, Administers
<1>4. Grows
  BY <1>3 DEF Grows
<1> QED BY <1>1, <1>2, <1>4

\* Revoking invitations touches only those still pending.
LEMMA RevokedRows ==
    ASSUME TeamTypeOK, NEW rows
    PROVE  /\ Revoked(rows) \in [Invitations -> Invitation]
           /\ \A i \in Invitations :
                  IF i \in rows
                    THEN /\ Revoked(rows)[i].state = "cancelada"
                         /\ Revoked(rows)[i].to = invitations[i].to /\ Revoked(rows)[i].by = invitations[i].by
                    ELSE Revoked(rows)[i] = invitations[i]
<1>1. ASSUME NEW i \in Invitations
      PROVE  /\ [invitations[i] EXCEPT !.state = "cancelada"] \in Invitation
             /\ [invitations[i] EXCEPT !.state = "cancelada"].state = "cancelada"
             /\ [invitations[i] EXCEPT !.state = "cancelada"].to = invitations[i].to
             /\ [invitations[i] EXCEPT !.state = "cancelada"].by = invitations[i].by
             /\ invitations[i] \in Invitation
  <2>1. invitations[i] \in Invitation
    BY DEF TeamTypeOK
  <2> QED BY <2>1 DEF Invitation
<1>2. \A i \in Invitations : Revoked(rows)[i] =
         IF i \in rows THEN [invitations[i] EXCEPT !.state = "cancelada"] ELSE invitations[i]
  BY DEF Revoked
<1>3. Revoked(rows) \in [Invitations -> Invitation]
  BY <1>1 DEF Revoked
<1> QED BY <1>1, <1>2, <1>3

\* Only the row of one person changes, to that of someone who joined, and whoever
\* stops administering is noted.
LEMMA MembersGrow ==
    ASSUME TeamInvariant, NEW u \in Users \ {Founder}, NEW row \in Member, row.role # "none",
           members' = [members EXCEPT ![u] = row], Unlapse(members'), UNCHANGED <<org, sessions>>,
           invitations' \in [Invitations -> Invitation],
           \A i \in Invitations :
               \/ invitations'[i] = invitations[i]
               \/ /\ invitations'[i].state = "aceptada"
                  /\ invitations'[i].to = invitations[i].to /\ invitations'[i].by = invitations[i].by
    PROVE  Grows /\ RowsSound' /\ RowsTyped'
<1>1. members' \in [Users -> Member] /\ members'[u] = row /\ \A v \in Users \ {u} : members'[v] = members[v]
  BY DEF TeamInvariant, TeamTypeOK
<1>2. unlapsed' \subseteq Users /\ \A v \in Users : Authority(v) => AuthorityNext(v)
  BY DEF Unlapse, Authority, AuthorityNext
<1>3. RowsTyped'
  BY <1>1, <1>2 DEF TeamInvariant, TeamTypeOK, RowsTyped
<1>4. \A v \in Users : (members[v].role # "none" => members'[v].role # "none")
                       /\ (members'[v].active => members'[v].role # "none")
  BY <1>1 DEF TeamInvariant, RowsSound
<1>5. members'[Founder].active /\ members'[Founder].role = "ADMINISTRADOR"
  BY <1>1, FounderAssumption DEF TeamInvariant, RowsSound, Administers
<1>6. RowsSound'
  <2>1. \A i \in Invitations : invitations'[i].state = "pendiente" =>
           invitations'[i].to \in Users \ {Founder} /\ invitations'[i].by \in Users
    BY DEF TeamInvariant, RowsSound
  <2>2. \A s \in Sessions : sessions'[s].place = "firm" =>
           sessions'[s].user \in Users /\ members'[sessions'[s].user].role # "none"
    BY <1>4 DEF TeamInvariant, RowsSound
  <2> QED BY <1>4, <1>5, <2>1, <2>2 DEF TeamInvariant, RowsSound, Administers
<1>7. ASSUME NEW i \in Invitations, invitations[i].state # "none"
      PROVE  /\ invitations'[i].state # "none"
             /\ invitations'[i].to = invitations[i].to /\ invitations'[i].by = invitations[i].by
             /\ invitations'[i].state = "pendiente" =>
                  /\ invitations[i].state = "pendiente"
                  /\ Authority(invitations[i].by) => AuthorityNext(invitations[i].by)
  BY <1>7, <1>2 DEF TeamInvariant, RowsSound
<1>8. Grows
  BY <1>4, <1>7 DEF Grows
<1> QED BY <1>3, <1>6, <1>8

\* Only sessions change: each keeps its person, a new one is somebody's, and who
\* works in the firm joined it.
LEMMA SessionsGrow ==
    ASSUME TeamInvariant, UNCHANGED <<org, members, invitations, unlapsed>>,
           sessions' \in [Sessions -> Session],
           \A s \in Sessions :
               /\ sessions[s].user \in Users => sessions'[s].user = sessions[s].user
               /\ sessions'[s].place = "firm" =>
                      \/ sessions[s].place = "firm" /\ sessions'[s].user = sessions[s].user
                      \/ Joined(sessions'[s].user)
    PROVE  Grows /\ RowsSound' /\ RowsTyped'
<1>1. RowsTyped'
  BY DEF TeamInvariant, TeamTypeOK, RowsTyped
<1>2. RowsSound'
  BY DEF TeamInvariant, RowsSound, Joined, Administers
<1>3. Grows
  BY DEF Grows, Authority, AuthorityNext, Administers
<1> QED BY <1>1, <1>2, <1>3

-----------------------------------------------------------------------------
(* The invariant holds at first and after each step *)

\* The team at rest satisfies the invariant.
LEMMA InitInvariant == TeamInit => TeamInvariant
<1> SUFFICES ASSUME TeamInit PROVE TeamInvariant
  OBVIOUS
<1>1. org \in FirmForms /\ org \in Organization /\ members[Founder] = [role |-> "ADMINISTRADOR", active |-> TRUE]
  BY FounderAssumption DEF TeamInit, FirmRow, FirmForms, Organization, MemberRows
<1>2. members \in [Users -> Member] /\ \A u \in Users : members[u].active => members[u].role # "none"
  <2>1. members \in [Users -> {NoMember} \cup [role : Roles, active : BOOLEAN]]
    BY DEF TeamInit, MemberRows
  <2>2. ASSUME NEW u \in Users PROVE members[u] \in Member /\ (members[u].active => members[u].role # "none")
    <3>1. members[u] = NoMember \/ members[u] \in [role : Roles, active : BOOLEAN]
      BY <2>1
    <3>2. CASE members[u] = NoMember
      BY <3>2 DEF Member, NoMember
    <3>3. CASE members[u] \in [role : Roles, active : BOOLEAN]
      BY <3>3 DEF Member, Roles
    <3> QED BY <3>1, <3>2, <3>3
  <2> QED BY <2>1, <2>2
<1>3. ASSUME NEW i \in Invitations
      PROVE  /\ invitations[i] \in Invitation
             /\ invitations[i].state = "pendiente" =>
                  invitations[i].to \in Users \ {Founder} /\ invitations[i].by \in Users
  <2>1. CASE invitations[i] = NoRow
    BY <2>1 DEF NoRow, Invitation, Roles
  <2>2. CASE invitations[i] \in [state : {"pendiente"}, expired : BOOLEAN, to : {u \in Users : ~Belongs(u)},
                                 role : Roles, by : Administrators, acceptedBy : {NoUser}]
    <3> PICK row \in [state : {"pendiente"}, expired : BOOLEAN, to : {u \in Users : ~Belongs(u)},
                      role : Roles, by : Administrators, acceptedBy : {NoUser}] : row = invitations[i]
      BY <2>2
    <3>1. ~members[row.to].active /\ row.to \in Users /\ row.by \in Users
      BY DEF Administrators, Belongs
    <3>2. row.to # Founder
      BY <1>1, <3>1
    <3>3. row \in Invitation
      BY <3>1 DEF Invitation
    <3> QED BY <3>1, <3>2, <3>3
  <2> QED BY <2>1, <2>2 DEF TeamInit, InvitationRows
<1>4. invitations \in [Invitations -> Invitation]
  BY <1>3 DEF TeamInit, InvitationRows
<1>5. ASSUME NEW s \in Sessions
      PROVE  /\ sessions[s] \in Session
             /\ sessions[s].place = "firm" => sessions[s].user \in Users /\ members[sessions[s].user].role # "none"
  <2>1. CASE sessions[s] = Closed
    BY <2>1 DEF Closed, Session, Places
  <2>2. CASE sessions[s] \in {[user |-> u, place |-> resolveDefaultOrganization(u), open |-> TRUE] :
                                u \in {v \in Users : HasPlace(v)}}
    <3>1. PICK u \in Users : sessions[s] = [user |-> u, place |-> resolveDefaultOrganization(u), open |-> TRUE]
      BY <2>2
    <3>2. sessions[s].user = u /\ sessions[s].place = resolveDefaultOrganization(u) /\ sessions[s] \in Session
      BY <3>1 DEF Session, Places, resolveDefaultOrganization
    <3> QED BY <1>2, <3>2 DEF resolveDefaultOrganization, Belongs
  <2> QED BY <2>1, <2>2 DEF TeamInit, SessionRows
<1>6. sessions \in [Sessions -> Session]
  BY <1>5 DEF TeamInit, SessionRows
<1>7. teamPc \in [Requests -> Steps] /\ task \in [Requests -> Task] /\ unlapsed \subseteq Users
  BY DEF TeamInit, Steps, Idle, Task, NoOrganization, Organization, Roles, Places
<1>8. TeamTypeOK
  BY <1>1, <1>2, <1>4, <1>6, <1>7 DEF TeamTypeOK
<1>9. RowsSound
  BY <1>1, <1>2, <1>3, <1>5 DEF RowsSound, Administers
<1>10. \A t \in Requests : Knows(t)
  BY DEF TeamInit, Knows, WorksOn, KnowsSession, KnowsInvitation, KnowsMember
<1> QED BY <1>8, <1>9, <1>10 DEF TeamInvariant


\* A request that has not started has a task of the right shape.
LEMMA IdleTask == Idle \in Task
BY DEF Idle, Task, NoOrganization, Organization, Roles, Places

\* A request of the team's page that starts keeps the invariant,
LEMMA ManagesKeeps ==
    ASSUME TeamInvariant, NEW t \in Requests, NEW s \in Sessions,
           NEW op \in {"settings", "invite", "resend", "revoke", "role", "remove"},
           NEW member \in Users \cup {NoUser}, NEW role \in Roles, NEW i \in Invitations \cup {NoInvitation},
           op \in {"invite", "role", "remove"} => member \in Users,
           op \in {"resend", "revoke"} => i \in Invitations,
           Manages(t, s, op, member, role, i)
    PROVE  TeamInvariant'
<1>1. LetIn(s) /\ sessions[s].user \in Users
  BY DEF Manages, LetIn, TeamInvariant, RowsSound
<1> DEFINE doing == [Idle EXCEPT !.op = op, !.by = sessions[s].user, !.session = s,
                                !.member = member, !.role = role, !.invitation = i]
<1>2. Starts(t, op, doing)
  BY DEF Manages
<1>3. doing \in Task
  BY <1>1, IdleTask DEF Task
<1>4. /\ doing.by = sessions[s].user /\ doing.session = s /\ doing.member = member /\ doing.invitation = i
      /\ op \in Steps
  BY IdleTask DEF Task, Steps
<1> HIDE DEF doing
<1>5. teamPc'[t] = op /\ task'[t] = doing => Knows(t)'
  BY <1>1, <1>4 DEF Knows, WorksOn, KnowsSession, KnowsInvitation, KnowsMember
<1> QED BY <1>2, <1>3, <1>4, <1>5, StartsKeeps

\* whatever it asks.
LEMMA ManagementRequestKeeps ==
    ASSUME TeamInvariant, NEW t \in Requests, NEW s \in Sessions, ManagementRequest(t, s)
    PROVE  TeamInvariant'
<1>1. CASE SettingsRequest(t, s)
  BY <1>1, ManagesKeeps DEF SettingsRequest, Roles
<1>2. CASE \E u \in Users, r \in Roles : InviteRequest(t, s, u, r)
  BY <1>2, ManagesKeeps DEF InviteRequest
<1>3. CASE \E u \in Users, r \in Roles : RoleRequest(t, s, u, r)
  BY <1>3, ManagesKeeps DEF RoleRequest
<1>4. CASE \E u \in Users : RemoveRequest(t, s, u)
  BY <1>4, ManagesKeeps DEF RemoveRequest, Roles
<1>5. CASE \E i \in Invitations : ResendRequest(t, s, i)
  BY <1>5, ManagesKeeps DEF ResendRequest, Roles
<1>6. CASE \E i \in Invitations : RevokeRequest(t, s, i)
  BY <1>6, ManagesKeeps DEF RevokeRequest, Roles
<1> QED BY <1>1, <1>2, <1>3, <1>4, <1>5, <1>6 DEF ManagementRequest

\* A session in use is a person's.
LEMMA SignedInUser ==
    ASSUME TeamInvariant, NEW s \in Sessions, SignedIn(s)
    PROVE  sessions[s].user \in Users
BY OwnSpaceAssumption DEF TeamInvariant, RowsSound, SignedIn

\* A request of a person about himself keeps the invariant,
LEMMA PersonRequestKeeps ==
    ASSUME TeamInvariant, NEW t \in Requests, NEW s \in Sessions, PersonRequest(t, s)
    PROVE  TeamInvariant'
<1>1. CASE \E i \in Invitations : AcceptRequest(t, s, i)
  <2> PICK i \in Invitations : AcceptRequest(t, s, i)
    BY <1>1
  <2>1. SignedIn(s)
    BY DEF AcceptRequest
  <2>2. sessions[s].user \in Users
    BY <2>1, SignedInUser
  <2> DEFINE doing == [Idle EXCEPT !.op = "accept", !.by = sessions[s].user, !.session = s, !.invitation = i]
  <2>3. Starts(t, "accept", doing)
    BY DEF AcceptRequest
  <2>4. doing \in Task /\ doing.by = sessions[s].user /\ doing.session = s /\ doing.invitation = i
        /\ "accept" \in Steps
    BY <2>2, IdleTask DEF Task, Places, Steps
  <2> HIDE DEF doing
  <2>5. teamPc'[t] = "accept" /\ task'[t] = doing => Knows(t)'
    <3>1. sessions' = sessions
      BY <2>3 DEF Starts, rowVars
    <3> QED BY <2>2, <2>4, <3>1 DEF Knows, WorksOn, KnowsSession, KnowsInvitation, KnowsMember
  <2> QED BY <2>3, <2>4, <2>5, StartsKeeps
<1>2. CASE \E place \in Places : SwitchRequest(t, s, place)
  <2> PICK place \in Places : SwitchRequest(t, s, place)
    BY <1>2
  <2>1. SignedIn(s)
    BY DEF SwitchRequest
  <2>2. sessions[s].user \in Users
    BY <2>1, SignedInUser
  <2> DEFINE doing == [Idle EXCEPT !.op = "switch", !.by = sessions[s].user, !.session = s, !.place = place]
  <2>3. Starts(t, "switch", doing)
    BY DEF SwitchRequest
  <2>4. doing \in Task /\ doing.by = sessions[s].user /\ doing.session = s
        /\ "switch" \in Steps
    BY <2>2, IdleTask DEF Task, Places, Steps
  <2> HIDE DEF doing
  <2>5. teamPc'[t] = "switch" /\ task'[t] = doing => Knows(t)'
    <3>1. sessions' = sessions
      BY <2>3 DEF Starts, rowVars
    <3> QED BY <2>2, <2>4, <3>1 DEF Knows, WorksOn, KnowsSession, KnowsInvitation, KnowsMember
  <2> QED BY <2>3, <2>4, <2>5, StartsKeeps
<1> QED BY <1>1, <1>2 DEF PersonRequest

\* and so does a login.
LEMMA LoginRequestKeeps ==
    ASSUME TeamInvariant, NEW t \in Requests, NEW u \in Users, LoginRequest(t, u)
    PROVE  TeamInvariant'
<1> DEFINE doing == [Idle EXCEPT !.op = "login", !.by = u]
<1>1. Starts(t, "login", doing)
  BY DEF LoginRequest
<1>2. doing \in Task /\ doing.by = u /\ "login" \in Steps
  BY IdleTask DEF Task, Steps
<1> HIDE DEF doing
<1>3. teamPc'[t] = "login" /\ task'[t] = doing => Knows(t)'
  BY <1>2 DEF Knows, WorksOn, KnowsSession, KnowsInvitation, KnowsMember
<1> QED BY <1>1, <1>2, <1>3, StartsKeeps


\* The steps that only read.
LEMMA ReadKeeps ==
    ASSUME TeamInvariant, NEW t \in Requests, NEW next \in Steps, Passes(t, next),
           teamPc'[t] = next /\ task'[t] = task[t] /\ UNCHANGED <<rowVars, unlapsed>> => Knows(t)'
    PROVE  TeamInvariant'
<1>1. Notes(t, next, task[t]) /\ task[t] \in Task /\ UNCHANGED <<rowVars, unlapsed>>
  BY PassesNotes DEF TeamInvariant, Passes
<1> QED BY <1>1, NotesKeeps

\* The steps of the settings keep the invariant,
LEMMA SettingsStepKeeps ==
    ASSUME TeamInvariant, NEW t \in Requests, SettingsStep(t)
    PROVE  TeamInvariant'
<1> USE DEF TeamInvariant
<1>1. CASE ReadSettings(t)
  <2> DEFINE doing == [task[t] EXCEPT !.seenOrg = org]
  <2>1. Notes(t, "convert", doing) /\ teamPc[t] = "settings"
    BY <1>1 DEF ReadSettings
  <2>2. doing \in Task /\ doing.seenOrg = org /\ doing.by = task[t].by /\ "convert" \in Steps
    BY DEF TeamTypeOK, Task, Steps
  <2> HIDE DEF doing
  <2>3. teamPc'[t] = "convert" /\ task'[t] = doing => Knows(t)'
    BY <2>1, <2>2 DEF RowsSound, Knows, WorksOn, KnowsSession, KnowsInvitation, KnowsMember
  <2> QED BY <2>1, <2>2, <2>3, NotesKeeps
<1>2. CASE WriteSettings(t)
  <2>1. org' = [scope |-> "TEAM", owner |-> NoUser, founder |-> Founder]
    BY <1>2, FounderAssumption DEF WriteSettings, Knows, WorksOn, FirmForms
  <2>2. UNCHANGED <<members, invitations, sessions, unlapsed>> /\ RequestEnds(t)
    BY <1>2 DEF WriteSettings
  <2>3. RowsTyped'
    BY <2>1, <2>2, FounderAssumption DEF RowsTyped, TeamTypeOK, Organization
  <2>4. RowsSound'
    BY <2>1, <2>2 DEF RowsSound, FirmForms, Administers
  <2>5. Grows
    BY <2>2 DEF Grows, Authority, AuthorityNext, Administers
  <2> QED BY <2>2, <2>3, <2>4, <2>5, EndsKeeps
<1> QED BY <1>1, <1>2 DEF SettingsStep

\* the steps of an invitation do,
LEMMA InvitationStepKeeps ==
    ASSUME TeamInvariant, NEW t \in Requests, InvitationStep(t)
    PROVE  TeamInvariant'
<1> USE DEF TeamInvariant
<1>1. CASE InviteCheck(t)
  <2>1. CASE RequestRefused(t)
    BY <2>1, RefusedKeeps
  <2>2. CASE ~RequestRefused(t)
    <3> DEFINE doing == [task[t] EXCEPT !.before = PendingTo(task[t].member)]
    <3>1. Notes(t, "send", doing) /\ teamPc[t] = "invite" /\ ~Belongs(task[t].member)
      BY <1>1, <2>2 DEF InviteCheck
    <3>2. doing \in Task /\ doing.member = task[t].member /\ doing.by = task[t].by /\ "send" \in Steps
      BY DEF TeamTypeOK, Task, Steps, PendingTo
    <3> HIDE DEF doing
    <3>3. task[t].member \in Users \ {Founder}
      BY <3>1 DEF Knows, WorksOn, RowsSound, Administers, Belongs
    <3>4. teamPc'[t] = "send" /\ task'[t] = doing => Knows(t)'
      BY <3>1, <3>2, <3>3 DEF Knows, WorksOn, KnowsSession, KnowsInvitation, KnowsMember
    <3> QED BY <3>1, <3>2, <3>4, NotesKeeps
  <2> QED BY <2>1, <2>2
<1>2. CASE ResendRead(t)
  <2>1. CASE RequestRefused(t)
    BY <2>1, RefusedKeeps
  <2>2. CASE ~RequestRefused(t)
    <3> DEFINE row == invitations[task[t].invitation]
    <3> DEFINE doing == [task[t] EXCEPT !.member = row.to, !.role = row.role, !.before = PendingTo(row.to)]
    <3>1. Notes(t, "send", doing) /\ teamPc[t] = "resend" /\ row.state = "pendiente"
      BY <1>2, <2>2 DEF ResendRead
    <3>2. task[t].invitation \in Invitations
      BY <3>1 DEF Knows, WorksOn
    <3>3. row \in Invitation /\ row.to \in Users \ {Founder}
      BY <3>1, <3>2 DEF RowsSound, TeamTypeOK
    <3>4. task[t] \in Task /\ PendingTo(row.to) \subseteq Invitations
      BY DEF TeamTypeOK, PendingTo
    <3> HIDE DEF row
    <3>5. doing \in Task /\ doing.member = row.to /\ doing.by = task[t].by /\ "send" \in Steps
      BY <3>3, <3>4 DEF Task, Invitation, Steps
    <3> HIDE DEF doing
    <3>6. teamPc'[t] = "send" /\ task'[t] = doing => Knows(t)'
      BY <3>1, <3>3, <3>5 DEF Knows, WorksOn, KnowsSession, KnowsInvitation, KnowsMember
    <3> QED BY <3>1, <3>5, <3>6, NotesKeeps
  <2> QED BY <2>1, <2>2
<1>3. CASE SendCollides(t)
  BY <1>3, RefusedKeeps DEF SendCollides
<1>4. CASE RevokeRead(t)
  <2>1. CASE RequestRefused(t)
    BY <2>1, RefusedKeeps
  <2>2. CASE Passes(t, "cancel")
    <3>1. teamPc[t] = "revoke"
      BY <1>4 DEF RevokeRead
    <3>2. teamPc'[t] = "cancel" /\ task'[t] = task[t] => Knows(t)'
      BY <3>1 DEF Knows, WorksOn, KnowsSession, KnowsInvitation, KnowsMember
    <3>3. "cancel" \in Steps
      BY DEF Steps
    <3> QED BY <2>2, <3>2, <3>3, ReadKeeps
  <2> QED BY <1>4, <2>1, <2>2 DEF RevokeRead
<1>5. CASE RevokeWrite(t)
  <2>1. CASE RequestRefused(t)
    BY <2>1, RefusedKeeps
  <2>2. CASE ~RequestRefused(t)
    <3>1. invitations' = Revoked({task[t].invitation}) /\ RequestEnds(t) /\ UNCHANGED <<org, members, sessions, unlapsed>>
      BY <1>5, <2>2 DEF RevokeWrite
    <3>2. Grows /\ RowsSound' /\ RowsTyped'
      <4>1. unlapsed' \subseteq Users
        BY <3>1 DEF TeamTypeOK
      <4> QED BY <3>1, <4>1, RevokedRows, InvitationsGrow
    <3> QED BY <3>1, <3>2, EndsKeeps
  <2> QED BY <2>1, <2>2
<1>6. ASSUME NEW i \in Invitations, Send(t, i) PROVE TeamInvariant'
  <2> DEFINE rows == PendingTo(task[t].member)
             new == [state |-> "pendiente", expired |-> FALSE, to |-> task[t].member,
                     role |-> task[t].role, by |-> task[t].by, acceptedBy |-> NoUser]
  <2>1. /\ teamPc[t] = "send" /\ invitations[i].state = "none" /\ RequestEnds(t)
        /\ invitations' = [Revoked(rows) EXCEPT ![i] = new]
        /\ UNCHANGED <<org, members, sessions, unlapsed>>
    BY <1>6 DEF Send
  <2>2. task[t].member \in Users \ {Founder} /\ task[t].by \in Users /\ task[t].role \in Roles
    BY <2>1 DEF Knows, WorksOn, TeamTypeOK, Task
  <2>3. new \in Invitation /\ new.state = "pendiente" /\ new.to \in Users \ {Founder} /\ new.by \in Users
    BY <2>2 DEF Invitation
  <2> HIDE DEF new, rows
  <2>4. /\ invitations' \in [Invitations -> Invitation] /\ invitations'[i] = new
        /\ \A j \in Invitations \ {i} : invitations'[j] = Revoked(rows)[j]
    BY <2>1, <2>3, RevokedRows
  <2>5. Grows /\ RowsSound' /\ RowsTyped'
    <3>1. unlapsed' \subseteq Users
      BY <2>1 DEF TeamTypeOK
    <3> QED BY <2>1, <2>3, <2>4, <3>1, RevokedRows, InvitationsGrow
  <2> QED BY <2>1, <2>5, EndsKeeps
<1> QED BY <1>1, <1>2, <1>3, <1>4, <1>5, <1>6 DEF InvitationStep


\* Only what a request knew of the session and the invitation it serves matters to
\* the steps of a member's change.
LEMMA MemberStepKeeps ==
    ASSUME TeamInvariant, NEW t \in Requests, MemberStep(t)
    PROVE  TeamInvariant'
<1> USE DEF TeamInvariant
<1> DEFINE u == task[t].member
<1>1. CASE MemberRead(t)
  <2>1. CASE RequestRefused(t)
    BY <2>1, RefusedKeeps
  <2>2. CASE ~RequestRefused(t)
    <3> DEFINE doing == [task[t] EXCEPT !.seenOrg = org, !.seenRole = members[u].role]
    <3>1. Notes(t, "count", doing) /\ teamPc[t] \in {"role", "remove"}
      BY <1>1, <2>2 DEF MemberRead
    <3>2. u \in Users /\ task[t].by \in Users
      BY <3>1 DEF Knows, WorksOn
    <3>3. /\ doing \in Task /\ doing.seenOrg = org /\ doing.member = u /\ doing.by = task[t].by /\ "count" \in Steps
      BY <3>2 DEF TeamTypeOK, Task, Member, Steps
    <3>4. UNCHANGED <<org, members>> /\ members[u].role # "none"
      BY <1>1, <2>2, <3>1, <3>2 DEF MemberRead, Belongs, Notes, rowVars, RowsSound
    <3> HIDE DEF doing, u
    <3>5. teamPc'[t] = "count" /\ task'[t] = doing => Knows(t)'
      BY <3>2, <3>3, <3>4 DEF Joined, RowsSound, Knows, WorksOn, KnowsSession, KnowsInvitation, KnowsMember
    <3> QED BY <3>1, <3>3, <3>5, NotesKeeps
  <2> QED BY <2>1, <2>2
<1>2. CASE CountAdministrators(t)
  <2>1. CASE RequestRefused(t)
    BY <2>1, RefusedKeeps
  <2>2. CASE ~RequestRefused(t)
    <3>1. teamPc[t] = "count" /\ Passes(t, "change") /\ u # protectedUserId(task[t].seenOrg)
      BY <1>2, <2>2 DEF CountAdministrators, memberChangeBlock
    <3>2. u \in Users \ {Founder} /\ task[t].by \in Users /\ members[u].role # "none" /\ UNCHANGED members
      BY <3>1, FounderAssumption DEF Knows, WorksOn, KnowsMember, Joined, FirmForms, protectedUserId, Passes, rowVars
    <3>3. teamPc'[t] = "change" /\ task'[t] = task[t] => Knows(t)'
      BY <3>2 DEF Joined, Knows, WorksOn, KnowsSession, KnowsInvitation, KnowsMember
    <3>4. "change" \in Steps
      BY DEF Steps
    <3> QED BY <3>1, <3>3, <3>4, ReadKeeps
  <2> QED BY <2>1, <2>2
<1>3. ASSUME teamPc[t] = "change", NEW row \in Member, row.role # "none",
             members' = [members EXCEPT ![u] = row], Unlapse(members'),
             UNCHANGED <<org, invitations, sessions>>, GoesOn(t, "lapse") \/ RequestEnds(t)
      PROVE  TeamInvariant'
  <2>1. u \in Users \ {Founder} /\ task[t].by \in Users
    BY <1>3 DEF Knows, WorksOn
  <2>2. invitations' \in [Invitations -> Invitation]
    BY <1>3 DEF TeamTypeOK
  <2>3. Grows /\ RowsSound' /\ RowsTyped'
    BY <1>3, <2>1, <2>2, MembersGrow
  <2>4. teamPc'[t] = "lapse" /\ task'[t] = task[t] => Knows(t)'
    BY <2>1 DEF Knows, WorksOn, KnowsSession, KnowsInvitation, KnowsMember
  <2>5. "lapse" \in Steps
    BY DEF Steps
  <2> QED BY <1>3, <2>3, <2>4, <2>5, GoesOnKeeps, EndsKeeps
<1>4. ASSUME teamPc[t] = "change" PROVE u \in Users /\ members[u] \in Member /\ members[u].role # "none"
  BY <1>4 DEF Knows, WorksOn, KnowsMember, Joined, TeamTypeOK
<1>5. CASE ChangeRole(t)
  <2> DEFINE row == [members[u] EXCEPT !.role = task[t].role]
  <2>1. teamPc[t] = "change" /\ task[t].role \in Roles
    BY <1>5 DEF ChangeRole, TeamTypeOK, Task
  <2>2. row \in Member /\ row.role # "none"
    BY <1>4, <2>1 DEF Member, Roles
  <2>3. members' = [members EXCEPT ![u] = row]
    BY <1>5 DEF ChangeRole
  <2> HIDE DEF row
  <2>4. Unlapse(members') /\ UNCHANGED <<org, invitations, sessions>> /\ (GoesOn(t, "lapse") \/ RequestEnds(t))
    BY <1>5 DEF ChangeRole
  <2> QED BY <1>3, <2>1, <2>2, <2>3, <2>4
<1>6. CASE Deactivate(t)
  <2> DEFINE row == [members[u] EXCEPT !.active = FALSE]
  <2>1. teamPc[t] = "change"
    BY <1>6 DEF Deactivate
  <2>2. row \in Member /\ row.role = members[u].role /\ row.active = FALSE
    BY <1>4, <2>1 DEF Member
  <2>3. members' = [members EXCEPT ![u] = row] /\ Unlapse(members') /\ UNCHANGED <<org, invitations, sessions>>
        /\ GoesOn(t, "lapse")
    BY <1>6 DEF Deactivate
  <2> HIDE DEF row
  <2> QED BY <1>3, <1>4, <2>1, <2>2, <2>3
<1>7. CASE revokeInvitationsFrom(t)
  <2> DEFINE rows == PendingFrom(u)
  <2>1. /\ teamPc[t] = "lapse" /\ invitations' = Revoked(rows) /\ unlapsed' = unlapsed \ {u}
        /\ UNCHANGED <<org, members, sessions>> /\ (GoesOn(t, "fallback") \/ RequestEnds(t))
    BY <1>7 DEF revokeInvitationsFrom
  <2>2. \A i \in Invitations : invitations[i].state = "pendiente" /\ invitations[i].by = u => i \in rows
    BY DEF PendingFrom
  <2> HIDE DEF rows
  <2>3. Grows /\ RowsSound' /\ RowsTyped'
    <3>1. unlapsed' \subseteq Users
      BY <2>1 DEF TeamTypeOK
    <3> QED BY <2>1, <2>2, <3>1, RevokedRows, InvitationsGrow
  <2>4. teamPc'[t] = "fallback" /\ task'[t] = task[t] => Knows(t)'
    BY <2>1 DEF Knows, WorksOn, KnowsSession, KnowsInvitation, KnowsMember
  <2>5. "fallback" \in Steps
    BY DEF Steps
  <2> QED BY <2>1, <2>3, <2>4, <2>5, GoesOnKeeps, EndsKeeps
<1>8. CASE Fallback(t)
  <2>1. teamPc[t] = "fallback" /\ u \in Users /\ task[t].by \in Users
    BY <1>8 DEF Fallback, Knows, WorksOn
  <2>2. CASE Passes(t, "end")
    <3>1. teamPc'[t] = "end" /\ task'[t] = task[t] => Knows(t)'
      BY <2>1 DEF Knows, WorksOn, KnowsSession, KnowsInvitation, KnowsMember
    <3>2. "end" \in Steps
      BY DEF Steps
    <3> QED BY <2>2, <3>1, <3>2, ReadKeeps
  <2>3. CASE ~Passes(t, "end")
    <3> DEFINE doing == [task[t] EXCEPT !.place = resolveDefaultOrganization(u)]
    <3>1. Notes(t, "move", doing)
      BY <1>8, <2>3 DEF Fallback
    <3>2. /\ doing \in Task /\ doing.place = resolveDefaultOrganization(u)
          /\ doing.member = u /\ doing.by = task[t].by /\ "move" \in Steps
      BY DEF TeamTypeOK, Task, Steps, resolveDefaultOrganization, Places
    <3> HIDE DEF doing
    <3>3. UNCHANGED members
      BY <3>1 DEF Notes, rowVars
    <3>4. doing.place = "firm" => members[u].role # "none"
      BY <2>1, <3>2 DEF resolveDefaultOrganization, Belongs, RowsSound
    <3> HIDE DEF u
    <3>5. teamPc'[t] = "move" /\ task'[t] = doing => Knows(t)'
      BY <2>1, <3>2, <3>3, <3>4 DEF Joined, Knows, WorksOn, KnowsSession, KnowsInvitation, KnowsMember
    <3> QED BY <3>1, <3>2, <3>5, NotesKeeps
  <2> QED BY <2>2, <2>3
<1>9. ASSUME NEW s \in Sessions PROVE sessions[s] \in Session
  BY DEF TeamTypeOK
<1>10. CASE MoveSessions(t)
  <2>1. /\ teamPc[t] = "move" /\ RequestEnds(t) /\ UNCHANGED <<org, members, invitations, unlapsed>>
        /\ sessions' = [s \in Sessions |-> IF s \in OpenHere(u) THEN [sessions[s] EXCEPT !.place = task[t].place]
                                                               ELSE sessions[s]]
    BY <1>10 DEF MoveSessions
  <2>2. task[t].place \in Places /\ (task[t].place = "firm" => Joined(u))
    BY <2>1 DEF TeamTypeOK, Task, Knows, KnowsMember
  <2>3. ASSUME NEW s \in Sessions
        PROVE  /\ sessions'[s] \in Session /\ sessions'[s].user = sessions[s].user
               /\ sessions'[s].place = "firm" => sessions[s].place = "firm" \/ Joined(sessions'[s].user)
    <3>1. CASE s \in OpenHere(u)
      <4>1. sessions'[s] = [sessions[s] EXCEPT !.place = task[t].place] /\ sessions[s].user = u
        BY <2>1, <3>1 DEF OpenHere
      <4>2. sessions'[s] \in Session /\ sessions'[s].user = u /\ sessions'[s].place = task[t].place
        BY <1>9, <2>2, <4>1 DEF Session
      <4> QED BY <2>2, <4>1, <4>2
    <3>2. CASE s \notin OpenHere(u)
      BY <1>9, <2>1, <3>2
    <3> QED BY <3>1, <3>2
  <2>4. sessions' \in [Sessions -> Session]
    BY <2>1, <2>3
  <2>5. Grows /\ RowsSound' /\ RowsTyped'
    BY <2>1, <2>3, <2>4, SessionsGrow
  <2> QED BY <2>1, <2>5, EndsKeeps
<1>11. CASE EndSessions(t)
  <2>1. RequestEnds(t) /\ UNCHANGED <<org, members, invitations, unlapsed>> /\ sessions' = Ended(OpenHere(u))
    BY <1>11 DEF EndSessions
  <2>2. \A s \in Sessions : sessions'[s] \in Session /\ sessions'[s].user = sessions[s].user
                            /\ sessions'[s].place = sessions[s].place
    BY <1>9, <2>1 DEF Ended, Session
  <2>3. sessions' \in [Sessions -> Session]
    BY <2>1, <2>2 DEF Ended
  <2>4. Grows /\ RowsSound' /\ RowsTyped'
    BY <2>1, <2>2, <2>3, SessionsGrow
  <2> QED BY <2>1, <2>4, EndsKeeps
<1> QED BY <1>1, <1>2, <1>5, <1>6, <1>7, <1>8, <1>10, <1>11 DEF MemberStep

\* the steps of who accepts one,
LEMMA AcceptStepKeeps ==
    ASSUME TeamInvariant, NEW t \in Requests, AcceptStep(t)
    PROVE  TeamInvariant'
<1> USE DEF TeamInvariant
<1> DEFINE i == task[t].invitation
<1>1. ASSUME NEW next \in {"inviter", "claim", "membership"},
             teamPc[t] \in {"accept", "inviter"}, Passes(t, next),
             next # "membership" => invitations[i].state # "none" /\ invitations[i].to = task[t].by,
             next = "claim" => Administers(invitations[i].by)
      PROVE  TeamInvariant'
  <2>1. task[t].session \in Sessions /\ task[t].by \in Users /\ i \in Invitations
        /\ sessions[task[t].session].user = task[t].by
    BY <1>1 DEF Knows, WorksOn, KnowsSession
  <2>2. next \in Steps
    BY DEF Steps
  <2>3. UNCHANGED <<members, invitations, sessions, unlapsed>>
    BY <1>1 DEF Passes, rowVars
  <2>4. teamPc'[t] = next /\ task'[t] = task[t] => Knows(t)'
    <3> SUFFICES ASSUME teamPc'[t] = next, task'[t] = task[t] PROVE Knows(t)'
      OBVIOUS
    <3>1. WorksOn(t)' /\ KnowsSession(t)' /\ KnowsMember(t)'
      BY <2>1, <2>3 DEF WorksOn, KnowsSession, KnowsMember
    <3>2. KnowsInvitation(t)'
      BY <1>1, <2>3 DEF KnowsInvitation, Authority, Administers
    <3> QED BY <3>1, <3>2 DEF Knows
  <2> QED BY <1>1, <2>2, <2>4, ReadKeeps
<1>2. CASE AcceptRead(t)
  <2>1. teamPc[t] = "accept"
    BY <1>2 DEF AcceptRead
  <2>2. \/ RequestRefused(t) \/ Passes(t, "membership")
        \/ Passes(t, "inviter") /\ invitations[i].to = task[t].by /\ invitationState(invitations[i]) = "pendiente"
    BY <1>2 DEF AcceptRead
  <2>3. invitationState(invitations[i]) = "pendiente" => invitations[i].state # "none"
    BY DEF invitationState
  <2> QED BY <1>1, <2>1, <2>2, <2>3, RefusedKeeps
<1>3. CASE InviterCheck(t)
  <2>1. teamPc[t] = "inviter" /\ invitations[i].state # "none" /\ invitations[i].to = task[t].by
    BY <1>3 DEF InviterCheck, Knows, KnowsInvitation
  <2>2. RequestRefused(t) \/ (Passes(t, "claim") /\ Administers(invitations[i].by))
    BY <1>3 DEF InviterCheck
  <2> QED BY <1>1, <2>1, <2>2, RefusedKeeps
<1>4. CASE Claim(t)
  <2>1. CASE RequestRefused(t)
    BY <2>1, RefusedKeeps
  <2>2. CASE ~RequestRefused(t)
    <3> DEFINE u == task[t].by
               row == [role |-> invitations[i].role, active |-> TRUE]
    <3>1. /\ teamPc[t] = "claim" /\ invitations[i].state = "pendiente"
          /\ invitations' = [invitations EXCEPT ![i] = [[invitations[i] EXCEPT !.state = "aceptada"] EXCEPT !.acceptedBy = u]]
          /\ members' = [members EXCEPT ![u] = row]
          /\ Unlapse(members') /\ GoesOn(t, "membership") /\ UNCHANGED <<org, sessions>>
      BY <1>4, <2>2 DEF Claim
    <3>2. /\ task[t].session \in Sessions /\ u \in Users /\ i \in Invitations /\ invitations[i] \in Invitation
          /\ sessions[task[t].session].user = u /\ invitations[i].to = u
      BY <3>1 DEF Knows, WorksOn, KnowsSession, KnowsInvitation, TeamTypeOK
    <3>3. u # Founder
      BY <3>1, <3>2 DEF RowsSound
    <3>4. row \in Member /\ row.role # "none"
      BY <3>2 DEF Member, Invitation, Roles
    <3> DEFINE new == [[invitations[i] EXCEPT !.state = "aceptada"] EXCEPT !.acceptedBy = u]
    <3>5. new \in Invitation /\ new.state = "aceptada" /\ new.to = invitations[i].to /\ new.by = invitations[i].by
      BY <3>2 DEF Invitation
    <3>6. invitations' = [invitations EXCEPT ![i] = new]
      BY <3>1
    <3> HIDE DEF row, new
    <3>7. /\ invitations' \in [Invitations -> Invitation] /\ invitations'[i] = new
          /\ \A j \in Invitations \ {i} : invitations'[j] = invitations[j]
      BY <3>2, <3>5, <3>6 DEF TeamTypeOK
    <3>8. Grows /\ RowsSound' /\ RowsTyped'
      <4>1. \A j \in Invitations :
               \/ invitations'[j] = invitations[j]
               \/ /\ invitations'[j].state = "aceptada"
                  /\ invitations'[j].to = invitations[j].to /\ invitations'[j].by = invitations[j].by
        BY <3>5, <3>7
      <4> QED BY <3>1, <3>2, <3>3, <3>4, <3>7, <4>1, MembersGrow
    <3>9. teamPc'[t] = "membership" /\ task'[t] = task[t] => Knows(t)'
      BY <3>1, <3>2 DEF Knows, WorksOn, KnowsSession, KnowsInvitation, KnowsMember
    <3>10. "membership" \in Steps
      BY DEF Steps
    <3> QED BY <3>1, <3>8, <3>9, <3>10, GoesOnKeeps
  <2> QED BY <2>1, <2>2
<1>5. CASE Membership(t)
  <2>1. CASE RequestRefused(t)
    BY <2>1, RefusedKeeps
  <2>2. CASE ~RequestRefused(t)
    <3> DEFINE doing == [task[t] EXCEPT !.place = "firm"]
    <3>1. Notes(t, "enter", doing) /\ teamPc[t] = "membership" /\ members[task[t].by].active
      BY <1>5, <2>2 DEF Membership, Belongs
    <3>2. /\ task[t].session \in Sessions /\ task[t].by \in Users
          /\ sessions[task[t].session].user = task[t].by
      BY <3>1 DEF Knows, WorksOn, KnowsSession
    <3>3. Joined(task[t].by)
      BY <3>1, <3>2 DEF Joined, RowsSound
    <3>4. doing \in Task /\ doing.by = task[t].by /\ doing.session = task[t].session /\ "enter" \in Steps
      BY DEF TeamTypeOK, Task, Steps, Places
    <3> HIDE DEF doing
    <3>5. UNCHANGED <<members, sessions>>
      BY <3>1 DEF Notes, rowVars
    <3>6. teamPc'[t] = "enter" /\ task'[t] = doing => Knows(t)'
      BY <3>2, <3>3, <3>4, <3>5 DEF Joined, Knows, WorksOn, KnowsSession, KnowsInvitation, KnowsMember
    <3> QED BY <3>1, <3>4, <3>6, NotesKeeps
  <2> QED BY <2>1, <2>2
<1> QED BY <1>2, <1>3, <1>4, <1>5 DEF AcceptStep


\* the steps of a session,
LEMMA SessionStepKeeps ==
    ASSUME TeamInvariant, NEW t \in Requests, SessionStep(t)
    PROVE  TeamInvariant'
<1> USE DEF TeamInvariant
<1> DEFINE u == task[t].by
<1>1. ASSUME NEW s \in Sessions PROVE sessions[s] \in Session
  BY DEF TeamTypeOK
<1>2. CASE SwitchRead(t)
  <2>1. CASE RequestRefused(t)
    BY <2>1, RefusedKeeps
  <2>2. CASE ~RequestRefused(t)
    <3>1. teamPc[t] = "switch" /\ Passes(t, "enter") /\ (task[t].place = "firm" => members[u].active)
      BY <1>2, <2>2 DEF SwitchRead, Belongs
    <3>2. task[t].session \in Sessions /\ u \in Users /\ sessions[task[t].session].user = u
      BY <3>1 DEF Knows, WorksOn, KnowsSession
    <3>3. task[t].place = "firm" => Joined(u)
      BY <3>1, <3>2 DEF Joined, RowsSound
    <3>4. UNCHANGED <<members, sessions>> /\ "enter" \in Steps
      BY <3>1 DEF Passes, rowVars, Steps
    <3> HIDE DEF u
    <3>5. teamPc'[t] = "enter" /\ task'[t] = task[t] => Knows(t)'
      BY <3>2, <3>3, <3>4 DEF u, Joined, Knows, WorksOn, KnowsSession, KnowsInvitation, KnowsMember
    <3> QED BY <3>1, <3>4, <3>5, ReadKeeps
  <2> QED BY <2>1, <2>2
<1>3. CASE Enter(t)
  <2> DEFINE s == task[t].session
             new == [sessions[s] EXCEPT !.place = IF sessions[s].open THEN task[t].place ELSE @]
  <2>1. /\ teamPc[t] = "enter" /\ RequestEnds(t) /\ UNCHANGED <<org, members, invitations, unlapsed>>
        /\ sessions' = [sessions EXCEPT ![s] = new]
    BY <1>3 DEF Enter
  <2>2. s \in Sessions /\ sessions[s].user = u /\ task[t].place \in Places
        /\ (task[t].place = "firm" => Joined(u))
    BY <2>1 DEF Knows, WorksOn, KnowsSession, KnowsMember, TeamTypeOK, Task
  <2>3. /\ new \in Session /\ new.user = u
        /\ new.place = "firm" => sessions[s].place = "firm" \/ Joined(u)
    BY <1>1, <2>2 DEF Session
  <2> HIDE DEF new, s
  <2>4. /\ sessions' \in [Sessions -> Session] /\ sessions'[s] = new
        /\ \A r \in Sessions \ {s} : sessions'[r] = sessions[r]
    BY <2>1, <2>2, <2>3 DEF TeamTypeOK
  <2>5. Grows /\ RowsSound' /\ RowsTyped'
    BY <2>1, <2>2, <2>3, <2>4, SessionsGrow
  <2> QED BY <2>1, <2>5, EndsKeeps
<1>4. CASE LoginRead(t)
  <2>1. CASE RequestRefused(t)
    BY <2>1, RefusedKeeps
  <2>2. CASE ~RequestRefused(t)
    <3> DEFINE doing == [task[t] EXCEPT !.place = resolveDefaultOrganization(u)]
    <3>1. Notes(t, "open", doing) /\ teamPc[t] = "login"
      BY <1>4, <2>2 DEF LoginRead
    <3>2. u \in Users
      BY <3>1 DEF Knows, WorksOn
    <3>3. /\ doing \in Task /\ doing.place = resolveDefaultOrganization(u) /\ doing.by = u /\ "open" \in Steps
      BY DEF TeamTypeOK, Task, Steps, resolveDefaultOrganization, Places
    <3> HIDE DEF doing
    <3>4. doing.place = "firm" => Joined(u)
      BY <3>2, <3>3 DEF resolveDefaultOrganization, Belongs, RowsSound, Joined
    <3>5. UNCHANGED members
      BY <3>1 DEF Notes, rowVars
    <3>6. teamPc'[t] = "open" /\ task'[t] = doing => Knows(t)'
      BY <3>2, <3>3, <3>4, <3>5 DEF Joined, Knows, WorksOn, KnowsSession, KnowsInvitation, KnowsMember
    <3> QED BY <3>1, <3>3, <3>6, NotesKeeps
  <2> QED BY <2>1, <2>2
<1>5. ASSUME NEW s \in Sessions, OpenSession(t, s) PROVE TeamInvariant'
  <2> DEFINE new == [user |-> u, place |-> task[t].place, open |-> TRUE]
  <2>1. /\ teamPc[t] = "open" /\ sessions[s] = Closed /\ RequestEnds(t) /\ UNCHANGED <<org, members, invitations, unlapsed>>
        /\ sessions' = [sessions EXCEPT ![s] = new]
    BY <1>5 DEF OpenSession
  <2>2. u \in Users /\ task[t].place \in Places /\ (task[t].place = "firm" => Joined(u))
    BY <2>1 DEF Knows, WorksOn, KnowsMember, TeamTypeOK, Task
  <2>3. new \in Session /\ new.user = u /\ new.place = task[t].place /\ sessions[s].user \notin Users
    BY <2>1, <2>2, FounderAssumption DEF Session, Closed
  <2> HIDE DEF new
  <2>4. /\ sessions' \in [Sessions -> Session] /\ sessions'[s] = new
        /\ \A r \in Sessions \ {s} : sessions'[r] = sessions[r]
    BY <2>1, <2>3 DEF TeamTypeOK
  <2>5. Grows /\ RowsSound' /\ RowsTyped'
    BY <2>1, <2>2, <2>3, <2>4, SessionsGrow
  <2> QED BY <2>1, <2>5, EndsKeeps
<1> QED BY <1>2, <1>3, <1>4, <1>5 DEF SessionStep

\* an invitation that expires,
LEMMA ExpireKeeps ==
    ASSUME TeamInvariant, NEW i \in Invitations, Expire(i)
    PROVE  TeamInvariant'
<1> DEFINE new == [invitations[i] EXCEPT !.expired = TRUE]
<1>1. invitations[i].state = "pendiente" /\ invitations[i] \in Invitation /\ invitations' = [invitations EXCEPT ![i] = new]
      /\ UNCHANGED <<org, members, sessions, requestVars, unlapsed>>
  BY DEF Expire, TeamInvariant, TeamTypeOK
<1>2. new \in Invitation /\ new.state = invitations[i].state /\ new.to = invitations[i].to /\ new.by = invitations[i].by
  BY <1>1 DEF Invitation
<1> HIDE DEF new
<1>3. /\ invitations' \in [Invitations -> Invitation] /\ invitations'[i] = new
      /\ \A j \in Invitations \ {i} : invitations'[j] = invitations[j]
  BY <1>1, <1>2 DEF TeamInvariant, TeamTypeOK
<1>4. RowsTyped' /\ RowsSound'
  BY <1>1, <1>2, <1>3 DEF TeamInvariant, TeamTypeOK, RowsTyped, RowsSound, Administers
<1>5. Grows
  BY <1>1, <1>2, <1>3 DEF Grows, Authority, AuthorityNext, Administers
<1> QED BY <1>1, <1>4, <1>5, OutsideKeeps

\* and a logout.
LEMMA LogoutKeeps ==
    ASSUME TeamInvariant, NEW s \in Sessions, Logout(s)
    PROVE  TeamInvariant'
<1>1. sessions' = Ended({s}) /\ UNCHANGED <<org, members, invitations, requestVars, unlapsed>>
  BY DEF Logout
<1>2. \A r \in Sessions : sessions'[r] \in Session /\ sessions'[r].user = sessions[r].user
                          /\ sessions'[r].place = sessions[r].place
  BY <1>1 DEF Ended, Session, TeamInvariant, TeamTypeOK
<1>3. sessions' \in [Sessions -> Session]
  BY <1>1, <1>2 DEF Ended
<1>4. Grows /\ RowsSound' /\ RowsTyped'
  BY <1>1, <1>2, <1>3, SessionsGrow
<1> QED BY <1>1, <1>4, OutsideKeeps

\* Every step of the team keeps the invariant.
LEMMA NextInvariant == TeamInvariant /\ [TeamNext]_teamVars => TeamInvariant'
<1> SUFFICES ASSUME TeamInvariant, [TeamNext]_teamVars PROVE TeamInvariant'
  OBVIOUS
<1>1. ASSUME NEW t \in Requests, NEW s \in Sessions, ManagementRequest(t, s) \/ PersonRequest(t, s)
      PROVE  TeamInvariant'
  BY <1>1, ManagementRequestKeeps, PersonRequestKeeps
<1>2. ASSUME NEW t \in Requests, NEW u \in Users, LoginRequest(t, u) PROVE TeamInvariant'
  BY <1>2, LoginRequestKeeps
<1>3. ASSUME NEW t \in Requests, RequestStep(t) PROVE TeamInvariant'
  BY <1>3, SettingsStepKeeps, InvitationStepKeeps, MemberStepKeeps, AcceptStepKeeps, SessionStepKeeps, RefusedKeeps
     DEF RequestStep, Crash
<1>4. ASSUME NEW i \in Invitations, Expire(i) PROVE TeamInvariant'
  BY <1>4, ExpireKeeps
<1>5. ASSUME NEW s \in Sessions, Logout(s) PROVE TeamInvariant'
  BY <1>5, LogoutKeeps
<1>6. CASE UNCHANGED teamVars
  <2>1. UNCHANGED <<rowVars, requestVars, unlapsed>>
    BY <1>6 DEF teamVars
  <2>2. Grows /\ RowsSound'
    BY <2>1, StaysGrows DEF TeamInvariant
  <2>3. RowsTyped'
    BY <2>1 DEF rowVars, TeamInvariant, TeamTypeOK, RowsTyped
  <2> QED BY <2>1, <2>2, <2>3, OutsideKeeps
<1> QED BY <1>1, <1>2, <1>3, <1>4, <1>5, <1>6 DEF TeamNext

\* The invariant of the team holds whatever the number of requests and people.
THEOREM TeamInvariantHolds == TeamSpec => []TeamInvariant
<1> QED BY InitInvariant, NextInvariant, PTL DEF TeamSpec

-----------------------------------------------------------------------------
(* The properties *)

\* The variables always hold what the schema and the handlers allow.
THEOREM TypeCorrect == TeamSpec => []TeamTypeOK
<1>1. TeamInvariant => TeamTypeOK
  BY DEF TeamInvariant
<1> QED BY <1>1, TeamInvariantHolds, PTL

\* The founder administers the firm at every moment (memberChangeBlock against the
\* organization that memberForChange read, team.service.ts).
THEOREM FounderAlwaysAdministers == TeamSpec => []FounderAdministers
<1>1. TeamInvariant => FounderAdministers
  BY DEF TeamInvariant, RowsSound, FounderAdministers
<1> QED BY <1>1, TeamInvariantHolds, PTL

\* Who works in the firm joined it, however sessions move between organizations.
THEOREM SessionsAlwaysOfMembers == TeamSpec => []SessionsOfMembers
<1>1. TeamInvariant => SessionsOfMembers
  BY DEF TeamInvariant, RowsSound, SessionsOfMembers
<1> QED BY <1>1, TeamInvariantHolds, PTL


\* The two action properties, of one step.
JoinsStep ==
    \A i \in Invitations :
        invitations[i].state # "aceptada" /\ invitations'[i].state = "aceptada"
          => Administers(invitations[i].by) \/ invitations[i].by \in unlapsed

SettledStep ==
    \A i \in Invitations :
        invitations[i].state \in {"aceptada", "cancelada"} => invitations'[i] = invitations[i]

\* Only the handlers of invitations write one:
LEMMA OtherSteps ==
    ASSUME NEW t \in Requests,
           \/ SettingsStep(t) \/ SessionStep(t) \/ Crash(t)
           \/ MemberStep(t) /\ ~revokeInvitationsFrom(t)
           \/ AcceptStep(t) /\ ~Claim(t)
           \/ InviteCheck(t) \/ ResendRead(t) \/ SendCollides(t) \/ RevokeRead(t)
    PROVE  UNCHANGED invitations
<1>1. SettingsStep(t) => UNCHANGED invitations
  BY DEF SettingsStep, ReadSettings, WriteSettings, Notes, rowVars
<1>2. SessionStep(t) => UNCHANGED invitations
  BY DEF SessionStep, SwitchRead, Enter, LoginRead, OpenSession, Passes, Notes, RequestRefused, rowVars
<1>3. Crash(t) => UNCHANGED invitations
  BY DEF Crash, RequestRefused, rowVars
<1>4. MemberStep(t) /\ ~revokeInvitationsFrom(t) => UNCHANGED invitations
  BY DEF MemberStep, MemberRead, CountAdministrators, ChangeRole, Deactivate, Fallback, MoveSessions, EndSessions,
         Passes, Notes, RequestRefused, rowVars
<1>5. AcceptStep(t) /\ ~Claim(t) => UNCHANGED invitations
  BY DEF AcceptStep, AcceptRead, InviterCheck, Membership, Passes, Notes, RequestRefused, rowVars
<1>6. InviteCheck(t) \/ ResendRead(t) \/ SendCollides(t) \/ RevokeRead(t) => UNCHANGED invitations
  BY DEF InviteCheck, ResendRead, SendCollides, RevokeRead, Passes, Notes, RequestRefused, rowVars
<1> QED BY <1>1, <1>2, <1>3, <1>4, <1>5, <1>6

\* no request does when it starts,
LEMMA StartsLeave ==
    ASSUME NEW t \in Requests, NEW s \in Sessions, NEW u \in Users,
           ManagementRequest(t, s) \/ PersonRequest(t, s) \/ LoginRequest(t, u)
    PROVE  UNCHANGED invitations
BY DEF ManagementRequest, PersonRequest, LoginRequest, SettingsRequest, InviteRequest, RoleRequest, RemoveRequest,
       ResendRequest, RevokeRequest, AcceptRequest, SwitchRequest, Manages, Starts, rowVars

\* and a step that writes none joins nobody and settles nothing.
LEMMA UnchangedSteps == UNCHANGED invitations => JoinsStep /\ SettledStep
BY DEF JoinsStep, SettledStep

\* Revoking pending rows accepts nothing and leaves what is settled.
LEMMA RevokedSteps ==
    ASSUME TeamTypeOK, NEW rows, \A i \in rows \cap Invitations : invitations[i].state = "pendiente",
           invitations' = Revoked(rows)
    PROVE  JoinsStep /\ SettledStep
BY RevokedRows DEF JoinsStep, SettledStep

\* Every step joins under authority and leaves a settled invitation as it is.
LEMMA InvitationSteps == TeamInvariant /\ [TeamNext]_teamVars => JoinsStep /\ SettledStep
<1> SUFFICES ASSUME TeamInvariant, [TeamNext]_teamVars PROVE JoinsStep /\ SettledStep
  OBVIOUS
<1> USE DEF TeamInvariant
<1>1. ASSUME NEW t \in Requests, RevokeWrite(t) PROVE JoinsStep /\ SettledStep
  <2>1. CASE UNCHANGED invitations
    BY <2>1, UnchangedSteps
  <2>2. CASE ~UNCHANGED invitations
    <3> DEFINE i == task[t].invitation
    <3>1. teamPc[t] = "cancel" /\ invitations[i].state # "aceptada" /\ invitations' = Revoked({i})
      BY <1>1, <2>2 DEF RevokeWrite, RequestRefused, rowVars
    <3>2. i \in Invitations /\ invitations[i] \in Invitation
      BY <3>1 DEF Knows, WorksOn, TeamTypeOK
    <3>3. invitations' = [j \in Invitations |-> IF j = i THEN [invitations[i] EXCEPT !.state = "cancelada"]
                                                         ELSE invitations[j]]
      BY <3>1 DEF Revoked
    <3> HIDE DEF i
    <3>4. JoinsStep
      BY <3>1, <3>2, <3>3, RevokedRows DEF JoinsStep
    <3>5. invitations[i].state = "cancelada" => invitations'[i] = invitations[i]
      BY <3>2, <3>3 DEF Invitation
    <3>6. SettledStep
      BY <3>1, <3>2, <3>3, <3>5 DEF SettledStep
    <3> QED BY <3>4, <3>6
  <2> QED BY <2>1, <2>2
<1>2. ASSUME NEW t \in Requests, NEW i \in Invitations, Send(t, i) PROVE JoinsStep /\ SettledStep
  <2> DEFINE rows == PendingTo(task[t].member)
             new == [state |-> "pendiente", expired |-> FALSE, to |-> task[t].member,
                     role |-> task[t].role, by |-> task[t].by, acceptedBy |-> NoUser]
  <2>1. invitations[i].state = "none" /\ invitations' = [Revoked(rows) EXCEPT ![i] = new]
    BY <1>2 DEF Send
  <2>2. new.state = "pendiente" /\ \A j \in rows : invitations[j].state = "pendiente"
    BY DEF PendingTo
  <2> HIDE DEF new, rows
  <2>3. invitations'[i] = new /\ \A j \in Invitations \ {i} : invitations'[j] = Revoked(rows)[j]
    BY <2>1, RevokedRows
  <2> QED BY <2>1, <2>2, <2>3, RevokedRows DEF JoinsStep, SettledStep
<1>3. ASSUME NEW t \in Requests, revokeInvitationsFrom(t) PROVE JoinsStep /\ SettledStep
  <2>1. invitations' = Revoked(PendingFrom(task[t].member))
    BY <1>3 DEF revokeInvitationsFrom
  <2>2. \A i \in PendingFrom(task[t].member) : invitations[i].state = "pendiente"
    BY DEF PendingFrom
  <2> QED BY <2>1, <2>2, RevokedSteps
<1>4. ASSUME NEW t \in Requests, Claim(t) PROVE JoinsStep /\ SettledStep
  <2>1. CASE UNCHANGED invitations
    BY <2>1, UnchangedSteps
  <2>2. CASE ~UNCHANGED invitations
    <3>1. /\ teamPc[t] = "claim" /\ invitations[task[t].invitation].state = "pendiente"
          /\ \A j \in Invitations \ {task[t].invitation} : invitations'[j] = invitations[j]
      BY <1>4, <2>2 DEF Claim, RequestRefused, rowVars, TeamTypeOK
    <3>2. Authority(invitations[task[t].invitation].by)
      BY <3>1 DEF Knows, KnowsInvitation
    <3> QED BY <3>1, <3>2 DEF JoinsStep, SettledStep, Authority
  <2> QED BY <2>1, <2>2
<1>5. ASSUME NEW i \in Invitations, Expire(i) PROVE JoinsStep /\ SettledStep
  <2>1. /\ invitations[i].state = "pendiente" /\ invitations[i] \in Invitation
        /\ invitations' = [invitations EXCEPT ![i] = [invitations[i] EXCEPT !.expired = TRUE]]
    BY <1>5 DEF Expire, TeamTypeOK
  <2>2. [invitations[i] EXCEPT !.expired = TRUE].state = "pendiente"
    BY <2>1 DEF Invitation
  <2>3. invitations'[i].state = "pendiente" /\ \A j \in Invitations \ {i} : invitations'[j] = invitations[j]
    BY <2>1, <2>2 DEF TeamTypeOK
  <2> QED BY <2>1, <2>3 DEF JoinsStep, SettledStep
<1>6. ASSUME NEW s \in Sessions, Logout(s) PROVE JoinsStep /\ SettledStep
  BY <1>6, UnchangedSteps DEF Logout
<1>7. ASSUME NEW t \in Requests, NEW s \in Sessions, ManagementRequest(t, s) \/ PersonRequest(t, s)
      PROVE  JoinsStep /\ SettledStep
  BY <1>7, StartsLeave, UnchangedSteps, FounderAssumption
<1>8. ASSUME NEW t \in Requests, NEW u \in Users, LoginRequest(t, u) PROVE JoinsStep /\ SettledStep
  <2>1. UNCHANGED invitations
    BY <1>8 DEF LoginRequest, Starts, rowVars
  <2> QED BY <2>1, UnchangedSteps
<1>9. ASSUME NEW t \in Requests, RequestStep(t) PROVE JoinsStep /\ SettledStep
  <2>1. \/ RevokeWrite(t) \/ revokeInvitationsFrom(t) \/ Claim(t) \/ \E i \in Invitations : Send(t, i)
        \/ UNCHANGED invitations
    BY <1>9, OtherSteps DEF RequestStep, InvitationStep
  <2> QED BY <1>1, <1>2, <1>3, <1>4, <2>1, UnchangedSteps
<1>10. CASE UNCHANGED teamVars
  BY <1>10, UnchangedSteps DEF teamVars, rowVars
<1> QED BY <1>5, <1>6, <1>7, <1>8, <1>9, <1>10 DEF TeamNext

\* Nobody enters on an invitation whose sender lost the role and whose invitations
\* have been revoked since: the check of the sender that acceptInvitation makes
\* before its transaction is enough.
THEOREM AlwaysJoinsUnderAuthority == TeamSpec => JoinsUnderAuthority
<1>1. TeamInvariant /\ [TeamNext]_teamVars =>
        [\A i \in Invitations :
           invitations[i].state # "aceptada" /\ invitations'[i].state = "aceptada"
             => Administers(invitations[i].by) \/ invitations[i].by \in unlapsed]_teamVars
  BY InvitationSteps DEF JoinsStep
<1> QED BY <1>1, TeamInvariantHolds, PTL DEF TeamSpec, JoinsUnderAuthority

\* An invitation is settled once, whoever answers, revokes or replaces it.
THEOREM SettledAlwaysStays == TeamSpec => SettledStays
<1>1. TeamInvariant /\ [TeamNext]_teamVars =>
        [\A i \in Invitations :
           invitations[i].state \in {"aceptada", "cancelada"} => invitations'[i] = invitations[i]]_teamVars
  BY InvitationSteps DEF SettledStep
<1> QED BY <1>1, TeamInvariantHolds, PTL DEF TeamSpec, SettledStays

-----------------------------------------------------------------------------
(* The invariant of an account *)

LinkStates == {"none", "live", "expired", "revoked", "used"}

SignInRow == [state : {"none", "pending", "completed"}, exchanged : BOOLEAN]

Credentials == {"none", "closed"} \cup Passwords \cup SignIns

Provers == {"nobody", "link", "google"}

\* Every variable of the account has its shape.
Shapes ==
    /\ account \in AccountRow
    /\ links \in [Links -> LinkStates]
    /\ signIns \in [SignIns -> SignInRow]
    /\ opened \in [Cookies -> Credentials]
    /\ step \in [Attempts -> AccountSteps]
    /\ work \in [Attempts -> Work]
    /\ writes \in [Links -> Nat]
    /\ provedBy \in Provers

\* A row that does not exist is proved by nobody, counts no failures and has no
\* verification link.
Sane(row) == row.verified \/ row.failures > 0 \/ row.proof # "none" => row.exists

\* The registered password of a proved account was proved by the link.
Trusted(row) == row.verified /\ row.password = "registered" => provedBy = "link"

\* What was read is there, and proved if it was.
WasRead(row) == (row.exists => account.exists) /\ (row.verified => account.verified) /\ Trusted(row)

\* What a request works on, by what it does next.
ItsSubject(next, on) ==
    /\ next \in {"reset", "claim", "write"} => on \in Links
    /\ next \in {"state", "complete", "exchange", "identify", "identity"} => on \in SignIns
    /\ next \in {"signin", "compare", "forgive"} => on = NoName
    /\ next = "open" => on \in SignIns \cup {NoName}

\* To open a session with the registered password.
OpensRegistered(next, w) == next \in {"forgive", "open"} /\ w.on = NoName /\ w.given = "registered"

\* What a request may rely on for what it does next.
Relies(next, w) ==
    /\ ItsSubject(next, w.on)
    /\ WasRead(w.seen)
    /\ next \in {"compare", "proof", "prove"} => account.exists
    /\ OpensRegistered(next, w) => account.verified /\ provedBy = "link"

SessionsProved == \A s \in Cookies : opened[s] = "registered" => account.verified /\ provedBy = "link"

\* A link that was claimed is used, and one request at most writes with it.
ClaimedOnce ==
    /\ \A t \in Attempts : step[t] = "write" => links[work[t].on] = "used" /\ writes[work[t].on] = 0
    /\ \A r, t \in Attempts : step[r] = "write" /\ step[t] = "write" /\ work[r].on = work[t].on => r = t
    /\ \A k \in Links : writes[k] <= 1 /\ (writes[k] = 1 => links[k] = "used")

AccessInvariant ==
    /\ Shapes
    /\ Sane(account) /\ Trusted(account)
    /\ \A t \in Attempts : Relies(step[t], work[t])
    /\ SessionsProved
    /\ ClaimedOnce

\* What a step may do to the account: it stays, and who proved it stays.
Later ==
    /\ account' \in AccountRow /\ provedBy' \in Provers
    /\ Sane(account)' /\ Trusted(account)'
    /\ account.exists => account'.exists
    /\ account.verified => account'.verified /\ provedBy' = provedBy

\* A step that leaves the claims of the links alone.
ClaimsAlone ==
    /\ links' \in [Links -> LinkStates] /\ writes' = writes
    /\ \A k \in Links : links[k] = "used" => links'[k] = "used"

-----------------------------------------------------------------------------
(* How a step keeps the invariant *)

\* A step that leaves the account alone keeps what was proved of it,
LEMMA AccountStays == ASSUME AccessInvariant, UNCHANGED <<account, provedBy>> PROVE Later
BY DEF AccessInvariant, Shapes, Later, Sane, Trusted

\* and one that leaves the links alone claims none.
LEMMA LinksStay == ASSUME AccessInvariant, UNCHANGED <<links, writes>> PROVE ClaimsAlone
BY DEF AccessInvariant, Shapes, ClaimsAlone

\* What a request relies on stays, whatever happens to the account.
LEMMA ReliesLater ==
    ASSUME Later, NEW r, NEW q, Relies(step[r], work[r]), step'[q] = step[r], work'[q] = work[r]
    PROVE  Relies(step[q], work[q])'
BY DEF Later, Relies, ItsSubject, WasRead, Trusted, OpensRegistered

\* Nobody's request: the clock, and what the user does at Google.
LEMMA ClockKeeps ==
    ASSUME AccessInvariant, UNCHANGED <<step, work, opened>>, Later, ClaimsAlone, signIns' \in [SignIns -> SignInRow]
    PROVE  AccessInvariant'
<1>1. Shapes'
  BY DEF AccessInvariant, Shapes, Later, ClaimsAlone
<1>2. (Sane(account) /\ Trusted(account))'
  BY DEF Later
<1>3. \A t \in Attempts : Relies(step[t], work[t])'
  BY ReliesLater DEF AccessInvariant
<1>4. SessionsProved'
  BY DEF AccessInvariant, SessionsProved, Later
<1>5. ClaimedOnce'
  BY DEF AccessInvariant, Shapes, ClaimedOnce, ClaimsAlone, Relies, ItsSubject
<1> QED BY <1>1, <1>2, <1>3, <1>4, <1>5 DEF AccessInvariant

\* A request goes on to a step with what it needs for it; all but the claims.
LEMMA Onward ==
    ASSUME AccessInvariant, NEW t \in Attempts, NEW next \in AccountSteps, NEW w \in Work,
           step' = [step EXCEPT ![t] = next], work' = [work EXCEPT ![t] = w],
           Later, Relies(next, w)',
           links' \in [Links -> LinkStates], signIns' \in [SignIns -> SignInRow],
           opened' \in [Cookies -> Credentials], writes' \in [Links -> Nat],
           \A s \in Cookies : opened'[s] = "registered" => opened[s] = "registered" \/ OpensRegistered(step[t], work[t]),
           ClaimedOnce'
    PROVE  AccessInvariant'
<1>1. Shapes'
  BY DEF AccessInvariant, Shapes, Later
<1>2. (Sane(account) /\ Trusted(account))'
  BY DEF Later
<1>3. step'[t] = next /\ work'[t] = w /\ \A r \in Attempts \ {t} : step'[r] = step[r] /\ work'[r] = work[r]
  BY DEF AccessInvariant, Shapes
<1>4. ASSUME NEW r \in Attempts PROVE Relies(step[r], work[r])'
  <2>1. CASE r = t
    BY <1>3, <2>1 DEF Relies, ItsSubject, WasRead, Trusted, OpensRegistered
  <2>2. CASE r # t
    BY <1>3, <2>2, ReliesLater DEF AccessInvariant
  <2> QED BY <2>1, <2>2
<1>5. SessionsProved'
  BY DEF AccessInvariant, SessionsProved, Later, Relies
<1> QED BY <1>1, <1>2, <1>4, <1>5 DEF AccessInvariant

\* The claims stay when no request begins to write with a link.
LEMMA ClaimsStay ==
    ASSUME AccessInvariant, NEW t \in Attempts, NEW next \in AccountSteps \ {"write"}, NEW w \in Work,
           step' = [step EXCEPT ![t] = next], work' = [work EXCEPT ![t] = w], ClaimsAlone
    PROVE  ClaimedOnce'
<1>1. step'[t] # "write" /\ \A r \in Attempts \ {t} : step'[r] = step[r] /\ work'[r] = work[r]
  BY DEF AccessInvariant, Shapes
<1>2. \A r \in Attempts : step'[r] = "write" => step[r] = "write" /\ work'[r] = work[r] /\ work[r].on \in Links
  BY <1>1 DEF AccessInvariant, Relies, ItsSubject
<1> QED BY <1>2 DEF AccessInvariant, ClaimedOnce, ClaimsAlone

\* A request at rest, and an account that is not there, have the right shape.
LEMMA NothingType ==
    /\ Nothing \in Work /\ Nothing.on = NoName /\ Nothing.given = "none" /\ Nothing.seen = NoAccount
    /\ NoAccount \in AccountRow /\ ~NoAccount.exists /\ ~NoAccount.verified
<1>1. NoAccount \in AccountRow /\ ~NoAccount.exists /\ ~NoAccount.verified
  BY MaxRetriesAssumption DEF NoAccount, AccountRow, Passwords
<1>2. Nothing \in Work
  BY <1>1 DEF Nothing, Work, Passwords
<1> QED BY <1>1, <1>2 DEF Nothing

\* A request ends and forgets what it read.
LEMMA FinishesKeeps ==
    ASSUME AccessInvariant, NEW t \in Attempts, Finishes(t), Later, ClaimsAlone,
           signIns' \in [SignIns -> SignInRow], opened' \in [Cookies -> Credentials],
           \A s \in Cookies : opened'[s] = "registered" => opened[s] = "registered" \/ OpensRegistered(step[t], work[t])
    PROVE  AccessInvariant'
<1>1. Relies("done", Nothing)'
  BY NothingType DEF Relies, ItsSubject, WasRead, Trusted, OpensRegistered
<1>2. "done" \in AccountSteps \ {"write"}
  BY DEF AccountSteps
<1>3. ClaimedOnce'
  BY <1>2, NothingType, ClaimsStay DEF Finishes
<1> QED BY <1>1, <1>2, <1>3, NothingType, Onward DEF Finishes, ClaimsAlone, AccessInvariant, Shapes

\* A request that stops keeps the invariant,
LEMMA StopsKeeps ==
    ASSUME AccessInvariant, NEW t \in Attempts, Stops(t)
    PROVE  AccessInvariant'
<1>1. Finishes(t) /\ UNCHANGED <<account, links, signIns, opened, writes, provedBy>>
  BY DEF Stops, storedVars
<1> QED BY <1>1, AccountStays, LinksStay, FinishesKeeps DEF AccessInvariant, Shapes

\* A request goes on with what it has read before.
LEMMA ContinuesKeeps ==
    ASSUME AccessInvariant, NEW t \in Attempts, NEW next \in AccountSteps \ {"write", "compare", "prove"}, Continues(t, next),
           next = "proof" => account'.exists, Later, ClaimsAlone, signIns' \in [SignIns -> SignInRow], UNCHANGED opened,
           ItsSubject(next, work[t].on), OpensRegistered(next, work[t]) => account'.verified /\ provedBy' = "link"
    PROVE  AccessInvariant'
<1>1. work[t] \in Work /\ Relies(step[t], work[t]) /\ work' = [work EXCEPT ![t] = work[t]]
  BY DEF AccessInvariant, Shapes, Continues
<1>2. PICK w \in Work : w = work[t]
  BY <1>1
<1>3. Relies(next, w)'
  BY <1>1, <1>2 DEF Relies, ItsSubject, WasRead, Trusted, OpensRegistered, Later
<1>4. ClaimedOnce'
  BY <1>1, <1>2, ClaimsStay DEF Continues
<1> QED BY <1>1, <1>2, <1>3, <1>4, Onward DEF Continues, ClaimsAlone, AccessInvariant, Shapes

\* A request reads the row and goes on.
LEMMA ReadsKeeps ==
    ASSUME AccessInvariant, NEW t \in Attempts, NEW next \in AccountSteps \ {"write", "proof", "forgive", "open"}, Reads(t, next),
           ItsSubject(next, work[t].on), next \in {"compare", "prove"} => account.exists
    PROVE  AccessInvariant'
<1>1. UNCHANGED <<account, links, signIns, opened, writes, provedBy>>
  BY DEF Reads, storedVars
<1>2. [work[t] EXCEPT !.seen = account] = [on |-> work[t].on, given |-> work[t].given, seen |-> account]
  BY DEF AccessInvariant, Shapes, Work
<1>3. PICK w \in Work : w = [work[t] EXCEPT !.seen = account] /\ w.on = work[t].on /\ w.seen = account
  BY <1>2 DEF AccessInvariant, Shapes, Work
<1>4. step' = [step EXCEPT ![t] = next] /\ work' = [work EXCEPT ![t] = w]
  BY <1>3 DEF Reads
<1>5. Relies(next, w)'
  BY <1>1, <1>3 DEF Relies, ItsSubject, WasRead, Trusted, OpensRegistered, AccessInvariant
<1>6. ClaimsAlone /\ Later
  BY <1>1, AccountStays, LinksStay
<1>7. ClaimedOnce'
  BY <1>4, <1>6, ClaimsStay
<1> QED BY <1>1, <1>4, <1>5, <1>6, <1>7, Onward DEF AccessInvariant, Shapes

\* A request comes in, with nothing read.
LEMMA BeginsKeeps ==
    ASSUME AccessInvariant, NEW t \in Attempts, NEW next \in {"register", "verify", "recover", "reset", "signin", "state"},
           NEW w \in Work, Begins(t, next, w), ItsSubject(next, w.on), w.seen = NoAccount
    PROVE  AccessInvariant'
<1>1. UNCHANGED <<account, links, signIns, opened, writes, provedBy>>
  BY DEF Begins, storedVars
<1>2. Relies(next, w)'
  BY <1>1, NothingType DEF Relies, ItsSubject, WasRead, Trusted, OpensRegistered
<1>3. ClaimsAlone /\ Later
  BY <1>1, AccountStays, LinksStay
<1>4. next \in AccountSteps \ {"write"}
  BY DEF AccountSteps
<1>5. ClaimedOnce'
  BY <1>3, <1>4, ClaimsStay DEF Begins
<1> QED BY <1>1, <1>2, <1>3, <1>4, <1>5, Onward DEF Begins, AccessInvariant, Shapes

\* and one that starts.
LEMMA NewRequestKeeps ==
    ASSUME AccessInvariant, NEW t \in Attempts, NewRequest(t)
    PROVE  AccessInvariant'
<1>1. CASE Register(t) \/ VerifyEmail(t) \/ RequestRecovery(t)
  BY <1>1, NothingType, BeginsKeeps DEF Register, VerifyEmail, RequestRecovery, ItsSubject
<1>2. ASSUME NEW k \in Links, ResetPassword(t, k) PROVE AccessInvariant'
  <2>1. [Nothing EXCEPT !.on = k] = [on |-> k, given |-> "none", seen |-> NoAccount]
    BY DEF Nothing
  <2>2. [Nothing EXCEPT !.on = k] \in Work
    BY <2>1, NothingType DEF Work, Passwords
  <2> QED BY <1>2, <2>1, <2>2, BeginsKeeps DEF ResetPassword, ItsSubject
<1>3. ASSUME NEW p \in Passwords, SignIn(t, p) PROVE AccessInvariant'
  <2>1. [Nothing EXCEPT !.given = p] = [on |-> NoName, given |-> p, seen |-> NoAccount]
    BY DEF Nothing
  <2>2. [Nothing EXCEPT !.given = p] \in Work
    BY <2>1, NothingType DEF Work
  <2> QED BY <1>3, <2>1, <2>2, BeginsKeeps DEF SignIn, ItsSubject
<1>4. ASSUME NEW x \in SignIns, Callback(t, x) PROVE AccessInvariant'
  <2>1. [Nothing EXCEPT !.on = x] = [on |-> x, given |-> "none", seen |-> NoAccount]
    BY DEF Nothing
  <2>2. [Nothing EXCEPT !.on = x] \in Work
    BY <2>1, NothingType DEF Work, Passwords
  <2> QED BY <1>4, <2>1, <2>2, BeginsKeeps DEF Callback, ItsSubject
<1> QED BY <1>1, <1>2, <1>3, <1>4 DEF NewRequest

-----------------------------------------------------------------------------
(* What is done to the account *)

\* The verification link is written, expires or is spent.
LEMMA ProofLater ==
    ASSUME AccessInvariant, account.exists, NEW p \in {"none", "live", "spent"},
           account' = [account EXCEPT !.proof = p], UNCHANGED provedBy
    PROVE  Later
<1>1. account' \in AccountRow
  BY DEF AccessInvariant, Shapes, AccountRow
<1>2. UNCHANGED <<account.exists, account.verified, account.password>>
  BY DEF AccessInvariant, Shapes, AccountRow
<1> QED BY <1>1, <1>2 DEF AccessInvariant, Shapes, Later, Sane, Trusted

\* Failed sign-ins are counted, and the lock put or taken away.
LEMMA FailuresLater ==
    ASSUME AccessInvariant, NEW n \in 0..MaxRetries, NEW b \in BOOLEAN, n > 0 => account.exists,
           account' = [account EXCEPT !.failures = n, !.locked = b], UNCHANGED provedBy
    PROVE  Later
<1>1. account' \in AccountRow
  BY DEF AccessInvariant, Shapes, AccountRow
<1>2. UNCHANGED <<account.exists, account.verified, account.password, account.proof>> /\ account'.failures = n
  BY DEF AccessInvariant, Shapes, AccountRow
<1> QED BY <1>1, <1>2 DEF AccessInvariant, Shapes, Later, Sane, Trusted

\* No failure is a number of failures.
LEMMA NoFailures == 0 \in 0..MaxRetries
BY MaxRetriesAssumption

\* The password registered is not the one of a link.
LEMMA PasswordNames == "none" \in Passwords /\ "registered" \in Passwords /\ \A k \in Links : k \in Passwords /\ k # "registered"
BY LinksAssumption DEF Passwords

\* An account is created with nothing failed and no verification link yet.
LEMMA CreatedRow ==
    ASSUME NEW p \in Passwords, NEW b \in BOOLEAN,
           account' = [exists |-> TRUE, password |-> p, verified |-> b, google |-> b,
                       failures |-> 0, locked |-> FALSE, proof |-> "none"]
    PROVE  account' \in AccountRow /\ account'.exists = TRUE /\ account'.verified = b /\ account'.password = p
BY NoFailures DEF AccountRow

\* The first account of the email.
LEMMA CreatedLater ==
    ASSUME AccessInvariant, ~account.exists,
           account' = [NoAccount EXCEPT !.exists = TRUE, !.password = "registered"], UNCHANGED provedBy
    PROVE  Later
<1>1. account' = [exists |-> TRUE, password |-> "registered", verified |-> FALSE, google |-> FALSE,
                  failures |-> 0, locked |-> FALSE, proof |-> "none"]
  BY DEF NoAccount
<1>2. account' \in AccountRow /\ account'.exists = TRUE /\ account'.verified = FALSE
  BY <1>1, PasswordNames, CreatedRow
<1>3. ~account.verified /\ provedBy' \in Provers
  BY DEF AccessInvariant, Shapes, Sane
<1> QED BY <1>2, <1>3 DEF Later, Sane, Trusted

\* The owner of the email followed the link.
LEMMA VerifiedLater ==
    ASSUME AccessInvariant, account.exists,
           account' = [account EXCEPT !.verified = TRUE, !.proof = "spent"], Proves("link")
    PROVE  Later
<1>1. account' \in AccountRow
  BY DEF AccessInvariant, Shapes, AccountRow
<1>2. UNCHANGED <<account.exists, account.password, account.failures>> /\ account'.verified
  BY DEF AccessInvariant, Shapes, AccountRow
<1>3. /\ provedBy' \in Provers
      /\ account.verified => provedBy' = provedBy
      /\ ~account.verified => provedBy' = "link"
  BY DEF AccessInvariant, Shapes, Proves, Provers
<1> QED BY <1>1, <1>2, <1>3 DEF AccessInvariant, Later, Sane, Trusted

\* A recovery link wrote another password.
LEMMA RecoveredLater ==
    ASSUME AccessInvariant, NEW k \in Links,
           account' = [account EXCEPT !.password = k, !.failures = 0, !.locked = FALSE], UNCHANGED provedBy
    PROVE  Later
<1>1. account' \in AccountRow
  BY NoFailures, PasswordNames DEF AccessInvariant, Shapes, AccountRow
<1>2. UNCHANGED <<account.exists, account.verified, account.proof>>
      /\ account'.failures = 0 /\ account'.password = k
  BY DEF AccessInvariant, Shapes, AccountRow
<1> QED BY <1>1, <1>2, PasswordNames DEF AccessInvariant, Shapes, Later, Sane, Trusted

\* Google proved the owner: of a new account, of one nobody proved, whose
\* password goes, or of one that was read as proved, which stays proved.
LEMMA LinkedLater ==
    ASSUME AccessInvariant, NEW seen \in AccountRow, WasRead(seen), Proves("google"),
           ~(account.exists /\ ~seen.exists),
           account' = IF ~seen.exists THEN [NoAccount EXCEPT !.exists = TRUE, !.verified = TRUE, !.google = TRUE]
                      ELSE IF ~seen.verified THEN OwnedByGoogle(account)
                      ELSE [account EXCEPT !.google = TRUE]
    PROVE  Later
<1>1. /\ provedBy' \in Provers
      /\ account.verified => provedBy' = provedBy
  BY DEF AccessInvariant, Shapes, Proves, Provers
<1>2. CASE ~seen.exists
  <2>1. account' = [exists |-> TRUE, password |-> "none", verified |-> TRUE, google |-> TRUE,
                    failures |-> 0, locked |-> FALSE, proof |-> "none"]
    BY <1>2 DEF NoAccount
  <2>2. account' \in AccountRow /\ account'.exists = TRUE /\ account'.verified = TRUE /\ account'.password = "none"
    BY <2>1, PasswordNames, CreatedRow
  <2> QED BY <1>1, <2>2 DEF Later, Sane, Trusted
<1>3. CASE seen.exists /\ ~seen.verified
  <2>1. account' = [account EXCEPT !.google = TRUE, !.verified = TRUE, !.password = "none"]
    BY <1>3 DEF OwnedByGoogle
  <2>2. account' \in AccountRow
    BY <2>1, PasswordNames DEF AccessInvariant, Shapes, AccountRow
  <2>3. UNCHANGED <<account.exists, account.failures>> /\ account'.verified /\ account'.password = "none"
    BY <2>1 DEF AccessInvariant, Shapes, AccountRow
  <2> QED BY <1>1, <1>3, <2>2, <2>3 DEF AccessInvariant, Later, Sane, Trusted, WasRead
<1>4. CASE seen.exists /\ seen.verified
  <2>1. account' = [account EXCEPT !.google = TRUE]
    BY <1>4
  <2>2. account' \in AccountRow
        /\ UNCHANGED <<account.exists, account.failures, account.verified, account.password, account.proof>>
    BY <2>1 DEF AccessInvariant, Shapes, AccountRow
  <2>3. account.verified
    BY <1>4 DEF WasRead
  <2> QED BY <1>1, <2>2, <2>3 DEF AccessInvariant, Shapes, Later, Sane, Trusted
<1> QED BY <1>2, <1>3, <1>4

-----------------------------------------------------------------------------
(* Every step keeps the invariant: registering and proving the email *)

\* The steps a request goes on to, one fact for the lemmas above.
LEMMA StepNames ==
    /\ {"register", "verify", "recover", "reset", "signin", "state", "create", "link", "claim", "complete",
        "exchange", "identify", "identity"} \subseteq AccountSteps \ {"write", "proof", "compare", "prove", "forgive", "open"}
    /\ {"write", "proof", "compare", "prove", "forgive", "open", "done"} \subseteq AccountSteps
BY DEF AccountSteps

\* The check before a registration keeps the invariant,
LEMMA RegisterCheckKeeps ==
    ASSUME AccessInvariant, NEW t \in Attempts, RegisterCheck(t)
    PROVE  AccessInvariant'
<1>1. ItsSubject("create", work[t].on)
  BY DEF ItsSubject
<1> QED BY <1>1, StepNames, StopsKeeps, ReadsKeeps DEF RegisterCheck

\* the registration does,
LEMMA CreateAccountKeeps ==
    ASSUME AccessInvariant, NEW t \in Attempts, CreateAccount(t)
    PROVE  AccessInvariant'
<1>1. CASE account.exists
  BY <1>1, StopsKeeps DEF CreateAccount
<1>2. CASE ~account.exists
  <2>1. /\ account' = [NoAccount EXCEPT !.exists = TRUE, !.password = "registered"]
        /\ Continues(t, "proof")
        /\ UNCHANGED <<links, signIns, opened, writes, provedBy>>
    BY <1>2 DEF CreateAccount
  <2>2. Later /\ ClaimsAlone
    BY <1>2, <2>1, CreatedLater, LinksStay
  <2>3. account'.exists
    BY <2>1 DEF NoAccount
  <2>4. ItsSubject("proof", work[t].on) /\ ~OpensRegistered("proof", work[t])
    BY DEF ItsSubject, OpensRegistered
  <2> QED BY <2>1, <2>2, <2>3, <2>4, StepNames, ContinuesKeeps DEF AccessInvariant, Shapes
<1> QED BY <1>1, <1>2

\* the link for the address,
LEMMA EmailVerificationKeeps ==
    ASSUME AccessInvariant, NEW t \in Attempts, createEmailVerificationToken(t)
    PROVE  AccessInvariant'
<1>1. account.exists
  BY DEF createEmailVerificationToken, AccessInvariant, Relies
<1>2. Later /\ ClaimsAlone
  BY <1>1, ProofLater, LinksStay DEF createEmailVerificationToken
<1> QED BY <1>2, FinishesKeeps DEF createEmailVerificationToken, AccessInvariant, Shapes

\* the read of that link,
LEMMA VerifyReadKeeps ==
    ASSUME AccessInvariant, NEW t \in Attempts, VerifyRead(t)
    PROVE  AccessInvariant'
<1>1. ItsSubject("prove", work[t].on)
  BY DEF ItsSubject
<1>2. account.proof = "live" => account.exists
  BY DEF AccessInvariant, Sane
<1> QED BY <1>1, <1>2, StepNames, StopsKeeps, ReadsKeeps DEF VerifyRead

\* the mark of the address,
LEMMA EmailVerifiedKeeps ==
    ASSUME AccessInvariant, NEW t \in Attempts, markEmailVerified(t)
    PROVE  AccessInvariant'
<1>1. account.exists
  BY DEF markEmailVerified, AccessInvariant, Relies
<1>2. Later /\ ClaimsAlone
  BY <1>1, VerifiedLater, LinksStay DEF markEmailVerified
<1> QED BY <1>2, FinishesKeeps DEF markEmailVerified, AccessInvariant, Shapes

-----------------------------------------------------------------------------
(* The recovery link *)

\* the end of the earlier links,
LEMMA RevokeLinksKeeps ==
    ASSUME AccessInvariant, NEW t \in Attempts, RevokeLinks(t)
    PROVE  AccessInvariant'
<1>1. CASE ~account.exists
  BY <1>1, StopsKeeps DEF RevokeLinks
<1>2. CASE account.exists
  <2>1. /\ links' = [k \in Links |-> IF links[k] \in {"live", "expired"} THEN "revoked" ELSE links[k]]
        /\ Continues(t, "link")
        /\ UNCHANGED <<account, signIns, opened, writes, provedBy>>
    BY <1>2 DEF RevokeLinks
  <2>2. links' \in [Links -> LinkStates] /\ \A k \in Links : links[k] = "used" => links'[k] = "used"
    BY <2>1 DEF AccessInvariant, Shapes, LinkStates
  <2>3. Later /\ ClaimsAlone
    BY <2>1, <2>2, AccountStays DEF ClaimsAlone
  <2>4. ItsSubject("link", work[t].on) /\ ~OpensRegistered("link", work[t])
    BY DEF ItsSubject, OpensRegistered
  <2> QED BY <2>1, <2>3, <2>4, StepNames, ContinuesKeeps DEF AccessInvariant, Shapes
<1> QED BY <1>1, <1>2

\* A link that is not used yet changes its state.
LEMMA LinkMoves ==
    ASSUME AccessInvariant, NEW k \in Links, links[k] # "used", NEW state \in LinkStates,
           links' = [links EXCEPT ![k] = state], UNCHANGED writes
    PROVE  ClaimsAlone
BY DEF AccessInvariant, Shapes, ClaimsAlone

\* a new link,
LEMMA CreateLinkKeeps ==
    ASSUME AccessInvariant, NEW t \in Attempts, NEW k \in Links, CreateLink(t, k)
    PROVE  AccessInvariant'
<1>1. "live" \in LinkStates /\ links[k] # "used"
  BY DEF LinkStates, CreateLink
<1>2. Later /\ ClaimsAlone
  BY <1>1, LinkMoves, AccountStays DEF CreateLink
<1> QED BY <1>2, FinishesKeeps DEF CreateLink, AccessInvariant, Shapes

\* the read of the link of a password,
LEMMA ResetReadKeeps ==
    ASSUME AccessInvariant, NEW t \in Attempts, ResetRead(t)
    PROVE  AccessInvariant'
<1>1. ItsSubject("claim", work[t].on)
  BY DEF ItsSubject, ResetRead, AccessInvariant, Relies
<1> QED BY <1>1, StepNames, StopsKeeps, ReadsKeeps DEF ResetRead

\* The claim: the link was live, so nobody wrote with it or is about to.
LEMMA ClaimLinkKeeps ==
    ASSUME AccessInvariant, NEW t \in Attempts, ClaimLink(t)
    PROVE  AccessInvariant'
<1>1. CASE links[work[t].on] # "live"
  BY <1>1, StopsKeeps DEF ClaimLink
<1>2. CASE links[work[t].on] = "live"
  <2> DEFINE k == work[t].on
  <2>1. /\ links' = [links EXCEPT ![k] = "used"]
        /\ step' = [step EXCEPT ![t] = "write"] /\ work' = work
        /\ UNCHANGED <<account, signIns, opened, writes, provedBy>>
    BY <1>2 DEF ClaimLink, Continues
  <2>2. k \in Links /\ work[t] \in Work /\ Relies(step[t], work[t])
    BY DEF ClaimLink, AccessInvariant, Shapes, Relies, ItsSubject
  <2>3. links' \in [Links -> LinkStates] /\ links'[k] = "used" /\ \A j \in Links \ {k} : links'[j] = links[j]
    BY <2>1, <2>2 DEF AccessInvariant, Shapes, LinkStates
  <2>4. step'[t] = "write" /\ \A r \in Attempts \ {t} : step'[r] = step[r]
    BY <2>1 DEF AccessInvariant, Shapes
  <2>5. writes[k] = 0 /\ \A r \in Attempts : step[r] = "write" => work[r].on \in Links \ {k}
    <3>1. writes[k] \in Nat /\ writes[k] <= 1 /\ writes[k] # 1
      BY <1>2, <2>2 DEF AccessInvariant, Shapes, ClaimedOnce
    <3>2. \A r \in Attempts : step[r] = "write" => work[r].on \in Links /\ links[work[r].on] = "used"
      BY DEF AccessInvariant, Relies, ItsSubject, ClaimedOnce
    <3> QED BY <1>2, <3>1, <3>2
  <2>6. ClaimedOnce'
    <3>1. \A r \in Attempts : step'[r] = "write" => links'[work'[r].on] = "used" /\ writes'[work'[r].on] = 0
      BY <2>1, <2>3, <2>4, <2>5 DEF AccessInvariant, ClaimedOnce
    <3>2. \A r, q \in Attempts : step'[r] = "write" /\ step'[q] = "write" /\ work'[r].on = work'[q].on => r = q
      BY <2>1, <2>4, <2>5 DEF AccessInvariant, ClaimedOnce
    <3>3. \A j \in Links : writes'[j] <= 1 /\ (writes'[j] = 1 => links'[j] = "used")
      BY <2>1, <2>3 DEF AccessInvariant, ClaimedOnce
    <3> QED BY <3>1, <3>2, <3>3 DEF ClaimedOnce
  <2>7. Later
    BY <2>1, AccountStays
  <2>8. work' = [work EXCEPT ![t] = work[t]]
    BY <2>1 DEF AccessInvariant, Shapes
  <2>9. PICK w \in Work : w = work[t]
    BY <2>2
  <2>10. Relies("write", w)'
    BY <2>2, <2>9, <2>7 DEF Relies, ItsSubject, WasRead, Trusted, OpensRegistered, Later
  <2> HIDE DEF k
  <2> QED BY <2>1, <2>3, <2>6, <2>7, <2>8, <2>9, <2>10, StepNames, Onward DEF AccessInvariant, Shapes
<1> QED BY <1>1, <1>2

\* The write: only this request claimed the link.
LEMMA WritePasswordKeeps ==
    ASSUME AccessInvariant, NEW t \in Attempts, WritePassword(t)
    PROVE  AccessInvariant'
<1>1. PICK k \in Links : k = work[t].on
  BY DEF WritePassword, AccessInvariant, Relies, ItsSubject
<1>2. /\ account' = [account EXCEPT !.password = k, !.failures = 0, !.locked = FALSE]
      /\ writes' = [writes EXCEPT ![k] = @ + 1]
      /\ opened' = SessionsClosed(opened)
      /\ step' = [step EXCEPT ![t] = "done"] /\ work' = [work EXCEPT ![t] = Nothing]
      /\ UNCHANGED <<links, signIns, provedBy>>
  BY <1>1 DEF WritePassword, Finishes
<1>3. Later
  BY <1>2, RecoveredLater
<1>4. links[k] = "used" /\ writes[k] = 0
  BY <1>1 DEF WritePassword, AccessInvariant, ClaimedOnce
<1>5. writes' \in [Links -> Nat] /\ writes'[k] = 1 /\ \A j \in Links \ {k} : writes'[j] = writes[j]
  BY <1>2, <1>4 DEF AccessInvariant, Shapes
<1>6. \A r \in Attempts : step'[r] = "write" => step[r] = "write" /\ work'[r] = work[r] /\ work[r].on \in Links \ {k}
  <2>1. \A r \in Attempts : step'[r] = "write" => r # t /\ step'[r] = step[r] /\ work'[r] = work[r]
    BY <1>2 DEF AccessInvariant, Shapes
  <2> QED BY <1>1, <2>1 DEF WritePassword, AccessInvariant, ClaimedOnce, Relies, ItsSubject
<1>7. ClaimedOnce'
  BY <1>2, <1>4, <1>5, <1>6 DEF AccessInvariant, ClaimedOnce
<1>8. opened' \in [Cookies -> Credentials] /\ \A s \in Cookies : opened'[s] # "registered"
  BY <1>2 DEF SessionsClosed, Credentials
<1>9. Relies("done", Nothing)'
  BY NothingType DEF Relies, ItsSubject, WasRead, Trusted, OpensRegistered
<1> QED BY <1>2, <1>3, <1>5, <1>7, <1>8, <1>9, StepNames, NothingType, Onward DEF AccessInvariant, Shapes

-----------------------------------------------------------------------------
(* The sign-in with a password *)

\* the read of a sign-in,
LEMMA SignInReadKeeps ==
    ASSUME AccessInvariant, NEW t \in Attempts, SignInRead(t)
    PROVE  AccessInvariant'
<1>1. ItsSubject("compare", work[t].on)
  BY DEF ItsSubject, SignInRead, AccessInvariant, Relies
<1> QED BY <1>1, StepNames, StopsKeeps, ReadsKeeps DEF SignInRead

\* The row read was proved: the account still is, and by the same prover.
LEMMA CompareKeeps ==
    ASSUME AccessInvariant, NEW t \in Attempts, Compare(t)
    PROVE  AccessInvariant'
<1> DEFINE seen == work[t].seen
<1>1. Relies(step[t], work[t]) /\ step[t] = "compare" /\ work[t].on = NoName /\ account.exists
  BY DEF AccessInvariant, Compare, Relies, ItsSubject
<1>2. CASE work[t].given # seen.password
  <2>1. PICK n, b : n = LeastOf(account.failures + 1, MaxRetries) /\ b = (seen.failures + 1 >= MaxRetries)
    OBVIOUS
  <2>2. n \in 0..MaxRetries /\ b \in BOOLEAN
    BY <2>1, MaxRetriesAssumption DEF LeastOf, AccessInvariant, Shapes, AccountRow
  <2>3. account' = [account EXCEPT !.failures = n, !.locked = b]
        /\ Finishes(t) /\ UNCHANGED <<links, signIns, opened, writes, provedBy>>
    BY <1>2, <2>1 DEF Compare
  <2>4. Later /\ ClaimsAlone
    BY <1>1, <2>2, <2>3, FailuresLater, LinksStay
  <2> QED BY <2>3, <2>4, FinishesKeeps DEF AccessInvariant, Shapes
<1>3. CASE work[t].given = seen.password /\ ~seen.verified
  BY <1>3, StopsKeeps DEF Compare
<1>4. CASE work[t].given = seen.password /\ seen.verified
  <2>1. Continues(t, "forgive") /\ UNCHANGED <<account, links, signIns, opened, writes, provedBy>>
    BY <1>4 DEF Compare, storedVars
  <2>2. OpensRegistered("forgive", work[t]) => account'.verified /\ provedBy' = "link"
    BY <1>1, <1>4, <2>1 DEF Relies, WasRead, Trusted, OpensRegistered
  <2>3. ItsSubject("forgive", work[t].on)
    BY <1>1 DEF ItsSubject
  <2>4. Later /\ ClaimsAlone
    BY <2>1, AccountStays, LinksStay
  <2> HIDE DEF seen
  <2> QED BY <2>1, <2>2, <2>3, <2>4, StepNames, ContinuesKeeps DEF AccessInvariant, Shapes
<1> QED BY <1>2, <1>3, <1>4

\* the reset of its failures,
LEMMA LoginFailuresKeeps ==
    ASSUME AccessInvariant, NEW t \in Attempts, resetLoginFailures(t)
    PROVE  AccessInvariant'
<1>1. Later /\ ClaimsAlone
  <2>1. PICK n \in 0..MaxRetries, b \in BOOLEAN : n = 0 /\ b = FALSE
    BY NoFailures
  <2>2. account' = [account EXCEPT !.failures = n, !.locked = b] /\ UNCHANGED <<links, writes, provedBy>>
    BY <2>1 DEF resetLoginFailures
  <2>3. n > 0 => account.exists
    BY <2>1
  <2>4. Later
    BY <2>2, <2>3, FailuresLater
  <2> QED BY <2>2, <2>4, LinksStay
<1>2. ItsSubject("open", work[t].on)
  BY DEF ItsSubject, resetLoginFailures, AccessInvariant, Relies
<1>3. OpensRegistered("open", work[t]) => account'.verified /\ provedBy' = "link"
  BY <1>1 DEF OpensRegistered, resetLoginFailures, AccessInvariant, Relies, Later
<1> QED BY <1>1, <1>2, <1>3, StepNames, ContinuesKeeps DEF resetLoginFailures, AccessInvariant, Shapes

\* its session,
LEMMA SecureSessionKeeps ==
    ASSUME AccessInvariant, NEW t \in Attempts, NEW s \in Cookies, createSecureSession(t, s)
    PROVE  AccessInvariant'
<1>1. Later /\ ClaimsAlone
  BY AccountStays, LinksStay DEF createSecureSession
<1>2. work[t].on \in SignIns \cup {NoName} /\ work[t].given \in Passwords /\ step[t] = "open"
  BY DEF createSecureSession, AccessInvariant, Shapes, Work, Relies, ItsSubject
<1>3. Credential(work[t]) \in Credentials
  BY <1>2 DEF Credential, Credentials
<1>4. opened' \in [Cookies -> Credentials]
  BY <1>3 DEF createSecureSession, AccessInvariant, Shapes
<1>5. Credential(work[t]) = "registered" => OpensRegistered(step[t], work[t])
  BY <1>2, LinksAssumption DEF Credential, OpensRegistered
<1>6. \A c \in Cookies : opened'[c] = "registered" => opened[c] = "registered" \/ OpensRegistered(step[t], work[t])
  BY <1>5 DEF createSecureSession, AccessInvariant, Shapes
<1> QED BY <1>1, <1>4, <1>6, FinishesKeeps DEF createSecureSession, AccessInvariant, Shapes

-----------------------------------------------------------------------------
(* The sign-in with Google *)

\* the read of the state of a sign-in with Google,
LEMMA StateReadKeeps ==
    ASSUME AccessInvariant, NEW t \in Attempts, StateRead(t)
    PROVE  AccessInvariant'
<1>1. ItsSubject("complete", work[t].on)
  BY DEF ItsSubject, StateRead, AccessInvariant, Relies
<1> QED BY <1>1, StepNames, StopsKeeps, ReadsKeeps DEF StateRead

\* its completion,
LEMMA CompleteStateKeeps ==
    ASSUME AccessInvariant, NEW t \in Attempts, CompleteState(t)
    PROVE  AccessInvariant'
<1>1. Later /\ ClaimsAlone
  BY AccountStays, LinksStay DEF CompleteState
<1>2. signIns' \in [SignIns -> SignInRow]
  BY DEF CompleteState, AccessInvariant, Shapes, SignInRow
<1>3. ItsSubject("exchange", work[t].on) /\ ~OpensRegistered("exchange", work[t])
  BY DEF ItsSubject, OpensRegistered, CompleteState, AccessInvariant, Relies
<1> QED BY <1>1, <1>2, <1>3, StepNames, ContinuesKeeps DEF CompleteState

\* the exchange of its code,
LEMMA ExchangeCodeKeeps ==
    ASSUME AccessInvariant, NEW t \in Attempts, ExchangeCode(t)
    PROVE  AccessInvariant'
<1>1. CASE signIns[work[t].on].exchanged
  BY <1>1, StopsKeeps DEF ExchangeCode
<1>2. CASE ~signIns[work[t].on].exchanged
  <2>1. Later /\ ClaimsAlone
    BY <1>2, AccountStays, LinksStay DEF ExchangeCode
  <2>3. signIns' \in [SignIns -> SignInRow]
    BY <1>2 DEF ExchangeCode, AccessInvariant, Shapes, SignInRow
  <2>2. ItsSubject("identify", work[t].on) /\ ~OpensRegistered("identify", work[t])
    BY DEF ItsSubject, OpensRegistered, ExchangeCode, AccessInvariant, Relies
  <2> QED BY <1>2, <2>1, <2>2, <2>3, StepNames, ContinuesKeeps DEF ExchangeCode
<1> QED BY <1>1, <1>2

\* the read before it is linked to the account,
LEMMA LinkReadKeeps ==
    ASSUME AccessInvariant, NEW t \in Attempts, LinkRead(t)
    PROVE  AccessInvariant'
<1>1. ItsSubject("identity", work[t].on)
  BY DEF ItsSubject, LinkRead, AccessInvariant, Relies
<1> QED BY <1>1, StepNames, StopsKeeps, ReadsKeeps DEF LinkRead

\* the write that links it,
LEMMA LinkWriteKeeps ==
    ASSUME AccessInvariant, NEW t \in Attempts, LinkWrite(t)
    PROVE  AccessInvariant'
<1>1. PICK seen \in AccountRow : seen = work[t].seen /\ WasRead(seen)
  BY DEF AccessInvariant, Shapes, Work, Relies
<1>2. work[t].on \in SignIns /\ work[t].on # NoName
  BY NamesAssumption DEF LinkWrite, AccessInvariant, Relies, ItsSubject
<1>3. ItsSubject("open", work[t].on) /\ ~OpensRegistered("open", work[t])
  BY <1>2 DEF ItsSubject, OpensRegistered
<1>4. CASE seen.google
  <2>1. Continues(t, "open") /\ UNCHANGED <<account, links, signIns, opened, writes, provedBy>>
    BY <1>1, <1>4 DEF LinkWrite, storedVars
  <2>2. Later /\ ClaimsAlone
    BY <2>1, AccountStays, LinksStay
  <2> QED BY <1>3, <2>1, <2>2, StepNames, ContinuesKeeps DEF AccessInvariant, Shapes
<1>5. CASE ~seen.google /\ (account.google \/ (account.exists /\ ~seen.exists))
  BY <1>1, <1>5, StopsKeeps DEF LinkWrite
<1>6. CASE ~seen.google /\ ~(account.google \/ (account.exists /\ ~seen.exists))
  <2>1. /\ account' = IF ~seen.exists THEN [NoAccount EXCEPT !.exists = TRUE, !.verified = TRUE, !.google = TRUE]
                      ELSE IF ~seen.verified THEN OwnedByGoogle(account)
                      ELSE [account EXCEPT !.google = TRUE]
        /\ Proves("google") /\ Continues(t, "open")
        /\ UNCHANGED <<links, signIns, opened, writes>>
    BY <1>1, <1>6 DEF LinkWrite
  <2>2. Later /\ ClaimsAlone
    BY <1>1, <1>6, <2>1, LinkedLater, LinksStay
  <2> QED BY <1>3, <2>1, <2>2, StepNames, ContinuesKeeps DEF AccessInvariant, Shapes
<1> QED BY <1>4, <1>5, <1>6

-----------------------------------------------------------------------------
(* The clock, and the sign-in that starts *)

\* the time that passes,
LEMMA ClockTicksKeep ==
    ASSUME AccessInvariant, Clock
    PROVE  AccessInvariant'
<1>1. CASE ExpireProof
  <2>1. account.exists
    BY <1>1 DEF ExpireProof, AccessInvariant, Sane
  <2>2. Later /\ ClaimsAlone
    BY <1>1, <2>1, ProofLater, LinksStay DEF ExpireProof
  <2> QED BY <1>1, <2>2, ClockKeeps DEF ExpireProof, AccessInvariant, Shapes
<1>2. CASE Unlock
  <2>1. account' = [account EXCEPT !.failures = account.failures, !.locked = FALSE]
    BY <1>2 DEF Unlock, AccessInvariant, Shapes, AccountRow
  <2>2. account.failures \in 0..MaxRetries /\ (account.failures > 0 => account.exists)
    BY DEF AccessInvariant, Shapes, AccountRow, Sane
  <2>3. Later /\ ClaimsAlone
    BY <1>2, <2>1, <2>2, FailuresLater, LinksStay DEF Unlock
  <2> QED BY <1>2, <2>3, ClockKeeps DEF Unlock, AccessInvariant, Shapes
<1>3. ASSUME NEW k \in Links, ExpireLink(k) PROVE AccessInvariant'
  <2>1. "expired" \in LinkStates /\ links[k] # "used"
    BY <1>3 DEF LinkStates, ExpireLink
  <2>2. Later /\ ClaimsAlone
    BY <1>3, <2>1, LinkMoves, AccountStays DEF ExpireLink
  <2> QED BY <1>3, <2>2, ClockKeeps DEF ExpireLink, AccessInvariant, Shapes
<1> QED BY <1>1, <1>2, <1>3 DEF Clock

\* and a sign-in with Google that starts.
LEMMA StartSignInKeeps ==
    ASSUME AccessInvariant, NEW x \in SignIns, StartSignIn(x)
    PROVE  AccessInvariant'
<1>1. Later /\ ClaimsAlone
  BY AccountStays, LinksStay DEF StartSignIn
<1>2. signIns' \in [SignIns -> SignInRow]
  BY DEF StartSignIn, AccessInvariant, Shapes, SignInRow
<1> QED BY <1>1, <1>2, ClockKeeps DEF StartSignIn

-----------------------------------------------------------------------------
(* The theorems *)

\* The account at rest satisfies the invariant.
LEMMA InitAccess == AccountInit => AccessInvariant
<1> SUFFICES ASSUME AccountInit PROVE AccessInvariant
  OBVIOUS
<1>1. account \in AccountRow /\ Sane(account)
  <2>1. CASE account = NoAccount
    BY <2>1, NothingType, NoFailures DEF NoAccount, Sane
  <2>2. CASE account # NoAccount
    <3>1. account \in [exists : {TRUE}, password : {"registered"}, verified : BOOLEAN, google : {FALSE},
                       failures : {0, MaxRetries - 1}, locked : {FALSE}, proof : {"live", "spent"}]
      BY <2>2 DEF AccountInit
    <3>2. {TRUE} \subseteq BOOLEAN /\ {FALSE} \subseteq BOOLEAN /\ {"registered"} \subseteq Passwords
          /\ {0, MaxRetries - 1} \subseteq 0..MaxRetries /\ {"live", "spent"} \subseteq {"none", "live", "spent"}
      BY PasswordNames, MaxRetriesAssumption
    <3> QED BY <3>1, <3>2 DEF AccountRow, Sane
  <2> QED BY <2>1, <2>2
<1>2. provedBy \in Provers /\ Trusted(account)
  BY DEF AccountInit, Provers, Trusted
<1>3. links \in [Links -> LinkStates] /\ signIns \in [SignIns -> SignInRow] /\ opened \in [Cookies -> Credentials]
  BY DEF AccountInit, LinkStates, SignInRow, Credentials
<1>4. \A s \in Cookies : opened[s] # "registered"
  BY DEF AccountInit
<1>5. /\ step \in [Attempts -> AccountSteps] /\ work \in [Attempts -> Work] /\ writes \in [Links -> Nat]
      /\ \A t \in Attempts : step[t] = "new" /\ work[t] = Nothing
      /\ \A k \in Links : writes[k] = 0
  BY NothingType DEF AccountInit, AccountSteps
<1>6. \A t \in Attempts : Relies(step[t], work[t])
  BY <1>5, NothingType DEF Relies, ItsSubject, WasRead, Trusted, OpensRegistered
<1>7. ClaimedOnce
  BY <1>5 DEF ClaimedOnce
<1> QED BY <1>1, <1>2, <1>3, <1>4, <1>5, <1>6, <1>7 DEF AccessInvariant, Shapes, SessionsProved

\* Every step of a request keeps the invariant.
LEMMA RequestStepKeeps ==
    ASSUME AccessInvariant, NEW t \in Attempts, NewRequest(t) \/ PasswordStep(t) \/ GoogleStep(t) \/ Interrupt(t)
    PROVE  AccessInvariant'
<1>1. CASE NewRequest(t)
  BY <1>1, NewRequestKeeps
<1>2. CASE PasswordStep(t)
  BY <1>2, RegisterCheckKeeps, CreateAccountKeeps, EmailVerificationKeeps, VerifyReadKeeps, EmailVerifiedKeeps,
     RevokeLinksKeeps, CreateLinkKeeps, ResetReadKeeps, ClaimLinkKeeps, WritePasswordKeeps,
     SignInReadKeeps, CompareKeeps, LoginFailuresKeeps, SecureSessionKeeps
     DEF PasswordStep
<1>3. CASE GoogleStep(t)
  BY <1>3, StateReadKeeps, CompleteStateKeeps, ExchangeCodeKeeps, LinkReadKeeps, LinkWriteKeeps DEF GoogleStep
<1>4. CASE Interrupt(t)
  BY <1>4, StopsKeeps DEF Interrupt
<1> QED BY <1>1, <1>2, <1>3, <1>4

\* A step that changes nothing keeps the invariant.
LEMMA AccessStutters == AccessInvariant /\ UNCHANGED accountVars => AccessInvariant'
<1> SUFFICES ASSUME AccessInvariant, UNCHANGED accountVars PROVE AccessInvariant'
  OBVIOUS
<1>1. UNCHANGED <<account, links, signIns, opened, step, work, writes, provedBy>>
  BY DEF accountVars
<1> QED BY <1>1, AccountStays, LinksStay, ClockKeeps DEF AccessInvariant, Shapes

\* The invariant of the registration, the links, the sign-ins and the sessions.
THEOREM AccessKeeps == AccountSpec => []AccessInvariant
<1>1. AccessInvariant /\ [AccountNext]_accountVars => AccessInvariant'
  BY RequestStepKeeps, StartSignInKeeps, ClockTicksKeep, AccessStutters DEF AccountNext
<1> QED BY <1>1, InitAccess, PTL DEF AccountSpec

\* The rows of an account, its links, its sign-ins and its sessions keep their
\* shape in every interleaving of the requests.
THEOREM AccountTyped == AccountSpec => []AccountTypeOK
<1>1. AccessInvariant => AccountTypeOK
  BY DEF AccessInvariant, Shapes, Sane, AccountTypeOK, LinkStates, SignInRow, Credentials, Provers
<1> QED BY <1>1, AccessKeeps, PTL

\* A recovery link writes one password at most, for any number of requests that
\* carry it and any moment at which they stop or the link expires.
THEOREM LinkAlwaysWritesOnce == AccountSpec => []LinkWritesOnce
<1>1. AccessInvariant => LinkWritesOnce
  BY DEF AccessInvariant, ClaimedOnce, LinkWritesOnce
<1> QED BY <1>1, AccessKeeps, PTL

\* No session is opened with the password of the registration unless the owner
\* of the email followed the verification link, whatever Google proved meanwhile.
THEOREM RegisteredAlwaysNeedsProof == AccountSpec => []RegisteredNeedsProof
<1>1. AccessInvariant => RegisteredNeedsProof
  BY DEF AccessInvariant, SessionsProved, RegisteredNeedsProof
<1> QED BY <1>1, AccessKeeps, PTL
=============================================================================
