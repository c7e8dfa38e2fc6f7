--------------------------- MODULE TeamMembership ---------------------------
(***************************************************************************)
(* The team of a firm (features/team/team.service.ts): its members, their  *)
(* roles, the invitations that bring people in, and the sessions that work *)
(* in the firm (organization-access.service.ts, session.repository.ts).    *)
(*                                                                         *)
(* The firm is the personal space of its founder until he makes it a team. *)
(* Of the other organizations only the space each person may have of their *)
(* own matters, as the place a session goes when it leaves the firm.  A    *)
(* person stands for the email of their account, which never changes.      *)
(*                                                                         *)
(* Each handler is a request that runs its queries one by one, interleaved *)
(* with the others' and cut short anywhere; a $transaction is one step.    *)
(* Names, emails sent and the audit trail are left out, and the roles that *)
(* do not administer are one.                                              *)
(***************************************************************************)
EXTENDS Integers, FiniteSets

CONSTANTS
    Users,          \* people with an account
    NoUser,         \* a nullable column without a person
    Founder,        \* the owner of the space that becomes the team
    OwnSpace,       \* people with an active space of their own
    Invitations,    \* rows of InvitacionOrganizacion
    NoInvitation,
    Sessions,       \* rows of Sesion
    NoSession,
    Requests        \* requests to the server, each served once

ASSUME FounderAssumption == Founder \in Users /\ NoUser \notin Users
ASSUME OwnSpaceAssumption == OwnSpace \subseteq Users \ {Founder}
ASSUME RowsAssumption == NoInvitation \notin Invitations /\ NoSession \notin Sessions
ASSUME UsersAssumption == IsFiniteSet(Users)

VARIABLES
    org,            \* the firm: scope, owner and founder
    members,        \* the MiembroOrganizacion row of each person in the firm
    invitations,    \* the row of each invitation
    sessions,       \* the row of each session
    teamPc,             \* what each request does next
    task,           \* what it works on and what it has read
    unlapsed        \* history: those who stopped administering since their
                    \* invitations were last revoked

rowVars == <<org, members, invitations, sessions>>
requestVars == <<teamPc, task>>
teamVars == <<rowVars, requestVars, unlapsed>>

-----------------------------------------------------------------------------
(* Rows *)

Roles == {"ADMINISTRADOR", "VALUADOR"}

Places == {"firm", "own"}

Organization == [scope : {"PERSONAL", "TEAM"}, owner : Users \cup {NoUser}, founder : Users \cup {NoUser}]

\* A person who was never a member has no row.
Member == [role : Roles \cup {"none"}, active : BOOLEAN]

NoMember == [role |-> "none", active |-> FALSE]

Invitation ==
    [state : {"none", "pendiente", "aceptada", "cancelada"}, expired : BOOLEAN,
     to : Users \cup {NoUser}, role : Roles, by : Users \cup {NoUser}, acceptedBy : Users \cup {NoUser}]

NoRow ==
    [state |-> "none", expired |-> FALSE, to |-> NoUser, role |-> "VALUADOR",
     by |-> NoUser, acceptedBy |-> NoUser]

Session == [user : Users \cup {NoUser}, place : Places, open : BOOLEAN]

Closed == [user |-> NoUser, place |-> "own", open |-> FALSE]

Task ==
    [op : {"none", "settings", "invite", "resend", "revoke", "role", "remove", "accept", "switch", "login"},
     by : Users \cup {NoUser}, session : Sessions \cup {NoSession}, member : Users \cup {NoUser},
     role : Roles, invitation : Invitations \cup {NoInvitation}, place : Places,
     seenOrg : Organization, seenRole : Roles \cup {"none"}, before : SUBSET Invitations]

NoOrganization == [scope |-> "PERSONAL", owner |-> NoUser, founder |-> NoUser]

Idle ==
    [op |-> "none", by |-> NoUser, session |-> NoSession, member |-> NoUser,
     role |-> "VALUADOR", invitation |-> NoInvitation, place |-> "own",
     seenOrg |-> NoOrganization, seenRole |-> "none", before |-> {}]

Belongs(u) == members[u].active

\* USUARIO_ADMINISTRAR is the administrators' permission.
Administers(u) == members[u].active /\ members[u].role = "ADMINISTRADOR"

Administrators == {u \in Users : Administers(u)}

protectedUserId(o) == IF o.owner # NoUser THEN o.owner ELSE o.founder

\* Accepting or revoking settles a row, expiring only bars its acceptance.
invitationState(row) ==
    IF row.state = "pendiente" /\ row.expired THEN "vencida" ELSE row.state

PendingTo(u) == {i \in Invitations : invitations[i].state = "pendiente" /\ invitations[i].to = u}

PendingFrom(u) == {i \in Invitations : invitations[i].state = "pendiente" /\ invitations[i].by = u}

Revoked(rows) ==
    [i \in Invitations |-> IF i \in rows THEN [invitations[i] EXCEPT !.state = "cancelada"] ELSE invitations[i]]

Ended(rows) == [s \in Sessions |-> IF s \in rows THEN [sessions[s] EXCEPT !.open = FALSE] ELSE sessions[s]]

\* resolveSingleActiveMembership: the team first, else the space of their own.
HasPlace(u) == Belongs(u) \/ u \in OwnSpace

resolveDefaultOrganization(u) == IF Belongs(u) THEN "firm" ELSE "own"

-----------------------------------------------------------------------------
(* Requests *)

Starts(t, next, work) ==
    /\ teamPc[t] = "new"
    /\ teamPc' = [teamPc EXCEPT ![t] = next]
    /\ task' = [task EXCEPT ![t] = work]
    /\ UNCHANGED <<rowVars, unlapsed>>

GoesOn(t, next) ==
    /\ teamPc' = [teamPc EXCEPT ![t] = next]
    /\ UNCHANGED task

\* The request reads, and goes on with what it noted or refuses.
Passes(t, next) == GoesOn(t, next) /\ UNCHANGED <<rowVars, unlapsed>>

Notes(t, next, work) ==
    /\ teamPc' = [teamPc EXCEPT ![t] = next]
    /\ task' = [task EXCEPT ![t] = work]
    /\ UNCHANGED <<rowVars, unlapsed>>

RequestEnds(t) ==
    /\ teamPc' = [teamPc EXCEPT ![t] = "done"]
    /\ task' = [task EXCEPT ![t] = Idle]

\* A refusal, an error or a crash: the request stops where it is and what it
\* wrote stays.
RequestRefused(t) == RequestEnds(t) /\ UNCHANGED <<rowVars, unlapsed>>

Crash(t) == teamPc[t] \notin {"new", "done"} /\ RequestRefused(t)

\* requireApiUser(manageUsers) with a session that works in the firm.
LetIn(s) ==
    /\ sessions[s].open /\ sessions[s].place = "firm"
    /\ Administers(sessions[s].user)

Manages(t, s, op, member, role, i) ==
    /\ LetIn(s)
    /\ Starts(t, op, [Idle EXCEPT !.op = op, !.by = sessions[s].user, !.session = s,
                                  !.member = member, !.role = role, !.invitation = i])

-----------------------------------------------------------------------------
(* saveTeamSettings *)

SettingsRequest(t, s) == Manages(t, s, "settings", NoUser, "VALUADOR", NoInvitation)

ReadSettings(t) ==
    /\ teamPc[t] = "settings"
    /\ Notes(t, "convert", [task[t] EXCEPT !.seenOrg = org])

WriteSettings(t) ==
    /\ teamPc[t] = "convert"
    /\ LET seen == task[t].seenOrg
       IN  org' = [scope |-> "TEAM", owner |-> NoUser,
                   founder |-> IF seen.founder # NoUser THEN seen.founder ELSE seen.owner]
    /\ RequestEnds(t)
    /\ UNCHANGED <<members, invitations, sessions, unlapsed>>

-----------------------------------------------------------------------------
(* inviteMember, resendInvitation and revokeInvitation *)

InviteRequest(t, s, person, role) == Manages(t, s, "invite", person, role, NoInvitation)

\* Only a team invites, and only people who are not in it.
InviteCheck(t) ==
    /\ teamPc[t] = "invite"
    /\ IF org.scope = "TEAM" /\ ~Belongs(task[t].member)
         THEN Notes(t, "send", [task[t] EXCEPT !.before = PendingTo(task[t].member)])
         ELSE RequestRefused(t)

ResendRequest(t, s, i) == Manages(t, s, "resend", NoUser, "VALUADOR", i)

\* The new invitation is for the email and with the role of the row.
ResendRead(t) ==
    /\ teamPc[t] = "resend"
    /\ LET row == invitations[task[t].invitation]
       IN  IF row.state = "pendiente"
             THEN Notes(t, "send", [task[t] EXCEPT !.member = row.to, !.role = row.role,
                                                   !.before = PendingTo(row.to)])
             ELSE RequestRefused(t)

\* createInvitation: the pending one for that email is revoked and a new row
\* takes its place.
Send(t, i) ==
    /\ teamPc[t] = "send"
    /\ invitations[i].state = "none"
    /\ invitations' = [Revoked(PendingTo(task[t].member)) EXCEPT
                         ![i] = [state |-> "pendiente", expired |-> FALSE, to |-> task[t].member,
                                 role |-> task[t].role, by |-> task[t].by, acceptedBy |-> NoUser]]
    /\ RequestEnds(t)
    /\ UNCHANGED <<org, members, sessions, unlapsed>>

\* An invitation to the same email was committed while this transaction ran:
\* the unique index of pending ones refuses this one.
SendCollides(t) ==
    /\ teamPc[t] = "send"
    /\ PendingTo(task[t].member) \ task[t].before # {}
    /\ RequestRefused(t)

RevokeRequest(t, s, i) == Manages(t, s, "revoke", NoUser, "VALUADOR", i)

RevokeRead(t) ==
    /\ teamPc[t] = "revoke"
    /\ IF invitations[task[t].invitation].state = "pendiente"
         THEN Passes(t, "cancel")
         ELSE RequestRefused(t)

\* Mutant: an accepted invitation may be revoked.
RevokeAccepted(t) ==
    /\ teamPc[t] = "cancel"
    /\ invitations' = Revoked({task[t].invitation})
    /\ RequestEnds(t)
    /\ UNCHANGED <<org, members, sessions, unlapsed>>

\* The update names only the row; the check constraint of the table refuses to
\* revoke one that was accepted meanwhile.
RevokeWrite(t) ==
    /\ teamPc[t] = "cancel"
    /\ IF invitations[task[t].invitation].state = "aceptada"
         THEN RequestRefused(t)
         ELSE /\ invitations' = Revoked({task[t].invitation})
              /\ RequestEnds(t)
              /\ UNCHANGED <<org, members, sessions, unlapsed>>

\* Seven days pass.
Expire(i) ==
    /\ invitations[i].state = "pendiente" /\ ~invitations[i].expired
    /\ invitations' = [invitations EXCEPT ![i].expired = TRUE]
    /\ UNCHANGED <<org, members, sessions, requestVars, unlapsed>>

-----------------------------------------------------------------------------
(* changeMemberRole and removeMember *)

RoleRequest(t, s, member, role) == Manages(t, s, "role", member, role, NoInvitation)

RemoveRequest(t, s, member) == Manages(t, s, "remove", member, "VALUADOR", NoInvitation)

\* memberForChange reads the organization and the member,
MemberRead(t) ==
    /\ teamPc[t] \in {"role", "remove"}
    /\ IF Belongs(task[t].member)
         THEN Notes(t, "count", [task[t] EXCEPT !.seenOrg = org, !.seenRole = members[task[t].member].role])
         ELSE RequestRefused(t)

LosesAdmin(work) ==
    work.seenRole = "ADMINISTRADOR" /\ (work.op = "remove" \/ work.role # "ADMINISTRADOR")

\* Mutant: an administrator changes or removes the founder.
BlocksOneself(work) ==
    \/ work.member = work.by
    \/ LosesAdmin(work) /\ Cardinality(Administrators) <= 1

memberChangeBlock(work) ==
    \/ work.member = work.by
    \/ work.member = protectedUserId(work.seenOrg)
    \/ LosesAdmin(work) /\ Cardinality(Administrators) <= 1

\* and counts the administrators.
CountAdministrators(t) ==
    /\ teamPc[t] = "count"
    /\ IF memberChangeBlock(task[t])
         THEN RequestRefused(t)
         ELSE Passes(t, "change")

\* Those who administer before a step and not after it; who administers again
\* has nothing to lapse.
Unlapse(rows) ==
    unlapsed' = {u \in Users : /\ ~(rows[u].active /\ rows[u].role = "ADMINISTRADOR")
                               /\ u \in unlapsed \/ Administers(u)}

ChangeRole(t) ==
    /\ teamPc[t] = "change" /\ task[t].op = "role"
    /\ members' = [members EXCEPT ![task[t].member].role = task[t].role]
    /\ Unlapse(members')
    /\ IF LosesAdmin(task[t]) THEN GoesOn(t, "lapse") ELSE RequestEnds(t)
    /\ UNCHANGED <<org, invitations, sessions>>

Deactivate(t) ==
    /\ teamPc[t] = "change" /\ task[t].op = "remove"
    /\ members' = [members EXCEPT ![task[t].member].active = FALSE]
    /\ Unlapse(members')
    /\ GoesOn(t, "lapse")
    /\ UNCHANGED <<org, invitations, sessions>>

revokeInvitationsFrom(t) ==
    /\ teamPc[t] = "lapse"
    /\ invitations' = Revoked(PendingFrom(task[t].member))
    /\ unlapsed' = unlapsed \ {task[t].member}
    /\ IF task[t].op = "remove" THEN GoesOn(t, "fallback") ELSE RequestEnds(t)
    /\ UNCHANGED <<org, members, sessions>>

\* Mutant: the sessions of who has no other place move to none.
FallbackNowhere(t) ==
    /\ teamPc[t] = "fallback"
    /\ Notes(t, "move", [task[t] EXCEPT !.place = IF HasPlace(task[t].member) THEN "own" ELSE "none"])

\* The sessions of a removed member move to where a login would open, or end.
Fallback(t) ==
    /\ teamPc[t] = "fallback"
    /\ LET u == task[t].member
       IN  IF HasPlace(u)
             THEN Notes(t, "move", [task[t] EXCEPT !.place = resolveDefaultOrganization(u)])
             ELSE Passes(t, "end")

OpenHere(u) == {s \in Sessions : sessions[s].open /\ sessions[s].user = u /\ sessions[s].place = "firm"}

MoveSessions(t) ==
    /\ teamPc[t] = "move"
    /\ sessions' = [s \in Sessions |-> IF s \in OpenHere(task[t].member)
                                         THEN [sessions[s] EXCEPT !.place = task[t].place]
                                         ELSE sessions[s]]
    /\ RequestEnds(t)
    /\ UNCHANGED <<org, members, invitations, unlapsed>>

EndSessions(t) ==
    /\ teamPc[t] = "end"
    /\ sessions' = Ended(OpenHere(task[t].member))
    /\ RequestEnds(t)
    /\ UNCHANGED <<org, members, invitations, unlapsed>>

-----------------------------------------------------------------------------
(* acceptInvitation *)

\* getCurrentSession answers only where the person still belongs.
SignedIn(s) ==
    /\ sessions[s].open
    /\ IF sessions[s].place = "firm" THEN Belongs(sessions[s].user) ELSE sessions[s].user \in OwnSpace

AcceptRequest(t, s, i) ==
    /\ SignedIn(s)
    /\ Starts(t, "accept", [Idle EXCEPT !.op = "accept", !.by = sessions[s].user, !.session = s, !.invitation = i])

AcceptRead(t) ==
    /\ teamPc[t] = "accept"
    /\ LET row == invitations[task[t].invitation]
       IN  \/ /\ row.to = task[t].by /\ invitationState(row) = "pendiente"
              /\ Passes(t, "inviter")
           \/ /\ row.to = task[t].by /\ row.state = "aceptada" /\ row.acceptedBy = task[t].by
              /\ Passes(t, "membership")
           \/ /\ row.to = task[t].by =>
                   /\ invitationState(row) # "pendiente"
                   /\ row.state = "aceptada" => row.acceptedBy # task[t].by
              /\ RequestRefused(t)

\* An invitation carries the authority of who sent it.
InviterCheck(t) ==
    /\ teamPc[t] = "inviter"
    /\ IF Administers(invitations[task[t].invitation].by)
         THEN Passes(t, "claim")
         ELSE RequestRefused(t)

\* Mutant: the row is claimed whatever happened to it since it was read.
ClaimAnyway(t) ==
    /\ teamPc[t] = "claim"
    /\ LET i == task[t].invitation
       IN  /\ invitations' = [invitations EXCEPT ![i].state = "aceptada", ![i].acceptedBy = task[t].by]
           /\ members' = [members EXCEPT ![task[t].by] = [role |-> invitations[i].role, active |-> TRUE]]
    /\ Unlapse(members')
    /\ GoesOn(t, "membership")
    /\ UNCHANGED <<org, sessions>>

\* Claims the row and writes the membership, in one transaction.
Claim(t) ==
    /\ teamPc[t] = "claim"
    /\ LET i == task[t].invitation
           u == task[t].by
       IN  IF invitations[i].state # "pendiente"
             THEN RequestRefused(t)
             ELSE /\ invitations' = [invitations EXCEPT ![i].state = "aceptada", ![i].acceptedBy = u]
                  /\ members' = [members EXCEPT ![u] = [role |-> invitations[i].role, active |-> TRUE]]
                  /\ Unlapse(members')
                  /\ GoesOn(t, "membership")
                  /\ UNCHANGED <<org, sessions>>

\* Accepted now or before: the session opens the firm unless they were removed.
Membership(t) ==
    /\ teamPc[t] = "membership"
    /\ IF Belongs(task[t].by)
         THEN Notes(t, "enter", [task[t] EXCEPT !.place = "firm"])
         ELSE RequestRefused(t)

-----------------------------------------------------------------------------
(* Sessions: changeActiveOrganization, login and logout *)

SwitchRequest(t, s, place) ==
    /\ SignedIn(s)
    /\ Starts(t, "switch", [Idle EXCEPT !.op = "switch", !.by = sessions[s].user, !.session = s, !.place = place])

\* Mutant: a session may open any organization.
SwitchAnywhere(t) == teamPc[t] = "switch" /\ Passes(t, "enter")

SwitchRead(t) ==
    /\ teamPc[t] = "switch"
    /\ IF IF task[t].place = "firm" THEN Belongs(task[t].by) ELSE task[t].by \in OwnSpace
         THEN Passes(t, "enter")
         ELSE RequestRefused(t)

\* updateSessionOrganization
Enter(t) ==
    /\ teamPc[t] = "enter"
    /\ sessions' = [sessions EXCEPT ![task[t].session].place =
                                  IF sessions[task[t].session].open THEN task[t].place ELSE @]
    /\ RequestEnds(t)
    /\ UNCHANGED <<org, members, invitations, unlapsed>>

\* Credentials were accepted; the session opens in the person's default place.
LoginRequest(t, u) ==
    Starts(t, "login", [Idle EXCEPT !.op = "login", !.by = u])

LoginRead(t) ==
    /\ teamPc[t] = "login"
    /\ IF HasPlace(task[t].by)
         THEN Notes(t, "open", [task[t] EXCEPT !.place = resolveDefaultOrganization(task[t].by)])
         ELSE RequestRefused(t)

\* createSecureSession
OpenSession(t, s) ==
    /\ teamPc[t] = "open"
    /\ sessions[s] = Closed
    /\ sessions' = [sessions EXCEPT ![s] = [user |-> task[t].by, place |-> task[t].place, open |-> TRUE]]
    /\ RequestEnds(t)
    /\ UNCHANGED <<org, members, invitations, unlapsed>>

\* revokeCurrentSession
Logout(s) ==
    /\ sessions[s].open
    /\ sessions' = Ended({s})
    /\ UNCHANGED <<org, members, invitations, requestVars, unlapsed>>

-----------------------------------------------------------------------------
(* The specification *)

\* The firm at rest at some moment of its life: the personal space it starts as,
\* or a team with members, some of whom left, and invitations of its
\* administrators to people who are not in it.
FirmRow ==
    \/ org = [scope |-> "PERSONAL", owner |-> Founder, founder |-> NoUser]
    \/ org = [scope |-> "TEAM", owner |-> NoUser, founder |-> Founder]

MemberRows ==
    /\ members \in [Users -> {NoMember} \cup [role : Roles, active : BOOLEAN]]
    /\ members[Founder] = [role |-> "ADMINISTRADOR", active |-> TRUE]
    /\ org.scope = "PERSONAL" => \A u \in Users \ {Founder} : members[u] = NoMember

InvitationRows ==
    /\ invitations \in [Invitations -> {NoRow} \cup
                          [state : {"pendiente"}, expired : BOOLEAN,
                           to : {u \in Users : ~Belongs(u)}, role : Roles,
                           by : Administrators, acceptedBy : {NoUser}]]
    /\ org.scope = "PERSONAL" => \A i \in Invitations : invitations[i] = NoRow
    /\ \A i, j \in Invitations : invitations[i] # NoRow /\ invitations[i].to = invitations[j].to => i = j

\* A session is free or works where a login would open it.
SessionRows ==
    sessions \in [Sessions -> {Closed} \cup
                   {[user |-> u, place |-> resolveDefaultOrganization(u), open |-> TRUE] :
                      u \in {v \in Users : HasPlace(v)}}]

TeamInit ==
    /\ FirmRow
    /\ MemberRows
    /\ InvitationRows
    /\ SessionRows
    /\ teamPc = [t \in Requests |-> "new"]
    /\ task = [t \in Requests |-> Idle]
    /\ unlapsed = {}

ManagementRequest(t, s) ==
    \/ SettingsRequest(t, s)
    \/ \E u \in Users, r \in Roles : InviteRequest(t, s, u, r) \/ RoleRequest(t, s, u, r)
    \/ \E u \in Users : RemoveRequest(t, s, u)
    \/ \E i \in Invitations : ResendRequest(t, s, i) \/ RevokeRequest(t, s, i)

SettingsStep(t) == ReadSettings(t) \/ WriteSettings(t)

InvitationStep(t) ==
    \/ InviteCheck(t) \/ ResendRead(t) \/ SendCollides(t) \/ RevokeRead(t) \/ RevokeWrite(t)
    \/ \E i \in Invitations : Send(t, i)

MemberStep(t) ==
    \/ MemberRead(t) \/ CountAdministrators(t) \/ ChangeRole(t) \/ Deactivate(t)
    \/ revokeInvitationsFrom(t) \/ Fallback(t) \/ MoveSessions(t) \/ EndSessions(t)

AcceptStep(t) == AcceptRead(t) \/ InviterCheck(t) \/ Claim(t) \/ Membership(t)

SessionStep(t) ==
    \/ SwitchRead(t) \/ Enter(t) \/ LoginRead(t)
    \/ \E s \in Sessions : OpenSession(t, s)

PersonRequest(t, s) ==
    \/ \E i \in Invitations : AcceptRequest(t, s, i)
    \/ \E place \in Places : SwitchRequest(t, s, place)

RequestStep(t) ==
    \/ SettingsStep(t) \/ InvitationStep(t) \/ MemberStep(t) \/ AcceptStep(t) \/ SessionStep(t)
    \/ Crash(t)

TeamNext ==
    \/ \E t \in Requests, s \in Sessions : ManagementRequest(t, s) \/ PersonRequest(t, s)
    \/ \E t \in Requests, u \in Users : LoginRequest(t, u)
    \/ \E t \in Requests : RequestStep(t)
    \/ \E i \in Invitations : Expire(i)
    \/ \E s \in Sessions : Logout(s)

TeamSpec == TeamInit /\ [][TeamNext]_teamVars

-----------------------------------------------------------------------------
(* Properties *)

Steps ==
    {"new", "done", "settings", "convert", "invite", "resend", "send", "revoke", "cancel", "role", "remove",
     "count", "change", "lapse", "fallback", "move", "end", "accept", "inviter", "claim",
     "membership", "enter", "switch", "login", "open"}

\* Every variable holds what the schema and the handlers allow.
TeamTypeOK ==
    /\ org \in Organization
    /\ members \in [Users -> Member]
    /\ invitations \in [Invitations -> Invitation]
    /\ sessions \in [Sessions -> Session]
    /\ teamPc \in [Requests -> Steps]
    /\ task \in [Requests -> Task]
    /\ unlapsed \subseteq Users

\* Whoever founded the firm administers it at every moment, while it becomes a
\* team, others change roles, leave and join at once and requests stop half way
\* (memberChangeBlock, team-rules.ts:58-62, and acceptInvitation's upsert, which
\* writes the role of an invitation over that of a member).
FounderAdministers == Administers(Founder)

\* A person enters the firm by an invitation only while its sender administers
\* it, or lost that role and the revocation of his invitations is still to come
\* (team.service.ts:473: an invitation lapses with its sender's authority).
JoinsUnderAuthority ==
    [][\A i \in Invitations :
         invitations[i].state # "aceptada" /\ invitations'[i].state = "aceptada"
           => Administers(invitations[i].by) \/ invitations[i].by \in unlapsed]_teamVars

\* One acceptance for each invitation, by the person it was for, and whatever is
\* revoked stays so (the claim of line 482 against revocations and second clicks).
SettledStays ==
    [][\A i \in Invitations :
         invitations[i].state \in {"aceptada", "cancelada"} => invitations'[i] = invitations[i]]_teamVars

\* A session works in the firm only for someone who joined it (lines 376-387 and
\* 516 move sessions with memberships they read before).
SessionsOfMembers ==
    \A s \in Sessions : sessions[s].place = "firm" => members[sessions[s].user].role # "none"
=============================================================================
