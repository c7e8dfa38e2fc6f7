---------------------------- MODULE AccountAccess ----------------------------
(***************************************************************************)
(* How one person gets into their account (features/auth/services): the    *)
(* registration, the link that proves the email, the sign-in with password *)
(* (authentication.service.ts), the recovery link                          *)
(* (password-recovery.service.ts) and the sign-in with Google              *)
(* (google-oauth.service.ts, oauth-onboarding.service.ts).                 *)
(*                                                                         *)
(* The queries of every request interleave with the others' and may stop   *)
(* anywhere.  A password is named by what wrote it: the registration or a  *)
(* recovery link.  Google exchanges a code once and vouches for the email. *)
(* Which organization a session opens is TeamMembership's; rate limits by  *)
(* address, the audit trail and deactivated accounts are left out.         *)
(***************************************************************************)
EXTENDS Integers, FiniteSets

CONSTANTS
    Attempts,       \* requests to the server, each served once
    Links,          \* rows of TokenRecuperacionContrasena
    SignIns,        \* rows of SolicitudOAuth, one for each sign-in with Google
    Cookies,        \* rows of Sesion
    NoName,         \* a request that works on no link, sign-in or session
    MaxRetries      \* MAX_LOGIN_RETRIES, 50 in auth.constants.ts:11

ASSUME MaxRetriesAssumption == MaxRetries \in Nat \ {0}
ASSUME NamesAssumption == NoName \notin Links \cup SignIns
ASSUME LinksAssumption == {"none", "registered"} \cap (Links \cup SignIns) = {}

VARIABLES
    account,        \* the Usuario row, its identities and its verification link
    links,          \* the state of each recovery link
    signIns,        \* the state of each sign-in with Google and of its code
    opened,         \* what opened each session, or "none"; "closed" once revoked
    step,           \* what each request does next
    work,           \* what it works on and what it has read
    writes,         \* history: passwords written with each recovery link
    provedBy        \* history: what proved the email first

accountVars == <<account, links, signIns, opened, step, work, writes, provedBy>>
storedVars == <<account, links, signIns, opened, writes, provedBy>>

-----------------------------------------------------------------------------

Passwords == {"none", "registered"} \cup Links

\* proof: the TokenVerificacionCorreo row, which only a registration writes.
AccountRow ==
    [exists : BOOLEAN, password : Passwords, verified : BOOLEAN, google : BOOLEAN,
     failures : 0..MaxRetries, locked : BOOLEAN, proof : {"none", "live", "spent"}]

NoAccount ==
    [exists |-> FALSE, password |-> "none", verified |-> FALSE, google |-> FALSE,
     failures |-> 0, locked |-> FALSE, proof |-> "none"]

Work == [on : Links \cup SignIns \cup {NoName}, given : Passwords, seen : AccountRow]

Nothing == [on |-> NoName, given |-> "none", seen |-> NoAccount]

LeastOf(n, m) == IF n < m THEN n ELSE m

Begins(t, next, w) ==
    /\ step[t] = "new"
    /\ step' = [step EXCEPT ![t] = next]
    /\ work' = [work EXCEPT ![t] = w]
    /\ UNCHANGED storedVars

Continues(t, next) ==
    /\ step' = [step EXCEPT ![t] = next]
    /\ UNCHANGED work

Reads(t, next) ==
    /\ step' = [step EXCEPT ![t] = next]
    /\ work' = [work EXCEPT ![t].seen = account]
    /\ UNCHANGED storedVars

Finishes(t) ==
    /\ step' = [step EXCEPT ![t] = "done"]
    /\ work' = [work EXCEPT ![t] = Nothing]

\* A refusal, an error or a crash.
Stops(t) == Finishes(t) /\ UNCHANGED storedVars

Interrupt(t) == step[t] \notin {"new", "done"} /\ Stops(t)

Proves(by) == provedBy' = IF account.verified THEN provedBy ELSE by

-----------------------------------------------------------------------------
(* registerLocalUser and consumeEmailVerificationToken *)

Register(t) == Begins(t, "register", Nothing)

RegisterCheck(t) ==
    /\ step[t] = "register"
    /\ IF account.exists THEN Stops(t) ELSE Reads(t, "create")

\* The email is unique: one of two registrations at once fails.
CreateAccount(t) ==
    /\ step[t] = "create"
    /\ IF account.exists
         THEN Stops(t)
         ELSE /\ account' = [NoAccount EXCEPT !.exists = TRUE, !.password = "registered"]
              /\ Continues(t, "proof")
              /\ UNCHANGED <<links, signIns, opened, writes, provedBy>>

createEmailVerificationToken(t) ==
    /\ step[t] = "proof"
    /\ account' = [account EXCEPT !.proof = "live"]
    /\ Finishes(t)
    /\ UNCHANGED <<links, signIns, opened, writes, provedBy>>

VerifyEmail(t) == Begins(t, "verify", Nothing)

VerifyRead(t) ==
    /\ step[t] = "verify"
    /\ IF account.proof = "live" THEN Reads(t, "prove") ELSE Stops(t)

\* The token is marked by its id, without looking at it again.
markEmailVerified(t) ==
    /\ step[t] = "prove"
    /\ account' = [account EXCEPT !.verified = TRUE, !.proof = "spent"]
    /\ Proves("link")
    /\ Finishes(t)
    /\ UNCHANGED <<links, signIns, opened, writes>>

ExpireProof ==
    /\ account.proof = "live"
    /\ account' = [account EXCEPT !.proof = "spent"]
    /\ UNCHANGED <<links, signIns, opened, step, work, writes, provedBy>>

-----------------------------------------------------------------------------
(* requestPasswordRecovery and consumePasswordRecoveryToken *)

RequestRecovery(t) == Begins(t, "recover", Nothing)

RevokeLinks(t) ==
    /\ step[t] = "recover"
    /\ IF account.exists
         THEN /\ links' = [k \in Links |-> IF links[k] \in {"live", "expired"} THEN "revoked" ELSE links[k]]
              /\ Continues(t, "link")
              /\ UNCHANGED <<account, signIns, opened, writes, provedBy>>
         ELSE Stops(t)

CreateLink(t, k) ==
    /\ step[t] = "link"
    /\ links[k] = "none"
    /\ links' = [links EXCEPT ![k] = "live"]
    /\ Finishes(t)
    /\ UNCHANGED <<account, signIns, opened, writes, provedBy>>

ExpireLink(k) ==
    /\ links[k] = "live"
    /\ links' = [links EXCEPT ![k] = "expired"]
    /\ UNCHANGED <<account, signIns, opened, step, work, writes, provedBy>>

ResetPassword(t, k) == Begins(t, "reset", [Nothing EXCEPT !.on = k])

ResetRead(t) ==
    /\ step[t] = "reset"
    /\ IF links[work[t].on] = "live" THEN Reads(t, "claim") ELSE Stops(t)

\* Mutant: the update names the link only.
ClaimById(t) ==
    /\ step[t] = "claim"
    /\ links' = [links EXCEPT ![work[t].on] = "used"]
    /\ Continues(t, "write")
    /\ UNCHANGED <<account, signIns, opened, writes, provedBy>>

\* One update that counts the rows it changed.
ClaimLink(t) ==
    /\ step[t] = "claim"
    /\ IF links[work[t].on] = "live"
         THEN /\ links' = [links EXCEPT ![work[t].on] = "used"]
              /\ Continues(t, "write")
              /\ UNCHANGED <<account, signIns, opened, writes, provedBy>>
         ELSE Stops(t)

SessionsClosed(rows) == [s \in Cookies |-> IF rows[s] = "none" THEN "none" ELSE "closed"]

\* updatePassword and revokeUserSessions, in one transaction.
WritePassword(t) ==
    /\ step[t] = "write"
    /\ LET k == work[t].on
       IN  /\ account' = [account EXCEPT !.password = k, !.failures = 0, !.locked = FALSE]
           /\ writes' = [writes EXCEPT ![k] = @ + 1]
    /\ opened' = SessionsClosed(opened)
    /\ Finishes(t)
    /\ UNCHANGED <<links, signIns, provedBy>>

-----------------------------------------------------------------------------
(* authenticateWithPassword *)

SignIn(t, password) == Begins(t, "signin", [Nothing EXCEPT !.given = password])

SignInRead(t) ==
    /\ step[t] = "signin"
    /\ IF account.exists /\ ~account.locked /\ account.password # "none"
         THEN Reads(t, "compare")
         ELSE Stops(t)

\* Everything here is decided by the row that was read.  A wrong password adds
\* one to the count of the row and locks, or unlocks, by the count it read.
Compare(t) ==
    /\ step[t] = "compare"
    /\ LET seen == work[t].seen
       IN  IF work[t].given # seen.password
             THEN /\ account' = [account EXCEPT !.failures = LeastOf(@ + 1, MaxRetries),
                                                !.locked = seen.failures + 1 >= MaxRetries]
                  /\ Finishes(t)
                  /\ UNCHANGED <<links, signIns, opened, writes, provedBy>>
           ELSE IF ~seen.verified THEN Stops(t)
           ELSE Continues(t, "forgive") /\ UNCHANGED storedVars

resetLoginFailures(t) ==
    /\ step[t] = "forgive"
    /\ account' = [account EXCEPT !.failures = 0, !.locked = FALSE]
    /\ Continues(t, "open")
    /\ UNCHANGED <<links, signIns, opened, writes, provedBy>>

\* The session carries the password or the sign-in that opened it.
Credential(w) == IF w.on = NoName THEN w.given ELSE w.on

createSecureSession(t, s) ==
    /\ step[t] = "open"
    /\ opened[s] = "none"
    /\ opened' = [opened EXCEPT ![s] = Credential(work[t])]
    /\ Finishes(t)
    /\ UNCHANGED <<account, links, signIns, writes, provedBy>>

\* The lock lasts LOGIN_LOCK_MINUTES.
Unlock ==
    /\ account.locked
    /\ account' = [account EXCEPT !.locked = FALSE]
    /\ UNCHANGED <<links, signIns, opened, step, work, writes, provedBy>>

-----------------------------------------------------------------------------
(* startGoogleOAuth and completeGoogleOAuth *)

StartSignIn(x) ==
    /\ signIns[x].state = "none"
    /\ signIns' = [signIns EXCEPT ![x].state = "pending"]
    /\ UNCHANGED <<account, links, opened, step, work, writes, provedBy>>

\* The browser comes back from Google, perhaps twice.
Callback(t, x) ==
    /\ signIns[x].state # "none"
    /\ Begins(t, "state", [Nothing EXCEPT !.on = x])

\* consumeOAuthState reads the row and, in another query, completes it.
StateRead(t) ==
    /\ step[t] = "state"
    /\ IF signIns[work[t].on].state = "pending" THEN Reads(t, "complete") ELSE Stops(t)

CompleteState(t) ==
    /\ step[t] = "complete"
    /\ signIns' = [signIns EXCEPT ![work[t].on].state = "completed"]
    /\ Continues(t, "exchange")
    /\ UNCHANGED <<account, links, opened, writes, provedBy>>

\* Google takes a code once.
ExchangeCode(t) ==
    /\ step[t] = "exchange"
    /\ IF signIns[work[t].on].exchanged
         THEN Stops(t)
         ELSE /\ signIns' = [signIns EXCEPT ![work[t].on].exchanged = TRUE]
              /\ Continues(t, "identify")
              /\ UNCHANGED <<account, links, opened, writes, provedBy>>

\* linkOrCreateGoogleUser reads the identity or the account of the email,
LinkRead(t) ==
    /\ step[t] = "identify"
    /\ IF account.exists /\ account.locked THEN Stops(t) ELSE Reads(t, "identity")

\* Google proves the owner: a password set before is not theirs.  Mutant: it
\* goes on opening the account.
ProvedByGoogle(row) == [row EXCEPT !.google = TRUE, !.verified = TRUE]
OwnedByGoogle(row) == [row EXCEPT !.google = TRUE, !.verified = TRUE, !.password = "none"]

\* and writes by what it read; the unique indexes refuse a second account of
\* the email and a second identity of Google.
LinkWrite(t) ==
    /\ step[t] = "identity"
    /\ LET seen == work[t].seen
       IN  IF seen.google
             THEN Continues(t, "open") /\ UNCHANGED storedVars
           ELSE IF account.google \/ (account.exists /\ ~seen.exists)
             THEN Stops(t)
           ELSE /\ account' =
                     IF ~seen.exists
                       THEN [NoAccount EXCEPT !.exists = TRUE, !.verified = TRUE, !.google = TRUE]
                     ELSE IF ~seen.verified
                       THEN OwnedByGoogle(account)
                     ELSE [account EXCEPT !.google = TRUE]
                /\ Proves("google")
                /\ Continues(t, "open")
                /\ UNCHANGED <<links, signIns, opened, writes>>

-----------------------------------------------------------------------------
(* The specification *)

\* The account at rest: not yet there, registered and proved or not, or of Google.
AccountInit ==
    /\ account \in {NoAccount} \cup
         [exists : {TRUE}, password : {"registered"}, verified : BOOLEAN, google : {FALSE},
          failures : {0, MaxRetries - 1}, locked : {FALSE}, proof : {"live", "spent"}]
    /\ account.verified => account.proof = "spent"
    /\ links \in [Links -> {"none", "live"}]
    /\ ~account.exists => \A k \in Links : links[k] = "none"
    /\ signIns = [x \in SignIns |-> [state |-> "none", exchanged |-> FALSE]]
    /\ opened = [s \in Cookies |-> "none"]
    /\ step = [t \in Attempts |-> "new"]
    /\ work = [t \in Attempts |-> Nothing]
    /\ writes = [k \in Links |-> 0]
    /\ provedBy = IF account.verified THEN "link" ELSE "nobody"

NewRequest(t) ==
    \/ Register(t) \/ VerifyEmail(t) \/ RequestRecovery(t)
    \/ \E k \in Links : ResetPassword(t, k)
    \/ \E p \in Passwords \ {"none"} : SignIn(t, p)
    \/ \E x \in SignIns : Callback(t, x)

PasswordStep(t) ==
    \/ RegisterCheck(t) \/ CreateAccount(t) \/ createEmailVerificationToken(t)
    \/ VerifyRead(t) \/ markEmailVerified(t)
    \/ RevokeLinks(t) \/ ResetRead(t) \/ ClaimLink(t) \/ WritePassword(t)
    \/ SignInRead(t) \/ Compare(t) \/ resetLoginFailures(t)
    \/ \E k \in Links : CreateLink(t, k)
    \/ \E s \in Cookies : createSecureSession(t, s)

GoogleStep(t) ==
    \/ StateRead(t) \/ CompleteState(t) \/ ExchangeCode(t) \/ LinkRead(t) \/ LinkWrite(t)

Clock ==
    \/ ExpireProof \/ Unlock
    \/ \E k \in Links : ExpireLink(k)

AccountNext ==
    \/ \E t \in Attempts : NewRequest(t) \/ PasswordStep(t) \/ GoogleStep(t) \/ Interrupt(t)
    \/ \E x \in SignIns : StartSignIn(x)
    \/ Clock

AccountSpec == AccountInit /\ [][AccountNext]_accountVars

-----------------------------------------------------------------------------
(* Properties *)

AccountSteps ==
    {"new", "done", "register", "create", "proof", "verify", "prove", "recover", "link", "reset", "claim", "write",
     "signin", "compare", "forgive", "open", "state", "complete", "exchange", "identify", "identity"}

\* Every variable holds what the schema and the handlers allow; only an account
\* that exists counts failed sign-ins.
AccountTypeOK ==
    /\ account \in AccountRow /\ (account.failures > 0 => account.exists)
    /\ links \in [Links -> {"none", "live", "expired", "revoked", "used"}]
    /\ signIns \in [SignIns -> [state : {"none", "pending", "completed"}, exchanged : BOOLEAN]]
    /\ opened \in [Cookies -> {"none", "closed"} \cup Passwords \cup SignIns]
    /\ step \in [Attempts -> AccountSteps]
    /\ work \in [Attempts -> Work]
    /\ writes \in [Links -> Nat]
    /\ provedBy \in {"nobody", "link", "google"}

\* A recovery link writes at most one password, however many requests carry it
\* (the claim of password-recovery.service.ts:52).
LinkWritesOnce == \A k \in Links : writes[k] <= 1 /\ (writes[k] = 1 => links[k] = "used")

\* A password set by whoever registered the email opens no session unless its
\* owner followed the link of the verification email: proof by Google ends it
\* (google-oauth.service.ts:297-304), also when link, Google and sign-ins race.
RegisteredNeedsProof ==
    \A s \in Cookies : opened[s] = "registered" => provedBy = "link"
=============================================================================
