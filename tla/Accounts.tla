------------------------------ MODULE Accounts ------------------------------
(***************************************************************************)
(* Accounts and the tokens that are sent by mail: registration, email      *)
(* verification, password reset and change, login and profile.             *)
(*                                                                         *)
(* A handler reads the user without a lock, begins a transaction, locks    *)
(* the row of the user and reads again.  All writers of a user and of its  *)
(* tokens lock that row first, so what a transaction does after the lock   *)
(* is one step here, and the wait for the lock is the time between the     *)
(* two steps of a request.  The transaction keeps the time it began: that  *)
(* is NOW() in all its statements.                                         *)
(*                                                                         *)
(* A password is known by its version.  A request that is refused for its  *)
(* form (an email, a name or a password that is not valid) leaves no trace *)
(* and is left out; so is the event that a request for a reset of an       *)
(* unknown address writes.  Every user here has a password.                *)
(***************************************************************************)
EXTENDS Naturals, FiniteSets

CONSTANTS
    Users,              \* ids of rows of users
    Boxes,              \* mailboxes; an address may be written in two ways
    Slugs,              \* slugs of organizations
    Names,              \* display names
    Tokens,             \* ids of rows of auth_action_tokens
    Requests,
    TTL,                \* lifetime of a token of each purpose
    MaxTime,            \* bound on the clock
    MaxVersion,         \* bound on the password changes of a user
    None

Purposes == {"EMAIL_VERIFICATION", "PASSWORD_RESET"}

ASSUME TimesNatural == MaxTime \in Nat /\ MaxVersion \in Nat /\ TTL \in [Purposes -> Nat \ {0}]
ASSUME NoneIsNothing == None \notin Users \cup Tokens \cup Requests \cup Slugs

VARIABLES
    users, organizations, tokens,   \* tables
    audit,      \* security_audit_events about tokens, with the time and the
                \* password version they happened at
    sessions,   \* active sessions: user and password version at login
    mailbox,    \* tokens that arrived
    clock,
    req,        \* what each handler is doing
    requireVerifiedEmail    \* configuration, read when the server starts

tables == <<users, organizations, tokens, audit, sessions>>
vars == <<tables, mailbox, clock, req, requireVerifiedEmail>>

-----------------------------------------------------------------------------
Addresses == [box : Boxes, upper : BOOLEAN]

normalizeEmail(email) == [email EXCEPT !.upper = FALSE]

NoUser == [there |-> FALSE, email |-> None, status |-> "ACTIVE", verified |-> FALSE,
           version |-> 0, name |-> None]
NoToken == [there |-> FALSE, user |-> None, purpose |-> "EMAIL_VERIFICATION",
            consumed |-> FALSE, created |-> 0, expires |-> 0, madeAt |-> 0]

(* madeAt is history: the password version of its user then. *)
Idle == [pc |-> "idle", kind |-> "none", user |-> None, token |-> None, genuine |-> TRUE,
         began |-> 0, version |-> 0, answer |-> "none"]

-----------------------------------------------------------------------------
(* Queries on users. *)

GetUserForActionByNormalizedEmail(email) ==
    {u \in Users : users[u].there /\ users[u].email = email}

CreateUserWithPassword(u, email, name) ==
    [users EXCEPT ![u] = [NoUser EXCEPT !.there = TRUE, !.email = email, !.name = name]]

VerifyUserEmail(table, u) == [table EXCEPT ![u].verified = TRUE]
UpdateUserPasswordAndIncrementVersion(u) == [users EXCEPT ![u].version = @ + 1]
UpdateUserDisplayName(u, name) == [users EXCEPT ![u].name = name]

mapUserStatus(u) == users[u].status

(* Queries on action tokens.  created_at is when the transaction began,    *)
(* expires_at is counted from the clock of the server.                     *)
LiveTokens(u, purpose) ==
    {t \in Tokens : tokens[t].there /\ tokens[t].user = u /\ tokens[t].purpose = purpose
                    /\ ~tokens[t].consumed}

InvalidatePreviousActionTokens(table, u, purpose) ==
    [t \in Tokens |-> IF t \in LiveTokens(u, purpose) THEN [table[t] EXCEPT !.consumed = TRUE]
                                                      ELSE table[t]]

(* The constraint consumed_at >= created_at: a token made by a transaction *)
(* that began later but locked the user earlier cannot be invalidated.     *)
Invalidatable(u, purpose, now) == \A t \in LiveTokens(u, purpose) : tokens[t].created <= now

CreateActionToken(table, t, u, purpose, now) ==
    [table EXCEPT ![t] = [there |-> TRUE, user |-> u, purpose |-> purpose, consumed |-> FALSE,
                          created |-> now, expires |-> clock + TTL[purpose],
                          madeAt |-> users[u].version]]

LockActionTokenOwner(t, purpose) ==
    {tokens[x].user : x \in {x \in {t} : tokens[x].there /\ tokens[x].purpose = purpose}}

ConsumeActionToken(table, t, u, purpose) == [table EXCEPT ![t].consumed = TRUE]

Consumable(t, now) == ~tokens[t].consumed /\ tokens[t].expires > now

HasSecurityAuditEventForEntity(event, t) ==
    \E e \in audit : e.event = event /\ e.token = t

-----------------------------------------------------------------------------
Answer(r, answer) == req' = [req EXCEPT ![r] = [Idle EXCEPT !.answer = answer]]
Refuse(r, answer) == Answer(r, answer) /\ UNCHANGED <<tables, mailbox, clock>>

(* After the commit the token is mailed; the handler reports success even  *)
(* when that fails.                                                        *)
Mail(r, t) == req' = [req EXCEPT ![r] = [Idle EXCEPT !.pc = "mail", !.token = t]]

(* Mutant: the user is committed before the organization. *)
RegisterInTwo(r, u, email, slug, name, t) ==
    LET key == normalizeEmail(email)
    IN  /\ req[r].pc = "idle" /\ ~users[u].there /\ ~tokens[t].there
        /\ GetUserForActionByNormalizedEmail(key) = {}
        /\ users' = CreateUserWithPassword(u, key, name)
        /\ organizations' = IF organizations[slug] = None
                            THEN [organizations EXCEPT ![slug] = u] ELSE organizations
        /\ Answer(r, "created")
        /\ UNCHANGED <<tokens, audit, sessions, mailbox, clock>>

(* Register: user, organization with its first owner, and a verification   *)
(* token or, when none is required, a session; email and slug are unique.  *)
Register(r, u, email, slug, name, t) ==
    LET key == normalizeEmail(email)
        created == CreateUserWithPassword(u, key, name)
    IN  /\ req[r].pc = "idle" /\ ~users[u].there /\ ~tokens[t].there
        /\ GetUserForActionByNormalizedEmail(key) = {}
        /\ organizations[slug] = None
        /\ organizations' = [organizations EXCEPT ![slug] = u]
        /\ IF requireVerifiedEmail
             THEN /\ users' = created
                  /\ tokens' = CreateActionToken(tokens, t, u, "EMAIL_VERIFICATION", clock)
                  /\ Mail(r, t)
                  /\ UNCHANGED sessions
             ELSE /\ users' = VerifyUserEmail(created, u)
                  /\ sessions' = sessions \cup {[user |-> u, version |-> 0]}
                  /\ Answer(r, "created")
                  /\ UNCHANGED tokens
        /\ UNCHANGED <<audit, mailbox, clock>>

Deliver(r) ==
    /\ req[r].pc = "mail"
    /\ mailbox' = mailbox \cup {req[r].token}
    /\ Answer(r, "accepted")
    /\ UNCHANGED <<tables, clock>>

LoseMail(r) ==
    /\ req[r].pc = "mail"
    /\ Answer(r, "accepted")
    /\ UNCHANGED <<tables, mailbox, clock>>

-----------------------------------------------------------------------------
(* ResendVerification and ForgotPassword. *)

Eligible(u, purpose) ==
    /\ users[u].status = "ACTIVE"
    /\ purpose = "EMAIL_VERIFICATION" => ~users[u].verified

AskForToken(r, email, purpose) ==
    /\ req[r].pc = "idle"
    /\ \E u \in GetUserForActionByNormalizedEmail(normalizeEmail(email)) :
          /\ Eligible(u, purpose)
          /\ req' = [req EXCEPT ![r] = [Idle EXCEPT !.pc = "ask", !.kind = purpose, !.user = u,
                                                    !.began = clock]]
    /\ UNCHANGED <<tables, mailbox, clock>>

(* Mutant: earlier tokens stay valid. *)
createActionTokenBeside(r, u, purpose, t) ==
    /\ tokens' = CreateActionToken(tokens, t, u, purpose, req[r].began)
    /\ Mail(r, t)
    /\ UNCHANGED <<users, organizations, audit, sessions, mailbox, clock>>

createActionTokenInTx(r, u, purpose, t) ==
    IF Invalidatable(u, purpose, req[r].began)
      THEN /\ tokens' = CreateActionToken(InvalidatePreviousActionTokens(tokens, u, purpose),
                                          t, u, purpose, req[r].began)
           /\ Mail(r, t)
           /\ UNCHANGED <<users, organizations, audit, sessions, mailbox, clock>>
      ELSE Refuse(r, "error")

ResendVerification(r, t) ==
    LET u == req[r].user
    IN  /\ req[r].pc = "ask" /\ req[r].kind = "EMAIL_VERIFICATION" /\ ~tokens[t].there
        /\ IF Eligible(u, "EMAIL_VERIFICATION")
             THEN createActionTokenInTx(r, u, "EMAIL_VERIFICATION", t)
             ELSE Refuse(r, "accepted")

ForgotPassword(r, t) ==
    LET u == req[r].user
    IN  /\ req[r].pc = "ask" /\ req[r].kind = "PASSWORD_RESET" /\ ~tokens[t].there
        /\ IF Eligible(u, "PASSWORD_RESET")
             THEN createActionTokenInTx(r, u, "PASSWORD_RESET", t)
             ELSE Refuse(r, "accepted")

-----------------------------------------------------------------------------
(* VerifyEmail and ResetPassword. *)

(* Who has a token presents it to either handler, or a wrong secret with   *)
(* its selector; the prefix of a token says its purpose.                   *)
Parse(t, expected) == tokens[t].purpose = expected
VerifySecret(r) == req[r].genuine

Present(r, t, genuine, kind) ==
    /\ req[r].pc = "idle" /\ t \in mailbox
    /\ Parse(t, IF kind = "verify" THEN "EMAIL_VERIFICATION" ELSE "PASSWORD_RESET")
    /\ req' = [req EXCEPT ![r] = [Idle EXCEPT !.pc = kind, !.kind = kind, !.token = t,
                                              !.genuine = genuine, !.began = clock]]
    /\ UNCHANGED <<tables, mailbox, clock>>

(* Mutant: a consumed token is as good as the state of its user. *)
ConsumedAnswerByUser(t, u) == IF users[u].verified THEN "ok" ELSE "invalid"

(* A second click on the link that verified the address succeeds; a token  *)
(* that a newer one replaced does not.                                     *)
ConsumedAnswer(t, u) ==
    IF users[u].verified /\ HasSecurityAuditEventForEntity("EMAIL_VERIFIED", t)
      THEN "ok" ELSE "invalid"

Expired(t) == tokens[t].expires <= clock

Event(event, t, u) == [event |-> event, token |-> t, at |-> clock, version |-> users[u].version]

VerifyEmail(r) ==
    LET t == req[r].token
    IN  /\ req[r].pc = "verify"
        /\ \E u \in LockActionTokenOwner(t, "EMAIL_VERIFICATION") :
             IF ~VerifySecret(r) THEN Refuse(r, "invalid")
             ELSE IF tokens[t].consumed THEN Refuse(r, ConsumedAnswer(t, u))
             ELSE IF Expired(t) THEN Refuse(r, "expired")
             ELSE IF mapUserStatus(u) # "ACTIVE" THEN Refuse(r, mapUserStatus(u))
             ELSE IF ~Consumable(t, req[r].began) THEN Refuse(r, "invalid")
             ELSE /\ users' = VerifyUserEmail(users, u)
                  /\ tokens' = InvalidatePreviousActionTokens(
                                   ConsumeActionToken(tokens, t, u, "EMAIL_VERIFICATION"),
                                   u, "EMAIL_VERIFICATION")
                  /\ audit' = audit \cup {Event("EMAIL_VERIFIED", t, u)}
                  /\ Answer(r, "ok")
                  /\ UNCHANGED <<organizations, sessions, mailbox, clock>>

RevokeAllUserSessions(u) == {s \in sessions : s.user # u}

ResetPassword(r) ==
    LET t == req[r].token
    IN  /\ req[r].pc = "reset"
        /\ \E u \in LockActionTokenOwner(t, "PASSWORD_RESET") :
             IF ~VerifySecret(r) \/ tokens[t].consumed THEN Refuse(r, "invalid")
             ELSE IF Expired(t) THEN Refuse(r, "expired")
             ELSE IF mapUserStatus(u) # "ACTIVE" THEN Refuse(r, mapUserStatus(u))
             ELSE IF ~Consumable(t, req[r].began) THEN Refuse(r, "invalid")
             ELSE /\ users[u].version < MaxVersion
                  /\ users' = UpdateUserPasswordAndIncrementVersion(u)
                  /\ tokens' = InvalidatePreviousActionTokens(
                                   ConsumeActionToken(tokens, t, u, "PASSWORD_RESET"),
                                   u, "PASSWORD_RESET")
                  /\ sessions' = RevokeAllUserSessions(u)
                  /\ audit' = audit \cup {Event("PASSWORD_RESET", t, u)}
                  /\ Answer(r, "ok")
                  /\ UNCHANGED <<organizations, mailbox, clock>>

-----------------------------------------------------------------------------
(* ChangePassword, Login and UpdateMe. *)

(* The user who has a session knows the password. *)
BeginChange(r, s) ==
    /\ req[r].pc = "idle"
    /\ req' = [req EXCEPT ![r] = [Idle EXCEPT !.pc = "change", !.kind = "change", !.user = s.user,
                                              !.version = s.version, !.began = clock]]
    /\ UNCHANGED <<tables, mailbox, clock>>

(* Mutant: a reset that was asked for remains possible. *)
ChangePasswordKeepsTokens(r) ==
    LET u == req[r].user
    IN  /\ req[r].pc = "change"
        /\ users[u].version < MaxVersion
        /\ IF mapUserStatus(u) # "ACTIVE" THEN Refuse(r, mapUserStatus(u))
           ELSE IF users[u].version # req[r].version THEN Refuse(r, "invalid")
           ELSE /\ users' = UpdateUserPasswordAndIncrementVersion(u)
                /\ sessions' = RevokeAllUserSessions(u)
                /\ Answer(r, "ok")
                /\ UNCHANGED <<organizations, tokens, audit, mailbox, clock>>

ChangePassword(r) ==
    LET u == req[r].user
    IN  /\ req[r].pc = "change"
        /\ users[u].version < MaxVersion
        /\ IF mapUserStatus(u) # "ACTIVE" THEN Refuse(r, mapUserStatus(u))
           ELSE IF users[u].version # req[r].version THEN Refuse(r, "invalid")
           ELSE IF ~Invalidatable(u, "PASSWORD_RESET", req[r].began) THEN Refuse(r, "error")
           ELSE /\ users' = UpdateUserPasswordAndIncrementVersion(u)
                /\ tokens' = InvalidatePreviousActionTokens(tokens, u, "PASSWORD_RESET")
                /\ sessions' = RevokeAllUserSessions(u)
                /\ Answer(r, "ok")
                /\ UNCHANGED <<organizations, audit, mailbox, clock>>

GetUserByNormalizedEmail(r, email) ==
    /\ req[r].pc = "idle"
    /\ \E u \in GetUserForActionByNormalizedEmail(normalizeEmail(email)) :
          /\ users[u].status = "ACTIVE"
          /\ requireVerifiedEmail => users[u].verified
          /\ req' = [req EXCEPT ![r] = [Idle EXCEPT !.pc = "login", !.kind = "login", !.user = u,
                                                    !.version = users[u].version]]
    /\ UNCHANGED <<tables, mailbox, clock>>

Login(r) ==
    LET u == req[r].user
    IN  /\ req[r].pc = "login"
        /\ IF users[u].version # req[r].version THEN Refuse(r, "invalid")
           ELSE IF mapUserStatus(u) # "ACTIVE" THEN Refuse(r, mapUserStatus(u))
           ELSE IF requireVerifiedEmail /\ ~users[u].verified THEN Refuse(r, "unverified")
           ELSE /\ sessions' = sessions \cup {[user |-> u, version |-> req[r].version]}
                /\ Answer(r, "ok")
                /\ UNCHANGED <<users, organizations, tokens, audit, mailbox, clock>>

UpdateMe(s, name) ==
    /\ users' = UpdateUserDisplayName(s.user, name)
    /\ UNCHANGED <<organizations, tokens, audit, sessions, mailbox, clock, req>>

(* Nothing in the code suspends a user: an operator does it in the table. *)
Suspend(u) ==
    /\ users[u].there
    /\ users' = [users EXCEPT ![u].status = "SUSPENDED"]
    /\ UNCHANGED <<organizations, tokens, audit, sessions, mailbox, clock, req>>

(* A handler dies, or loses its connection: the transaction is undone. *)
Crash(r) == req[r].pc # "idle" /\ Refuse(r, "none")

Tick ==
    /\ clock < MaxTime
    /\ clock' = clock + 1
    /\ UNCHANGED <<tables, mailbox, req>>

-----------------------------------------------------------------------------
Init ==
    /\ users = [u \in Users |-> NoUser]
    /\ organizations = [slug \in Slugs |-> None]
    /\ tokens = [t \in Tokens |-> NoToken]
    /\ audit = {} /\ sessions = {} /\ mailbox = {}
    /\ clock = 0
    /\ req = [r \in Requests |-> Idle]
    /\ requireVerifiedEmail \in BOOLEAN

Arrival(r) ==
    \/ \E u \in Users, email \in Addresses, slug \in Slugs, name \in Names, t \in Tokens :
          Register(r, u, email, slug, name, t)
    \/ \E email \in Addresses, purpose \in Purposes : AskForToken(r, email, purpose)
    \/ \E t \in Tokens, genuine \in BOOLEAN, kind \in {"verify", "reset"} :
          Present(r, t, genuine, kind)
    \/ \E s \in sessions : BeginChange(r, s)
    \/ \E email \in Addresses : GetUserByNormalizedEmail(r, email)

Progress(r) ==
    \/ Deliver(r)
    \/ LoseMail(r)
    \/ \E t \in Tokens : ResendVerification(r, t)
    \/ \E t \in Tokens : ForgotPassword(r, t)
    \/ VerifyEmail(r)
    \/ ResetPassword(r)
    \/ ChangePassword(r)
    \/ Login(r)

Next ==
    /\ \/ \E r \in Requests : Arrival(r) \/ Progress(r) \/ Crash(r)
       \/ \E s \in sessions, name \in Names : UpdateMe(s, name)
       \/ \E u \in Users : Suspend(u)
       \/ Tick
    /\ UNCHANGED requireVerifiedEmail

Spec == Init /\ [][Next]_vars

-----------------------------------------------------------------------------
(* Properties. *)

(* A mailbox has one account, whatever way the address is written, and     *)
(* there is no user without an organization of its own: a registration     *)
(* whose address or slug is taken leaves nothing behind.                   *)
RegisteredWhole ==
    \A u \in Users : users[u].there =>
        /\ \E slug \in Slugs : organizations[slug] = u
        /\ \A v \in Users \ {u} : users[v].there => users[u].email.box # users[v].email.box

(* Of the tokens a user asked for, at one time or at several, one per      *)
(* purpose can be used.                                                    *)
OneLiveToken ==
    \A u \in Users, purpose \in Purposes : Cardinality(LiveTokens(u, purpose)) <= 1

(* A token takes effect once, before its time is over, for its purpose,    *)
(* and a reset only of the password that was valid when it was asked for:  *)
(* no change of the password leaves an older reset usable.                 *)
TokensUsedRightly ==
    /\ \A e, f \in audit : e.token = f.token => e = f
    /\ \A e \in audit :
          /\ e.at < tokens[e.token].expires
          /\ e.event = "EMAIL_VERIFIED" <=> tokens[e.token].purpose = "EMAIL_VERIFICATION"
          /\ e.event = "PASSWORD_RESET" => e.version = tokens[e.token].madeAt

(* The link in the mail can be opened twice: it is answered as before, and *)
(* one that was replaced before it was opened never is.                    *)
VerificationAnsweredAlike ==
    [][\A r \in Requests :
          /\ req[r].pc = "verify" /\ req[r].genuine /\ req'[r].pc = "idle"
          /\ req'[r].answer # "none"
          => (req'[r].answer = "ok" <=>
                \E e \in audit' : e.event = "EMAIL_VERIFIED" /\ e.token = req[r].token)]_vars

=============================================================================
