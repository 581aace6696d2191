---------------------------- MODULE AuthSessions ----------------------------
(***************************************************************************)
(* Server-side sessions and their rotating refresh tokens: login, refresh  *)
(* with reuse detection, logout, logout of all sessions and the password   *)
(* change that ends every session of its user.                             *)
(*                                                                         *)
(* As in PointOfSale, a request is one READ COMMITTED transaction cut at   *)
(* the statements that lock rows; the tables hold committed rows, and what *)
(* a transaction is going to write is in its request record.  An UPDATE of *)
(* many rows takes its snapshot first and then visits the rows one by one: *)
(* it waits for a row another transaction holds and tests the WHERE clause *)
(* again on what that transaction committed.                               *)
(*                                                                         *)
(* A refused request that wrote nothing (unknown, revoked or expired       *)
(* token, wrong password, suspended user) leaves no trace and is left out. *)
(***************************************************************************)
EXTENDS Naturals, FiniteSets

CONSTANTS
    Users,
    Sessions,       \* ids of rows of auth_sessions
    Tokens,         \* ids of rows of auth_refresh_tokens
    Requests,       \* request handlers that run concurrently
    MaxVersion,     \* bound: password changes of one user
    Crashes,        \* whether handlers may die or lose their connection
    None            \* no holder, no session, no user, no token

ASSUME BoundIsNatural == MaxVersion \in Nat
ASSUME SessionCrashesBoolean == Crashes \in BOOLEAN
ASSUME NoneIsNoRow ==
    /\ None \notin Requests /\ None \notin Users
    /\ None \notin Sessions /\ None \notin Tokens

VARIABLES
    version,        \* users.password_version
    owner, status,  \* auth_sessions: user_id and status
    born,           \* history: password version the session was opened with
    holder, token,  \* auth_refresh_tokens: session_id and state
    userLock, sessionLock, tokenLock,   \* requests that hold the row locks
    req             \* what each request handler is doing

tables == <<version, owner, status, born, holder, token>>
locks == <<userLock, sessionLock, tokenLock>>
vars == <<tables, locks, req>>

SessionStatuses == {"NONE", "ACTIVE", "REVOKED", "COMPROMISED"}

(* A token is LIVE until the one rotation that consumes it; REVOKED is a   *)
(* token with revoked_at, which the code tests first, consumed or not.     *)
TokenStates == {"ABSENT", "LIVE", "CONSUMED", "REVOKED"}

-----------------------------------------------------------------------------
(* Requests. *)

Steps == {"idle", "login", "create", "rotate", "replace", "reuse",
          "verified", "sessions", "sweep"}
Kinds == {"none", "login", "refresh", "reuse", "logout", "logoutAll", "change"}

(* seen is the password version a login read before it locked the user;    *)
(* pending are the sessions an UPDATE has still to visit and targets those *)
(* it locked; rows and doomed are the same for refresh tokens; asked is    *)
(* history, the sessions a logout of all sessions found active.            *)
Request ==
    [pc : Steps, kind : Kinds, user : Users \cup {None},
     token : Tokens \cup {None}, seen : Nat,
     asked : SUBSET Sessions, pending : SUBSET Sessions,
     targets : SUBSET Sessions, rows : SUBSET Tokens, doomed : SUBSET Tokens]

Begin(pc, kind, u, t, seen) ==
    [pc |-> pc, kind |-> kind, user |-> u, token |-> t, seen |-> seen,
     asked |-> {}, pending |-> {}, targets |-> {}, rows |-> {}, doomed |-> {}]

Idle == Begin("idle", "none", None, None, 0)

(* The sessions statement has S to visit and has locked T. *)
Visiting(kind, u, asked, S, T) ==
    [pc |-> "sessions", kind |-> kind, user |-> u, token |-> None, seen |-> 0,
     asked |-> asked, pending |-> S, targets |-> T, rows |-> {}, doomed |-> {}]

(* The tokens statement has R to visit and has locked D. *)
Sweeping(kind, u, asked, T, R, D) ==
    [pc |-> "sweep", kind |-> kind, user |-> u, token |-> None, seen |-> 0,
     asked |-> asked, pending |-> {}, targets |-> T, rows |-> R, doomed |-> D]

ActiveOf(u) == {s \in Sessions : owner[s] = u /\ status[s] = "ACTIVE"}
Unrevoked(t) == token[t] \in {"LIVE", "CONSUMED"}
SessionOf(r) == holder[req[r].token]

-----------------------------------------------------------------------------
(* The end of a transaction. *)

ReleaseLocks(r) ==
    /\ userLock' = [u \in Users |-> IF userLock[u] = r THEN None ELSE userLock[u]]
    /\ sessionLock' =
           [s \in Sessions |-> IF sessionLock[s] = r THEN None ELSE sessionLock[s]]
    /\ tokenLock' =
           [t \in Tokens |-> IF tokenLock[t] = r THEN None ELSE tokenLock[t]]

Finish(r) == ReleaseLocks(r) /\ req' = [req EXCEPT ![r] = Idle]

Rollback(r) == Finish(r) /\ UNCHANGED tables

(* The audit event is the last statement before the COMMIT; its foreign    *)
(* key on the acting user waits for a transaction that has locked the user.*)
AuditFree(r) == userLock[req[r].user] \in {None, r}

-----------------------------------------------------------------------------
(* auth.Service.Login. *)

(* The user is read, and the password verified, before the transaction. *)
ReadCredentials(r, u) ==
    /\ req[r].pc = "idle"
    /\ req' = [req EXCEPT ![r] = Begin("login", "login", u, None, version[u])]
    /\ UNCHANGED <<tables, locks>>

(* Mutant: the locked user is not compared with the one read before. *)
LockCredentialsUnchecked(r) ==
    LET u == req[r].user
    IN  /\ req[r].pc = "login"
        /\ userLock[u] = None
        /\ userLock' = [userLock EXCEPT ![u] = r]
        /\ req' = [req EXCEPT ![r] = Begin("create", "login", u, None, req[r].seen)]
        /\ UNCHANGED <<tables, sessionLock, tokenLock>>

LockCredentials(r) ==
    LET u == req[r].user
    IN  /\ req[r].pc = "login"
        /\ userLock[u] = None
        /\ IF req[r].seen = version[u]
             THEN /\ userLock' = [userLock EXCEPT ![u] = r]
                  /\ req' = [req EXCEPT ![r] =
                                 Begin("create", "login", u, None, version[u])]
                  /\ UNCHANGED <<tables, sessionLock, tokenLock>>
             ELSE Rollback(r)

(* CreateSessionInTx: the session, its first refresh token, the audit      *)
(* event and the COMMIT.                                                   *)
CommitLogin(r, s, t) ==
    /\ req[r].pc = "create"
    /\ status[s] = "NONE"
    /\ token[t] = "ABSENT"
    /\ owner' = [owner EXCEPT ![s] = req[r].user]
    /\ status' = [status EXCEPT ![s] = "ACTIVE"]
    /\ born' = [born EXCEPT ![s] = req[r].seen]
    /\ holder' = [holder EXCEPT ![t] = s]
    /\ token' = [token EXCEPT ![t] = "LIVE"]
    /\ Finish(r)
    /\ UNCHANGED version

-----------------------------------------------------------------------------
(* sessions.Service.RotateRefreshToken. *)

LockRefreshToken(r, t) ==
    /\ req[r].pc = "idle"
    /\ Unrevoked(t)
    /\ tokenLock[t] = None
    /\ tokenLock' = [tokenLock EXCEPT ![t] = r]
    /\ req' = [req EXCEPT ![r] =
                   IF token[t] = "LIVE"
                     THEN Begin("rotate", "refresh", owner[holder[t]], t, 0)
                     ELSE Begin("reuse", "reuse", owner[holder[t]], t, 0)]
    /\ UNCHANGED <<tables, userLock, sessionLock>>

(* Mutant: the session is read without FOR UPDATE. *)
LockRotatedSessionUnlocked(r, expired) ==
    /\ req[r].pc = "rotate"
    /\ IF status[SessionOf(r)] = "ACTIVE" /\ ~expired
         THEN /\ req' = [req EXCEPT ![r] = Begin("replace", "refresh",
                                                req[r].user, req[r].token, 0)]
              /\ UNCHANGED <<tables, locks>>
         ELSE Rollback(r)

(* The session must be active and neither of its deadlines have passed. *)
LockRotatedSession(r, expired) ==
    /\ req[r].pc = "rotate"
    /\ sessionLock[SessionOf(r)] = None
    /\ IF status[SessionOf(r)] = "ACTIVE" /\ ~expired
         THEN /\ sessionLock' = [sessionLock EXCEPT ![SessionOf(r)] = r]
              /\ req' = [req EXCEPT ![r] = Begin("replace", "refresh",
                                                req[r].user, req[r].token, 0)]
              /\ UNCHANGED <<tables, userLock, tokenLock>>
         ELSE Rollback(r)

(* Mutant: the rotated token is not consumed. *)
CommitRotationKeepsParent(r, t) ==
    /\ req[r].pc = "replace"
    /\ token[t] = "ABSENT"
    /\ AuditFree(r)
    /\ holder' = [holder EXCEPT ![t] = SessionOf(r)]
    /\ token' = [token EXCEPT ![t] = "LIVE"]
    /\ Finish(r)
    /\ UNCHANGED <<version, owner, status, born>>

(* CreateRefreshToken for the child, ConsumeAndReplaceRefreshToken,        *)
(* TouchSession, the audit event and the COMMIT.                           *)
CommitRotation(r, t) ==
    /\ req[r].pc = "replace"
    /\ token[t] = "ABSENT"
    /\ AuditFree(r)
    /\ IF token[req[r].token] = "LIVE"
         THEN /\ holder' = [holder EXCEPT ![t] = SessionOf(r)]
              /\ token' = [token EXCEPT ![t] = "LIVE", ![req[r].token] = "CONSUMED"]
              /\ Finish(r)
              /\ UNCHANGED <<version, owner, status, born>>
         ELSE Rollback(r)

(* handleReuse: MarkSessionCompromised updates the session if it is active.*)
MarkSessionCompromised(r) ==
    LET s == SessionOf(r)
    IN  /\ req[r].pc = "reuse"
        /\ IF status[s] = "ACTIVE"
             THEN /\ sessionLock[s] = None
                  /\ sessionLock' = [sessionLock EXCEPT ![s] = r]
                  /\ req' = [req EXCEPT ![r] = Visiting("reuse", req[r].user, {}, {}, {s})]
                  /\ UNCHANGED <<tables, userLock, tokenLock>>
             ELSE Rollback(r)

-----------------------------------------------------------------------------
(* Logout of one session or of all, and the change of the password. *)

(* revokeSession: lock the session; one that has ended already only has    *)
(* its tokens revoked.                                                     *)
LockRevokedSession(r, s) ==
    /\ req[r].pc = "idle"
    /\ status[s] # "NONE"
    /\ sessionLock[s] = None
    /\ sessionLock' = [sessionLock EXCEPT ![s] = r]
    /\ req' = [req EXCEPT ![r] =
                   Visiting("logout", owner[s], {}, {}, {s})]
    /\ UNCHANGED <<tables, userLock, tokenLock>>

(* RevokeAllActiveUserSessions takes its snapshot. *)
StartLogoutAll(r, u) ==
    /\ req[r].pc = "idle"
    /\ req' = [req EXCEPT ![r] =
                   Visiting("logoutAll", u, ActiveOf(u), ActiveOf(u), {})]
    /\ UNCHANGED <<tables, locks>>

(* Mutant: the user is read without FOR UPDATE. *)
LockPasswordUnlocked(r, u) ==
    /\ req[r].pc = "idle"
    /\ version[u] < MaxVersion
    /\ req' = [req EXCEPT ![r] = Begin("verified", "change", u, None, version[u])]
    /\ UNCHANGED <<tables, locks>>

(* ChangePassword verifies the current password against the locked user. *)
LockPassword(r, u) ==
    /\ req[r].pc = "idle"
    /\ version[u] < MaxVersion
    /\ userLock[u] = None
    /\ userLock' = [userLock EXCEPT ![u] = r]
    /\ req' = [req EXCEPT ![r] = Begin("verified", "change", u, None, version[u])]
    /\ UNCHANGED <<tables, sessionLock, tokenLock>>

SnapshotSessions(r) ==
    LET active == ActiveOf(req[r].user)
    IN  /\ req[r].pc = "verified"
        /\ req' = [req EXCEPT ![r] = Visiting("change", req[r].user, active, active, {})]
        /\ UNCHANGED <<tables, locks>>

(* The request after the visit of s, which it locks if Hit. *)
SessionVisited(r, s, Hit) ==
    Visiting(req[r].kind, req[r].user, req[r].asked, req[r].pending \ {s},
             req[r].targets \cup (IF Hit THEN {s} ELSE {}))

(* Mutant: rows another transaction holds are skipped. *)
VisitSessionSkipLocked(r, s) ==
    LET hit == sessionLock[s] = None /\ status[s] = "ACTIVE"
    IN  /\ req[r].pc = "sessions"
        /\ s \in req[r].pending
        /\ sessionLock' = IF hit THEN [sessionLock EXCEPT ![s] = r] ELSE sessionLock
        /\ req' = [req EXCEPT ![r] = SessionVisited(r, s, hit)]
        /\ UNCHANGED <<tables, userLock, tokenLock>>

VisitSession(r, s) ==
    LET hit == status[s] = "ACTIVE"
    IN  /\ req[r].pc = "sessions"
        /\ s \in req[r].pending
        /\ sessionLock[s] = None
        /\ sessionLock' = IF hit THEN [sessionLock EXCEPT ![s] = r] ELSE sessionLock
        /\ req' = [req EXCEPT ![r] = SessionVisited(r, s, hit)]
        /\ UNCHANGED <<tables, userLock, tokenLock>>

(* The tokens to revoke: those of the session, or for a bulk operation of  *)
(* every session of the user, also one opened since the sessions statement *)
(* took its snapshot.                                                      *)
InScope(r, t) ==
    IF req[r].kind \in {"logoutAll", "change"}
      THEN owner[holder[t]] = req[r].user
      ELSE holder[t] \in req[r].targets

SnapshotTokens(r) ==
    /\ req[r].pc = "sessions"
    /\ req[r].pending = {}
    /\ req' = [req EXCEPT ![r] =
                   Sweeping(req[r].kind, req[r].user, req[r].asked, req[r].targets,
                            {t \in Tokens : Unrevoked(t) /\ InScope(r, t)}, {})]
    /\ UNCHANGED <<tables, locks>>

VisitToken(r, t) ==
    /\ req[r].pc = "sweep"
    /\ t \in req[r].rows
    /\ tokenLock[t] \in {None, r}
    /\ tokenLock' = IF Unrevoked(t) THEN [tokenLock EXCEPT ![t] = r] ELSE tokenLock
    /\ req' = [req EXCEPT ![r] =
                   Sweeping(req[r].kind, req[r].user, req[r].asked, req[r].targets,
                            req[r].rows \ {t},
                            req[r].doomed \cup (IF Unrevoked(t) THEN {t} ELSE {}))]
    /\ UNCHANGED <<tables, userLock, sessionLock>>

EndedStatus(r, s) ==
    IF status[s] # "ACTIVE" THEN status[s]
    ELSE IF req[r].kind = "reuse" THEN "COMPROMISED" ELSE "REVOKED"

(* The audit event, which a logout of an ended session does not write, and *)
(* the COMMIT.                                                             *)
CommitSweep(r) ==
    /\ req[r].pc = "sweep"
    /\ req[r].rows = {}
    /\ \/ AuditFree(r)
       \/ req[r].kind = "logout" /\ \A s \in req[r].targets : status[s] # "ACTIVE"
    /\ status' = [s \in Sessions |->
                     IF s \in req[r].targets THEN EndedStatus(r, s) ELSE status[s]]
    /\ token' = [t \in Tokens |->
                    IF t \in req[r].doomed THEN "REVOKED" ELSE token[t]]
    /\ version' = [u \in Users |->
                      IF req[r].kind = "change" /\ u = req[r].user
                        THEN version[u] + 1 ELSE version[u]]
    /\ Finish(r)
    /\ UNCHANGED <<owner, born, holder>>

-----------------------------------------------------------------------------
(* Lock waits.  Refresh locks the token and then the session, the others   *)
(* sessions before tokens, and every audit event wants the user last: the  *)
(* waits can form a cycle, which PostgreSQL breaks by aborting one of its  *)
(* members.                                                                *)

WaitsFor(r, q) ==
    /\ r # q
    /\ \/ req[r].pc = "login" /\ userLock[req[r].user] = q
       \/ /\ \/ req[r].pc = "rotate"
             \/ req[r].pc = "reuse" /\ status[SessionOf(r)] = "ACTIVE"
          /\ sessionLock[SessionOf(r)] = q
       \/ req[r].pc = "sessions" /\ \E s \in req[r].pending : sessionLock[s] = q
       \/ req[r].pc = "sweep" /\ \E t \in req[r].rows : tokenLock[t] = q
       \/ /\ \/ req[r].pc = "replace"
             \/ req[r].pc = "sweep" /\ req[r].rows = {}
          /\ userLock[req[r].user] = q

(* Each of S waits for one of S, and is waited for by one. *)
InCircle(S) == \A x \in S : \E y, z \in S : WaitsFor(x, y) /\ WaitsFor(z, x)

Deadlocked(r) == \E S \in SUBSET Requests : r \in S /\ InCircle(S)

(* The bounded model has no id left for the row to insert. *)
OutOfIds(r) ==
    \/ req[r].pc = "create" /\ \A s \in Sessions : status[s] # "NONE"
    \/ req[r].pc \in {"create", "replace"} /\ \A t \in Tokens : token[t] # "ABSENT"

Abort(r) == (Deadlocked(r) \/ OutOfIds(r)) /\ Rollback(r)

Crash(r) == Crashes /\ req[r].pc # "idle" /\ Rollback(r)

-----------------------------------------------------------------------------
Init ==
    /\ version = [u \in Users |-> 0]
    /\ owner = [s \in Sessions |-> None]
    /\ status = [s \in Sessions |-> "NONE"]
    /\ born = [s \in Sessions |-> 0]
    /\ holder = [t \in Tokens |-> None]
    /\ token = [t \in Tokens |-> "ABSENT"]
    /\ userLock = [u \in Users |-> None]
    /\ sessionLock = [s \in Sessions |-> None]
    /\ tokenLock = [t \in Tokens |-> None]
    /\ req = [r \in Requests |-> Idle]

(* What a client can ask for, and what the server does to finish it. *)
Arrival(r) ==
    \/ \E u \in Users :
          ReadCredentials(r, u) \/ StartLogoutAll(r, u) \/ LockPassword(r, u)
    \/ \E t \in Tokens : LockRefreshToken(r, t)
    \/ \E s \in Sessions : LockRevokedSession(r, s)

Progress(r) ==
    \/ LockCredentials(r)
    \/ \E s \in Sessions, t \in Tokens : CommitLogin(r, s, t)
    \/ \E expired \in BOOLEAN : LockRotatedSession(r, expired)
    \/ \E t \in Tokens : CommitRotation(r, t)
    \/ MarkSessionCompromised(r)
    \/ SnapshotSessions(r)
    \/ \E s \in Sessions : VisitSession(r, s)
    \/ SnapshotTokens(r)
    \/ \E t \in Tokens : VisitToken(r, t)
    \/ CommitSweep(r)

Next == \E r \in Requests : Arrival(r) \/ Progress(r) \/ Abort(r) \/ Crash(r)

Spec == Init /\ [][Next]_vars

-----------------------------------------------------------------------------
(* Properties. *)

(* Type correctness of the tables, locks and request records. *)
TypeOK ==
    /\ version \in [Users -> Nat]
    /\ owner \in [Sessions -> Users \cup {None}]
    /\ status \in [Sessions -> SessionStatuses]
    /\ born \in [Sessions -> Nat]
    /\ holder \in [Tokens -> Sessions \cup {None}]
    /\ token \in [Tokens -> TokenStates]
    /\ userLock \in [Users -> Requests \cup {None}]
    /\ sessionLock \in [Sessions -> Requests \cup {None}]
    /\ tokenLock \in [Tokens -> Requests \cup {None}]
    /\ req \in [Requests -> Request]

(* RotateRefreshToken: a session never has two refresh tokens that could   *)
(* both be exchanged, however many clients present its tokens at once.     *)
OneLiveToken ==
    \A t, o \in Tokens :
        token[t] = "LIVE" /\ token[o] = "LIVE" /\ holder[t] = holder[o] => t = o

(* A session that was logged out or found compromised has no refresh token *)
(* left to exchange, not even one a concurrent rotation was creating.      *)
EndedSessionHasNoLiveToken ==
    \A t \in Tokens : token[t] = "LIVE" => status[holder[t]] = "ACTIVE"

(* ChangePassword: no session opened with an earlier password is active,   *)
(* not even one whose login verified the old password before the change.   *)
ActiveSessionsKnowThePassword ==
    \A s \in Sessions : status[s] = "ACTIVE" => born[s] = version[owner[s]]

(* Sessions and tokens never come back: an ended session keeps the way it  *)
(* ended, a consumed token is at most revoked, a revoked one stays so.     *)
NothingRevives ==
    [][/\ \A s \in Sessions :
              status[s] \in {"REVOKED", "COMPROMISED"} => status'[s] = status[s]
       /\ \A t \in Tokens :
              /\ token[t] = "CONSUMED" => token'[t] \in {"CONSUMED", "REVOKED"}
              /\ token[t] = "REVOKED" => token'[t] = "REVOKED"]_vars

(* RevokeAllUserSessions and ChangePassword: when they commit, no session  *)
(* they found active is active, whatever held it when they came by.        *)
LogoutAllIsComplete ==
    [][\A r \in Requests :
          CommitSweep(r) => \A s \in req[r].asked : status'[s] # "ACTIVE"]_vars

(* What a transaction in progress may rely on.  A login has its user at    *)
(* the version it read; a password change has its user, so that no login   *)
(* adds an active session it does not know of; a rotation has its live     *)
(* token and then its active session.                                      *)
UserHeld(r) ==
    /\ req[r].pc # "idle" => req[r].user \in Users
    /\ req[r].pc = "create" =>
           userLock[req[r].user] = r /\ req[r].seen = version[req[r].user]
    /\ req[r].pc = "verified" => req[r].kind = "change"
    /\ req[r].kind = "change" =>
           req[r].user \in Users /\ userLock[req[r].user] = r

TokenHeld(r) ==
    /\ req[r].pc \in {"rotate", "replace", "reuse"} =>
           /\ req[r].token \in Tokens /\ token[req[r].token] # "ABSENT"
           /\ owner[SessionOf(r)] = req[r].user
    /\ req[r].pc \in {"rotate", "replace"} =>
           tokenLock[req[r].token] = r /\ token[req[r].token] = "LIVE"
    /\ req[r].pc = "replace" =>
           sessionLock[SessionOf(r)] = r /\ status[SessionOf(r)] = "ACTIVE"

(* A revocation has its sessions, so that no rotation adds a live token to *)
(* them that the snapshot of its tokens statement does not show.           *)
SessionsHeld(r) ==
    /\ \A s \in req[r].asked :
           /\ status[s] # "NONE"
           /\ status[s] = "ACTIVE" => s \in req[r].pending \cup req[r].targets
    /\ \A s \in req[r].targets : sessionLock[s] = r
    /\ \A s \in req[r].pending \cup req[r].targets :
           status[s] # "NONE" /\ owner[s] = req[r].user
    /\ req[r].pc \in {"sessions", "sweep"} /\ req[r].kind = "change" =>
           ActiveOf(req[r].user) \subseteq req[r].pending \cup req[r].targets

TokensHeld(r) ==
    /\ req[r].pc = "sweep" =>
           /\ req[r].pending = {}
           /\ \A t \in Tokens :
                  token[t] = "LIVE" /\ holder[t] \in req[r].targets =>
                      t \in req[r].rows \cup req[r].doomed
    /\ \A t \in req[r].doomed : tokenLock[t] = r /\ token[t] # "ABSENT"

RowsExist ==
    /\ \A t \in Tokens : token[t] # "ABSENT" =>
           holder[t] \in Sessions /\ status[holder[t]] # "NONE"
    /\ \A s \in Sessions : status[s] # "NONE" => owner[s] \in Users

(* The row locks and snapshots of every transaction in progress protect    *)
(* what it read: its COMMIT is as good as doing everything at once.        *)
LocksProtect ==
    /\ RowsExist
    /\ \A r \in Requests :
           UserHeld(r) /\ TokenHeld(r) /\ SessionsHeld(r) /\ TokensHeld(r)

(* No lock order is kept between the handlers, and a victim's client gets  *)
(* an internal error.  That is never a login's; and requests of one kind   *)
(* do not lock each other out, except in handlers that lock many rows in   *)
(* no order or rows of one session in two: two logouts of all sessions,    *)
(* and two presentations of spent tokens of one session.                   *)
AlikeNeverDeadlock ==
    \A S \in (SUBSET Requests) \ {{}} : InCircle(S) =>
        /\ \A r \in S : req[r].kind # "login"
        /\ \A kind \in {"refresh", "logout", "change"} : \E r \in S : req[r].kind # kind
=============================================================================
