----------------------------- MODULE SessionUse -----------------------------
(***************************************************************************)
(* The life of sessions in time: their two deadlines, the requests that    *)
(* use them, the copies of their rows in Valkey, and the touch that a      *)
(* request leaves behind.                                                  *)
(*                                                                         *)
(* The middleware reads a session twice, from the cache or the database    *)
(* and then from the database again.  Evictions come after the COMMIT and  *)
(* may be lost; a cache may be refilled from a row read before the COMMIT; *)
(* the touch runs in a goroutine of its own and may be late.  Each of      *)
(* these is a step.  Refresh tokens and the locks of these transactions    *)
(* are in AuthSessions, contexts and scopes in Access.  Go and PostgreSQL  *)
(* read one clock here.                                                    *)
(***************************************************************************)
EXTENDS Naturals, FiniteSets

CONSTANTS
    Sessions,       \* ids of rows of auth_sessions, all of one user
    Handlers,       \* handlers of HTTP requests
    IdleTTL, AbsoluteTTL,       \* RefreshIdleTTL and SessionAbsoluteTTL
    CacheTTL, TouchInterval,
    MaxTime, LastLogin,         \* bounds on the clock, and on when sessions open
    MaxVersion                  \* bound on password changes

ASSUME TimesNatural ==
    {IdleTTL, AbsoluteTTL, CacheTTL, TouchInterval, MaxTime, LastLogin, MaxVersion} \subseteq Nat

VARIABLES
    now,
    user,       \* users: status and password_version
    session,    \* auth_sessions: status and deadlines; history: the password
                \* version and the time of the opening, and the last refresh
    cache,      \* auth:session:<id> of Valkey: copies of rows
    throttle,   \* auth:touch:<id>: until when no other touch is made
    touches,    \* goroutines of tryTouch that have not run yet
    req

vars == <<now, user, session, cache, throttle, touches, req>>

Earlier(a, b) == IF a < b THEN a ELSE b

NoSession == [status |-> "NONE", idle |-> 0, abs |-> 0, born |-> 0, opened |-> 0, refreshed |-> 0]
NoState == [status |-> "NONE", idle |-> 0, abs |-> 0, user |-> "ACTIVE", pv |-> 0]
Nothing == [state |-> NoState, until |-> 0]

(* state is what a request has read of its session, over (history) whether *)
(* the session had ended when it came, at when it was last checked, and    *)
(* stale the keys of the cache that are still to be deleted.               *)
Idle == [pc |-> "idle", session |-> {}, state |-> NoState, over |-> FALSE, at |-> 0, stale |-> {}]

Done(h) == req' = [req EXCEPT ![h] = Idle]

-----------------------------------------------------------------------------
(* Queries. *)

GetAuthSessionState(s) ==
    [status |-> session[s].status, idle |-> session[s].idle, abs |-> session[s].abs,
     user |-> user.status, pv |-> user.pv]

CreateAuthSession(s) ==
    [session EXCEPT ![s] =
        [status |-> "ACTIVE", idle |-> Earlier(now + IdleTTL, now + AbsoluteTTL),
         abs |-> now + AbsoluteTTL, born |-> user.pv, opened |-> now, refreshed |-> now]]

(* NOW() is t, the beginning of the transaction. *)
Touchable(s, t) == session[s].status = "ACTIVE" /\ session[s].idle > t /\ session[s].abs > t
TouchSession(s, idle) == [session EXCEPT ![s].idle = Earlier(idle, session[s].abs)]

RevokeSession(S, ended) ==
    [s \in Sessions |->
        IF s \in S /\ session[s].status = "ACTIVE"
          THEN [session[s] EXCEPT !.status = ended] ELSE session[s]]

ListAllUserSessionIDs == {s \in Sessions : session[s].status # "NONE"}

-----------------------------------------------------------------------------
(* sessions.Service and auth.Service, each up to its COMMIT.  What follows *)
(* is the deletion of cache keys.                                          *)

OpenSession(h, s) ==
    /\ req[h].pc = "idle"
    /\ session[s].status = "NONE" /\ user.status = "ACTIVE" /\ now <= LastLogin
    /\ session' = CreateAuthSession(s)
    /\ UNCHANGED <<now, user, cache, throttle, touches, req>>

(* RotateRefreshToken reads the clock before it waits for its rows.        *)
BeginRotation(h, s) ==
    /\ req[h].pc = "idle"
    /\ session[s].status # "NONE"
    /\ ~\E o \in Handlers : req[o].pc = "rotate" /\ req[o].session = {s}
    /\ req' = [req EXCEPT ![h] = [Idle EXCEPT !.pc = "rotate", !.session = {s}, !.at = now]]
    /\ UNCHANGED <<now, user, session, cache, throttle, touches>>

RotateRefreshToken(h, s) ==
    LET at == req[h].at
    IN  /\ req[h].pc = "rotate" /\ req[h].session = {s}
        /\ IF /\ session[s].status = "ACTIVE" /\ user.status = "ACTIVE"
              /\ at <= session[s].idle /\ at <= session[s].abs
              /\ Touchable(s, at)
             THEN /\ session' = [TouchSession(s, Earlier(at + IdleTTL, session[s].abs))
                                     EXCEPT ![s].refreshed = at]
                  /\ req' = [req EXCEPT ![h] = [Idle EXCEPT !.pc = "evict", !.stale = {s}]]
             ELSE Done(h) /\ UNCHANGED session
        /\ UNCHANGED <<now, user, cache, throttle, touches>>

(* Logout, and the reuse of a refresh token. *)
EndSession(h, s, ended) ==
    /\ req[h].pc = "idle"
    /\ session[s].status = "ACTIVE"
    /\ session' = RevokeSession({s}, ended)
    /\ req' = [req EXCEPT ![h] = [Idle EXCEPT !.pc = "evict", !.stale = {s}]]
    /\ UNCHANGED <<now, user, cache, throttle, touches>>

(* ChangePassword and ResetPassword. *)
ChangePassword(h) ==
    /\ req[h].pc = "idle"
    /\ user.status = "ACTIVE" /\ user.pv < MaxVersion
    /\ user' = [user EXCEPT !.pv = @ + 1]
    /\ session' = RevokeSession(Sessions, "REVOKED")
    /\ req' = [req EXCEPT ![h] = [Idle EXCEPT !.pc = "evict", !.stale = ListAllUserSessionIDs]]
    /\ UNCHANGED <<now, cache, throttle, touches>>

(* One DEL, which may fail; the others go on. *)
InvalidateSession(h) ==
    /\ req[h].pc = "evict"
    /\ \E s \in req[h].stale :
           /\ \/ cache' = [cache EXCEPT ![s] = Nothing]
              \/ UNCHANGED cache
           /\ IF req[h].stale = {s} THEN Done(h) ELSE req' = [req EXCEPT ![h].stale = @ \ {s}]
    /\ UNCHANGED <<now, user, session, throttle, touches>>

(* By an operator: nothing in the repository does it. *)
DisableUser ==
    /\ user.status = "ACTIVE"
    /\ user' = [user EXCEPT !.status = "DISABLED"]
    /\ UNCHANGED <<now, session, cache, throttle, touches, req>>

-----------------------------------------------------------------------------
(* authn.Middleware. *)

(* Access tokens have the password version their session was opened with:  *)
(* a later version ends the session.  One with a wrong signature or past   *)
(* its exp is refused before anything is read.                             *)
Over(s) ==
    session[s].status # "ACTIVE" \/ user.status # "ACTIVE" \/ session[s].born # user.pv

Arrive(h, s) ==
    /\ req[h].pc = "idle"
    /\ session[s].status # "NONE"
    /\ req' = [req EXCEPT ![h] = [Idle EXCEPT !.pc = "load", !.session = {s}, !.over = Over(s),
                                              !.at = now]]
    /\ UNCHANGED <<now, user, session, cache, throttle, touches>>

fromCache(entry) == now <= entry.state.idle /\ now <= entry.state.abs

Cached(s) == cache[s] # Nothing

(* A miss, or an entry past its deadlines, leads to the database and back. *)
load(h, s) ==
    /\ req[h].pc = "load" /\ req[h].session = {s}
    /\ req' = IF Cached(s) /\ fromCache(cache[s])
                THEN [req EXCEPT ![h].pc = "authority", ![h].state = cache[s].state, ![h].at = 0]
                ELSE [req EXCEPT ![h].pc = "fill", ![h].state = GetAuthSessionState(s)]
    /\ UNCHANGED <<now, user, session, cache, throttle, touches>>

(* Valkey does not answer. *)
loadFromDB(h, s) ==
    /\ req[h].pc = "load" /\ req[h].session = {s}
    /\ req' = [req EXCEPT ![h].pc = "authority", ![h].state = GetAuthSessionState(s), ![h].at = 0]
    /\ UNCHANGED <<now, user, session, cache, throttle, touches>>

(* at is the time that load read; 0 when a deadline has passed. *)
computeCacheTTL(state, at) ==
    LET end == Earlier(state.idle, state.abs)
    IN  IF end <= at THEN 0 ELSE Earlier(end - at, CacheTTL)

(* SET with EX; a failure is only logged. *)
loadFromDBAndCache(h, s) ==
    LET ttl == computeCacheTTL(req[h].state, req[h].at)
    IN  /\ req[h].pc = "fill" /\ req[h].session = {s}
        /\ \/ ttl > 0 /\ cache' = [cache EXCEPT ![s] = [state |-> req[h].state, until |-> now + ttl]]
           \/ UNCHANGED cache
        /\ req' = [req EXCEPT ![h].pc = "authority", ![h].at = 0]
        /\ UNCHANGED <<now, user, session, throttle, touches>>

(* Mutant: what the loader found is good enough. *)
StateOfLoader(h, s) == req[h].state

(* The state that decides. *)
getSessionState(h, s) == GetAuthSessionState(s)

ReadAuthority(h, s) ==
    /\ req[h].pc = "authority" /\ req[h].session = {s}
    /\ req' = [req EXCEPT ![h].pc = "check", ![h].state = getSessionState(h, s)]
    /\ UNCHANGED <<now, user, session, cache, throttle, touches>>

(* Mutant: the deadlines are left to a job that marks expired sessions. *)
validateStatusOnly(state) == state.status = "ACTIVE"

validateSessionStatus(state) == state.status = "ACTIVE" /\ now <= state.idle /\ now <= state.abs
validateUserStatus(state) == state.user = "ACTIVE"
validateVersions(s, state) == session[s].born = state.pv

Check(h, s) ==
    LET state == req[h].state
    IN  /\ req[h].pc = "check" /\ req[h].session = {s}
        /\ IF validateSessionStatus(state) /\ validateUserStatus(state) /\ validateVersions(s, state)
             THEN req' = [req EXCEPT ![h].pc = "serving", ![h].at = now]
             ELSE Done(h)
        /\ UNCHANGED <<now, user, session, cache, throttle, touches>>

(* Once the handler has answered: SET NX, which may fail, and a goroutine  *)
(* with the idle deadline that was read before the handler ran.            *)
tryTouch(h, s) ==
    /\ req[h].pc = "serving" /\ req[h].session = {s}
    /\ \/ /\ throttle[s] = 0
          /\ throttle' = [throttle EXCEPT ![s] = now + TouchInterval]
          /\ touches' = touches \cup {[session |-> s, idle |-> req[h].state.idle]}
       \/ UNCHANGED <<throttle, touches>>
    /\ Done(h)
    /\ UNCHANGED <<now, user, session, cache>>

touchSession(t) ==
    /\ touches' = touches \ {t}
    /\ session' = IF Touchable(t.session, now) THEN TouchSession(t.session, t.idle) ELSE session
    /\ UNCHANGED <<now, user, cache, throttle, req>>

(* The process ends, or a connection breaks: a request is given up, or a   *)
(* goroutine never runs.                                                   *)
GiveUp(h) ==
    /\ req[h].pc # "idle"
    /\ Done(h)
    /\ UNCHANGED <<now, user, session, cache, throttle, touches>>

LoseTouch(t) ==
    /\ touches' = touches \ {t}
    /\ UNCHANGED <<now, user, session, cache, throttle, req>>

(* Time passes, and Valkey drops the keys whose time has come. *)
Tick ==
    /\ now < MaxTime
    /\ now' = now + 1
    /\ cache' = [s \in Sessions |-> IF cache[s].until <= now' THEN Nothing ELSE cache[s]]
    /\ throttle' = [s \in Sessions |-> IF throttle[s] <= now' THEN 0 ELSE throttle[s]]
    /\ UNCHANGED <<user, session, touches, req>>

-----------------------------------------------------------------------------
Init ==
    /\ now = 0
    /\ user = [status |-> "ACTIVE", pv |-> 1]
    /\ session = [s \in Sessions |-> NoSession]
    /\ cache = [s \in Sessions |-> Nothing]
    /\ throttle = [s \in Sessions |-> 0]
    /\ touches = {}
    /\ req = [h \in Handlers |-> Idle]

Handle(h) ==
    \/ \E s \in Sessions :
           \/ OpenSession(h, s) \/ BeginRotation(h, s) \/ RotateRefreshToken(h, s)
           \/ \E ended \in {"REVOKED", "COMPROMISED"} : EndSession(h, s, ended)
           \/ Arrive(h, s) \/ load(h, s) \/ loadFromDB(h, s) \/ loadFromDBAndCache(h, s)
           \/ ReadAuthority(h, s) \/ Check(h, s) \/ tryTouch(h, s)
    \/ ChangePassword(h) \/ InvalidateSession(h) \/ GiveUp(h)

Next ==
    \/ \E h \in Handlers : Handle(h)
    \/ \E t \in touches : touchSession(t) \/ LoseTouch(t)
    \/ DisableUser
    \/ Tick

Spec == Init /\ [][Next]_vars

-----------------------------------------------------------------------------
(* Properties. *)

(* RequireAccessToken: a request that came after its session was revoked   *)
(* or compromised, its password changed or its user disabled is never      *)
(* served, whatever copies Valkey kept or was given again.                 *)
RefusedAfterEnd == \A h \in Handlers : req[h].pc = "serving" => ~req[h].over

(* RotateRefreshToken, TouchSession and validateSessionStatus: nothing but *)
(* a refresh keeps a session alive.  What is served is checked within      *)
(* RefreshIdleTTL of the last one and SessionAbsoluteTTL of the opening.   *)
ServedWithinDeadlines ==
    \A h \in Handlers, s \in Sessions :
        req[h].pc = "serving" /\ req[h].session = {s} =>
            /\ req[h].at <= session[s].refreshed + IdleTTL
            /\ req[h].at <= session[s].opened + AbsoluteTTL

=============================================================================
