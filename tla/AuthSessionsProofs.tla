------------------------- MODULE AuthSessionsProofs -------------------------
(***************************************************************************)
(* The safety properties of AuthSessions, for any number of users,         *)
(* sessions, tokens and concurrent requests, with and without crashes.     *)
(***************************************************************************)
EXTENDS AuthSessions, TLAPS

Held(r) == UserHeld(r) /\ TokenHeld(r) /\ SessionsHeld(r) /\ TokensHeld(r)

(* What the committed tables satisfy. *)
Tables ==
    /\ RowsExist
    /\ OneLiveToken
    /\ EndedSessionHasNoLiveToken
    /\ ActiveSessionsKnowThePassword

Inv == TypeOK /\ Tables /\ \A r \in Requests : Held(r)

-----------------------------------------------------------------------------
(* Rows are never deleted, sessions and tokens change hands never, and     *)
(* ended sessions do not become active.                                    *)
RowsKept ==
    /\ \A t \in Tokens : token[t] # "ABSENT" =>
           token'[t] # "ABSENT" /\ holder'[t] = holder[t]
    /\ \A s \in Sessions : status[s] # "NONE" =>
           /\ status'[s] # "NONE" /\ owner'[s] = owner[s]
           /\ status'[s] = "ACTIVE" => status[s] = "ACTIVE"

(* A step of another request leaves what q relies on alone if it keeps its *)
(* hands off the rows q has locked: it opens no session for a locked user  *)
(* and adds no live token to a locked session.                             *)
Undisturbed(q) ==
    /\ req'[q] = req[q]
    /\ \A u \in Users : userLock[u] = q =>
           /\ userLock'[u] = q /\ version'[u] = version[u]
           /\ \A s \in Sessions : owner'[s] = u /\ status'[s] = "ACTIVE" =>
                  owner[s] = u /\ status[s] = "ACTIVE"
    /\ \A s \in Sessions : sessionLock[s] = q /\ status[s] # "NONE" =>
           /\ sessionLock'[s] = q /\ status'[s] = status[s]
           /\ \A t \in Tokens : holder'[t] = s /\ token'[t] = "LIVE" =>
                  holder[t] = s /\ token[t] = "LIVE"
    /\ \A t \in Tokens : tokenLock[t] = q /\ token[t] # "ABSENT" =>
           tokenLock'[t] = q /\ token'[t] = token[t]

LEMMA Frame ==
    ASSUME Inv, RowsKept, NEW q \in Requests, Undisturbed(q)
    PROVE  Held(q)'
<1>1. req'[q] = req[q] /\ req[q] \in Request
    BY DEF Undisturbed, Inv, TypeOK
<1>2. Held(q) /\ RowsExist
    BY DEF Inv, Tables
<1>3. /\ req[q].asked \subseteq Sessions /\ req[q].pending \subseteq Sessions
      /\ req[q].targets \subseteq Sessions
      /\ req[q].doomed \subseteq Tokens
      /\ req[q].kind = "change" => req[q].user \in Users
    BY <1>1, <1>2 DEF Request, Held, UserHeld
<1>4. UserHeld(q)'
    BY <1>1, <1>2 DEF UserHeld, Held, Undisturbed
<1>5. TokenHeld(q)'
    BY <1>1, <1>2 DEF TokenHeld, Held, Undisturbed, RowsKept, RowsExist, SessionOf
<1>6. SessionsHeld(q)'
    BY <1>1, <1>2, <1>3
       DEF SessionsHeld, UserHeld, Held, Undisturbed, RowsKept, ActiveOf
<1>7. TokensHeld(q)'
    BY <1>1, <1>2, <1>3 DEF TokensHeld, SessionsHeld, Held, Undisturbed, RowsKept
<1> QED
    BY <1>4, <1>5, <1>6, <1>7 DEF Held

(* It is enough to look at the tables and the request that takes the step. *)
LEMMA Combine ==
    ASSUME Inv, NEW r \in Requests, TypeOK', Tables', RowsKept, Held(r)',
           \A q \in Requests \ {r} : Undisturbed(q)
    PROVE  Inv'
<1>1. \A q \in Requests \ {r} : Held(q)'
    BY Frame
<1> QED
    BY <1>1 DEF Inv

LEMMA TablesFrame ==
    ASSUME Inv, UNCHANGED tables
    PROVE  Tables' /\ RowsKept
BY DEF Inv, Tables, RowsKept, tables, RowsExist, OneLiveToken,
       EndedSessionHasNoLiveToken, ActiveSessionsKnowThePassword

(* An idle request relies on nothing. *)
LEMMA IdleRelies ==
    /\ Idle \in Request
    /\ \A r \in Requests : req'[r] = Idle => Held(r)'
BY DEF Idle, Begin, Request, Steps, Kinds, Held, UserHeld, TokenHeld,
       SessionsHeld, TokensHeld

(* A transaction that ends gives back its own locks only. *)
LEMMA Finishing ==
    ASSUME Inv, NEW r \in Requests, Finish(r)
    PROVE  /\ userLock' \in [Users -> Requests \cup {None}]
           /\ sessionLock' \in [Sessions -> Requests \cup {None}]
           /\ tokenLock' \in [Tokens -> Requests \cup {None}]
           /\ req' \in [Requests -> Request]
           /\ req'[r] = Idle
           /\ \A q \in Requests \ {r} :
                 /\ req'[q] = req[q]
                 /\ \A u \in Users : userLock[u] = q => userLock'[u] = q
                 /\ \A s \in Sessions : sessionLock[s] = q => sessionLock'[s] = q
                 /\ \A t \in Tokens : tokenLock[t] = q => tokenLock'[t] = q
BY IdleRelies DEF Finish, ReleaseLocks, Inv, TypeOK

LEMMA RollbackInv ==
    ASSUME Inv, NEW r \in Requests, Rollback(r)
    PROVE  Inv'
<1>1. TypeOK'
    BY Finishing DEF Rollback, Inv, TypeOK, tables
<1>2. Held(r)'
    BY Finishing, IdleRelies DEF Rollback
<1>3. \A q \in Requests \ {r} : Undisturbed(q)
    BY Finishing DEF Rollback, Undisturbed, tables
<1> QED
    BY <1>1, <1>2, <1>3, TablesFrame, Combine DEF Rollback

-----------------------------------------------------------------------------
(* Login. *)

LEMMA ReadCredentialsInv ==
    ASSUME Inv, NEW r \in Requests, NEW u \in Users, ReadCredentials(r, u)
    PROVE  Inv'
<1>. DEFINE x == Begin("login", "login", u, None, version[u])
<1>1. x \in Request
    BY DEF Begin, Request, Steps, Kinds, Inv, TypeOK
<1>2. req' = [req EXCEPT ![r] = x] /\ req'[r] = x /\ UNCHANGED <<tables, locks>>
    BY DEF ReadCredentials, Inv, TypeOK
<1>3. /\ x.pc = "login" /\ x.kind = "login" /\ x.user = u
      /\ x.asked = {} /\ x.pending = {} /\ x.targets = {} /\ x.doomed = {}
    BY DEF Begin
<1> HIDE DEF x
<1>4. TypeOK'
    BY <1>1, <1>2 DEF Inv, TypeOK, tables, locks
<1>5. Held(r)'
    BY <1>2, <1>3 DEF Held, UserHeld, TokenHeld, SessionsHeld, TokensHeld
<1>6. \A q \in Requests \ {r} : Undisturbed(q)
    BY <1>2 DEF Undisturbed, Inv, TypeOK, tables, locks
<1> QED
    BY <1>2, <1>4, <1>5, <1>6, TablesFrame, Combine

LEMMA LockCredentialsInv ==
    ASSUME Inv, NEW r \in Requests, LockCredentials(r)
    PROVE  Inv'
<1>. DEFINE u == req[r].user
            x == Begin("create", "login", u, None, version[u])
<1>1. u \in Users /\ userLock[u] = None
    BY DEF LockCredentials, Inv, Held, UserHeld
<1>2. CASE req[r].seen = version[u]
    <2>1. x \in Request
        BY <1>1 DEF Begin, Request, Steps, Kinds, Inv, TypeOK
    <2>2. /\ req' = [req EXCEPT ![r] = x] /\ req'[r] = x
          /\ userLock' = [userLock EXCEPT ![u] = r]
          /\ UNCHANGED <<tables, sessionLock, tokenLock>>
        BY <1>2 DEF LockCredentials, Inv, TypeOK
    <2>3. /\ x.pc = "create" /\ x.kind = "login" /\ x.user = u
          /\ x.seen = version[u] /\ x.asked = {} /\ x.pending = {}
          /\ x.targets = {} /\ x.doomed = {}
        BY DEF Begin
    <2> HIDE DEF x, u
    <2>4. TypeOK'
        BY <1>1, <2>1, <2>2 DEF Inv, TypeOK, tables
    <2>5. userLock'[u] = r /\ version' = version
        BY <1>1, <2>2 DEF Inv, TypeOK, tables
    <2>6. Held(r)'
        BY <1>1, <2>2, <2>3, <2>5
           DEF Held, UserHeld, TokenHeld, SessionsHeld, TokensHeld
    <2>7. \A q \in Requests \ {r} : Undisturbed(q)
        BY <1>1, <2>2, NoneIsNoRow DEF Undisturbed, Inv, TypeOK, tables
    <2> QED
        BY <2>2, <2>4, <2>6, <2>7, TablesFrame, Combine
<1>3. CASE req[r].seen # version[u]
    BY <1>3, RollbackInv DEF LockCredentials
<1> QED
    BY <1>2, <1>3

LEMMA CommitLoginInv ==
    ASSUME Inv, NEW r \in Requests, NEW s \in Sessions, NEW t \in Tokens,
           CommitLogin(r, s, t)
    PROVE  Inv'
<1>. DEFINE u == req[r].user
<1>1. /\ u \in Users /\ userLock[u] = r /\ req[r].seen = version[u]
      /\ version[u] \in Nat
    BY DEF CommitLogin, Inv, Held, UserHeld, TypeOK
<1>2. /\ status[s] = "NONE" /\ token[t] = "ABSENT"
      /\ owner' = [owner EXCEPT ![s] = u]
      /\ status' = [status EXCEPT ![s] = "ACTIVE"]
      /\ born' = [born EXCEPT ![s] = version[u]]
      /\ holder' = [holder EXCEPT ![t] = s]
      /\ token' = [token EXCEPT ![t] = "LIVE"]
      /\ version' = version /\ Finish(r)
    BY <1>1 DEF CommitLogin
<1> HIDE DEF u
<1>3. TypeOK'
    BY <1>1, <1>2, Finishing DEF Inv, TypeOK, SessionStatuses, TokenStates
<1>4. RowsKept
    BY <1>2 DEF RowsKept, Inv, TypeOK
<1>5. Tables'
    <2>1. RowsExist'
        BY <1>1, <1>2 DEF Inv, TypeOK, Tables, RowsExist
    <2>2. \A o \in Tokens : token[o] # "ABSENT" => holder[o] # s
        BY <1>2 DEF Inv, Tables, RowsExist
    <2>3. OneLiveToken'
        BY <1>2, <2>2 DEF Inv, TypeOK, Tables, OneLiveToken
    <2>4. EndedSessionHasNoLiveToken'
        BY <1>2 DEF Inv, TypeOK, Tables, EndedSessionHasNoLiveToken, RowsExist
    <2>5. ActiveSessionsKnowThePassword'
        BY <1>2 DEF Inv, TypeOK, Tables, ActiveSessionsKnowThePassword
    <2> QED
        BY <2>1, <2>3, <2>4, <2>5 DEF Tables
<1>6. Held(r)'
    BY <1>2, Finishing, IdleRelies
<1>7. ASSUME NEW q \in Requests \ {r}
      PROVE  Undisturbed(q)
    <2>1. \A v \in Users : userLock[v] = q => v # u
        BY <1>1
    <2>2. ASSUME NEW z \in Sessions, status[z] # "NONE"
          PROVE  /\ status'[z] = status[z]
                 /\ \A o \in Tokens : holder'[o] = z /\ token'[o] = "LIVE" =>
                       holder[o] = z /\ token[o] = "LIVE"
        BY <1>2, <2>2 DEF Inv, TypeOK
    <2> QED
        BY <1>2, <2>1, <2>2, Finishing DEF Undisturbed, Inv, TypeOK
<1> QED
    BY <1>3, <1>4, <1>5, <1>6, <1>7, Combine

-----------------------------------------------------------------------------
(* Steps inside a transaction, which write no table and lock free rows. *)

Within(r) ==
    /\ UNCHANGED tables
    /\ req' \in [Requests -> Request]
    /\ \A q \in Requests \ {r} : req'[q] = req[q]
    /\ userLock' \in [Users -> Requests \cup {None}]
    /\ \A u \in Users : userLock[u] \notin {None, r} => userLock'[u] = userLock[u]
    /\ sessionLock' \in [Sessions -> Requests \cup {None}]
    /\ \A s \in Sessions :
           sessionLock[s] \notin {None, r} => sessionLock'[s] = sessionLock[s]
    /\ tokenLock' \in [Tokens -> Requests \cup {None}]
    /\ \A t \in Tokens :
           tokenLock[t] \notin {None, r} => tokenLock'[t] = tokenLock[t]

LEMMA WithinInv ==
    ASSUME Inv, NEW r \in Requests, Within(r), Held(r)'
    PROVE  Inv'
<1>1. TypeOK'
    BY DEF Within, Inv, TypeOK, tables
<1>2. \A q \in Requests \ {r} : Undisturbed(q)
    BY NoneIsNoRow DEF Within, Undisturbed, tables
<1> QED
    BY <1>1, <1>2, TablesFrame, Combine DEF Within

LEMMA LockRefreshTokenInv ==
    ASSUME Inv, NEW r \in Requests, NEW t \in Tokens, LockRefreshToken(r, t)
    PROVE  Inv'
<1>. DEFINE u == owner[holder[t]]
            x == Begin("rotate", "refresh", u, t, 0)
            y == Begin("reuse", "reuse", u, t, 0)
<1>1. /\ token[t] \in {"LIVE", "CONSUMED"} /\ tokenLock[t] = None
      /\ tokenLock' = [tokenLock EXCEPT ![t] = r]
      /\ req' = [req EXCEPT ![r] = IF token[t] = "LIVE" THEN x ELSE y]
      /\ UNCHANGED <<tables, userLock, sessionLock>>
    BY DEF LockRefreshToken, Unrevoked
<1>2. u \in Users
    BY <1>1 DEF Inv, Tables, RowsExist
<1> HIDE DEF u
<1>3. x \in Request /\ y \in Request
    BY <1>2 DEF Begin, Request, Steps, Kinds
<1>4. /\ x.pc = "rotate" /\ x.kind = "refresh" /\ x.user = u /\ x.token = t
      /\ x.asked = {} /\ x.pending = {} /\ x.targets = {} /\ x.doomed = {}
    BY DEF Begin
<1>5. /\ y.pc = "reuse" /\ y.kind = "reuse" /\ y.user = u /\ y.token = t
      /\ y.asked = {} /\ y.pending = {} /\ y.targets = {} /\ y.doomed = {}
    BY DEF Begin
<1> HIDE DEF x, y
<1>6. Within(r)
    BY <1>1, <1>3 DEF Within, Inv, TypeOK
<1>7. tokenLock'[t] = r /\ token' = token /\ owner'[holder'[t]] = u
    BY <1>1 DEF Inv, TypeOK, tables, u
<1>8. CASE token[t] = "LIVE"
    <2>1. req'[r] = x
        BY <1>1, <1>8 DEF Inv, TypeOK
    <2>2. Held(r)'
        BY <1>2, <1>4, <1>7, <1>8, <2>1
           DEF Held, UserHeld, TokenHeld, SessionsHeld, TokensHeld, SessionOf
    <2> QED
        BY <1>6, <2>2, WithinInv
<1>9. CASE token[t] = "CONSUMED"
    <2>1. req'[r] = y
        BY <1>1, <1>9 DEF Inv, TypeOK
    <2>2. Held(r)'
        BY <1>2, <1>5, <1>7, <1>9, <2>1
           DEF Held, UserHeld, TokenHeld, SessionsHeld, TokensHeld, SessionOf
    <2> QED
        BY <1>6, <2>2, WithinInv
<1> QED
    BY <1>1, <1>8, <1>9

LEMMA LockRotatedSessionInv ==
    ASSUME Inv, NEW r \in Requests, NEW expired \in BOOLEAN,
           LockRotatedSession(r, expired)
    PROVE  Inv'
<1>. DEFINE t == req[r].token
            s == holder[t]
            u == req[r].user
            x == Begin("replace", "refresh", u, t, 0)
<1>1. /\ t \in Tokens /\ tokenLock[t] = r /\ token[t] = "LIVE" /\ u \in Users
      /\ s \in Sessions /\ sessionLock[s] = None /\ owner[s] = u
    BY DEF LockRotatedSession, Inv, Held, TokenHeld, UserHeld, Tables, RowsExist,
           SessionOf
<1>2. CASE status[s] = "ACTIVE" /\ ~expired
    <2>1. /\ sessionLock' = [sessionLock EXCEPT ![s] = r]
          /\ req' = [req EXCEPT ![r] = x]
          /\ UNCHANGED <<tables, userLock, tokenLock>>
        BY <1>2 DEF LockRotatedSession, SessionOf
    <2> HIDE DEF t, u, s
    <2>2. x \in Request
        BY <1>1 DEF Begin, Request, Steps, Kinds
    <2>3. /\ x.pc = "replace" /\ x.kind = "refresh" /\ x.user = u
          /\ x.token = t /\ x.asked = {} /\ x.pending = {} /\ x.targets = {}
          /\ x.doomed = {}
        BY DEF Begin
    <2> HIDE DEF x
    <2>4. Within(r)
        BY <1>1, <2>1, <2>2 DEF Within, Inv, TypeOK
    <2>5. /\ req'[r] = x /\ sessionLock'[s] = r /\ tokenLock' = tokenLock
          /\ token' = token /\ holder' = holder /\ status' = status
          /\ owner' = owner
        BY <1>1, <2>1 DEF Inv, TypeOK, tables
    <2>6. holder'[t] = s
        BY <2>5 DEF s
    <2>7. Held(r)'
        BY <1>1, <1>2, <2>3, <2>5, <2>6
           DEF Held, UserHeld, TokenHeld, SessionsHeld, TokensHeld, SessionOf
    <2> QED
        BY <2>4, <2>7, WithinInv
<1>3. CASE ~(status[s] = "ACTIVE" /\ ~expired)
    BY <1>3, RollbackInv DEF LockRotatedSession, SessionOf
<1> QED
    BY <1>2, <1>3

LEMMA MarkSessionCompromisedInv ==
    ASSUME Inv, NEW r \in Requests, MarkSessionCompromised(r)
    PROVE  Inv'
<1>. DEFINE s == SessionOf(r)
            u == req[r].user
            x == Visiting("reuse", u, {}, {}, {s})
<1>1. CASE status[s] = "ACTIVE"
    <2>1. /\ sessionLock[s] = None
          /\ sessionLock' = [sessionLock EXCEPT ![s] = r]
          /\ req' = [req EXCEPT ![r] = x]
          /\ UNCHANGED <<tables, userLock, tokenLock>>
        BY <1>1 DEF MarkSessionCompromised
    <2>2. s \in Sessions /\ u \in Users /\ owner[s] = u
        BY DEF MarkSessionCompromised, Inv, Held, TokenHeld, UserHeld, Tables,
               RowsExist, SessionOf
    <2> HIDE DEF s, u
    <2>3. x \in Request
        BY <2>2 DEF Visiting, Request, Steps, Kinds
    <2>4. /\ x.pc = "sessions" /\ x.kind = "reuse" /\ x.user = u
          /\ x.asked = {} /\ x.pending = {} /\ x.targets = {s} /\ x.doomed = {}
        BY DEF Visiting
    <2> HIDE DEF x
    <2>5. Within(r)
        BY <2>1, <2>2, <2>3 DEF Within, Inv, TypeOK
    <2>6. /\ req'[r] = x /\ sessionLock'[s] = r
          /\ status' = status /\ owner' = owner
        BY <2>1, <2>2 DEF Inv, TypeOK, tables
    <2>7. Held(r)'
        BY <1>1, <2>2, <2>4, <2>6
           DEF Held, UserHeld, TokenHeld, SessionsHeld, TokensHeld
    <2> QED
        BY <2>5, <2>7, WithinInv
<1>2. CASE status[s] # "ACTIVE"
    BY <1>2, RollbackInv DEF MarkSessionCompromised
<1> QED
    BY <1>1, <1>2

LEMMA LockRevokedSessionInv ==
    ASSUME Inv, NEW r \in Requests, NEW s \in Sessions, LockRevokedSession(r, s)
    PROVE  Inv'
<1>. DEFINE u == owner[s]
            x == Visiting("logout", u, {}, {}, {s})
<1>1. /\ status[s] # "NONE" /\ sessionLock[s] = None
      /\ sessionLock' = [sessionLock EXCEPT ![s] = r]
      /\ req' = [req EXCEPT ![r] = x]
      /\ UNCHANGED <<tables, userLock, tokenLock>>
    BY DEF LockRevokedSession
<1>2. u \in Users
    BY <1>1 DEF Inv, Tables, RowsExist
<1>3. owner'[s] = u
    BY <1>1 DEF tables
<1> HIDE DEF u
<1>4. x \in Request
    BY <1>2 DEF Visiting, Request, Steps, Kinds
<1>5. /\ x.pc = "sessions" /\ x.kind = "logout" /\ x.user = u
      /\ x.asked = {} /\ x.pending = {} /\ x.targets = {s} /\ x.doomed = {}
    BY DEF Visiting
<1> HIDE DEF x
<1>6. Within(r)
    BY <1>1, <1>4 DEF Within, Inv, TypeOK
<1>7. req'[r] = x /\ sessionLock'[s] = r /\ status' = status
    BY <1>1 DEF Inv, TypeOK, tables
<1>8. Held(r)'
    BY <1>1, <1>2, <1>3, <1>5, <1>7
       DEF Held, UserHeld, TokenHeld, SessionsHeld, TokensHeld
<1> QED
    BY <1>6, <1>8, WithinInv

LEMMA StartLogoutAllInv ==
    ASSUME Inv, NEW r \in Requests, NEW u \in Users, StartLogoutAll(r, u)
    PROVE  Inv'
<1>. DEFINE A == ActiveOf(u)
            x == Visiting("logoutAll", u, A, A, {})
<1>1. req' = [req EXCEPT ![r] = x] /\ UNCHANGED <<tables, locks>>
    BY DEF StartLogoutAll
<1>2. A \subseteq Sessions /\ \A s \in A : status[s] = "ACTIVE" /\ owner[s] = u
    BY DEF ActiveOf
<1> HIDE DEF A
<1>3. x \in Request
    BY <1>2 DEF Visiting, Request, Steps, Kinds
<1>4. /\ x.pc = "sessions" /\ x.kind = "logoutAll" /\ x.user = u
      /\ x.asked = A /\ x.pending = A /\ x.targets = {} /\ x.doomed = {}
    BY DEF Visiting
<1> HIDE DEF x
<1>5. Within(r)
    BY <1>1, <1>3 DEF Within, Inv, TypeOK, locks
<1>6. req'[r] = x /\ status' = status /\ owner' = owner
    BY <1>1 DEF Inv, TypeOK, tables
<1>7. Held(r)'
    BY <1>2, <1>4, <1>6
       DEF Held, UserHeld, TokenHeld, SessionsHeld, TokensHeld
<1> QED
    BY <1>5, <1>7, WithinInv

LEMMA LockPasswordInv ==
    ASSUME Inv, NEW r \in Requests, NEW u \in Users, LockPassword(r, u)
    PROVE  Inv'
<1>. DEFINE x == Begin("verified", "change", u, None, version[u])
<1>1. /\ userLock[u] = None /\ userLock' = [userLock EXCEPT ![u] = r]
      /\ req' = [req EXCEPT ![r] = x]
      /\ UNCHANGED <<tables, sessionLock, tokenLock>>
    BY DEF LockPassword
<1>2. x \in Request
    BY DEF Begin, Request, Steps, Kinds, Inv, TypeOK
<1>3. /\ x.pc = "verified" /\ x.kind = "change" /\ x.user = u
      /\ x.asked = {} /\ x.pending = {} /\ x.targets = {} /\ x.doomed = {}
    BY DEF Begin
<1> HIDE DEF x
<1>4. Within(r)
    BY <1>1, <1>2 DEF Within, Inv, TypeOK
<1>5. req'[r] = x /\ userLock'[u] = r
    BY <1>1 DEF Inv, TypeOK
<1>6. Held(r)'
    BY <1>3, <1>5 DEF Held, UserHeld, TokenHeld, SessionsHeld, TokensHeld
<1> QED
    BY <1>4, <1>6, WithinInv

LEMMA SnapshotSessionsInv ==
    ASSUME Inv, NEW r \in Requests, SnapshotSessions(r)
    PROVE  Inv'
<1>. DEFINE u == req[r].user
            A == ActiveOf(u)
            x == Visiting("change", u, A, A, {})
<1>1. req' = [req EXCEPT ![r] = x] /\ UNCHANGED <<tables, locks>>
    BY DEF SnapshotSessions
<1>2. u \in Users /\ userLock[u] = r
    BY DEF SnapshotSessions, Inv, Held, UserHeld
<1>3. A \subseteq Sessions /\ \A s \in A : status[s] = "ACTIVE" /\ owner[s] = u
    BY DEF ActiveOf
<1>4. \A s \in Sessions : owner'[s] = u /\ status'[s] = "ACTIVE" => s \in A
    BY <1>1 DEF ActiveOf, tables
<1> HIDE DEF A, u
<1>5. x \in Request
    BY <1>2, <1>3 DEF Visiting, Request, Steps, Kinds
<1>6. /\ x.pc = "sessions" /\ x.kind = "change" /\ x.user = u
      /\ x.asked = A /\ x.pending = A /\ x.targets = {} /\ x.doomed = {}
    BY DEF Visiting
<1> HIDE DEF x
<1>7. Within(r)
    BY <1>1, <1>5 DEF Within, Inv, TypeOK, locks
<1>8. /\ req'[r] = x /\ status' = status /\ owner' = owner
      /\ userLock' = userLock
    BY <1>1 DEF Inv, TypeOK, tables, locks
<1>9. SessionsHeld(r)'
    BY <1>3, <1>4, <1>6, <1>8 DEF SessionsHeld, ActiveOf
<1>10. Held(r)'
    BY <1>2, <1>6, <1>8, <1>9 DEF Held, UserHeld, TokenHeld, TokensHeld
<1> QED
    BY <1>7, <1>10, WithinInv

LEMMA VisitSessionInv ==
    ASSUME Inv, NEW r \in Requests, NEW s \in Sessions, VisitSession(r, s)
    PROVE  Inv'
<1>. DEFINE hit == status[s] = "ACTIVE"
            x == SessionVisited(r, s, hit)
<1>1. /\ req[r].pc = "sessions" /\ s \in req[r].pending /\ sessionLock[s] = None
      /\ sessionLock' = IF hit THEN [sessionLock EXCEPT ![s] = r] ELSE sessionLock
      /\ req' = [req EXCEPT ![r] = x]
      /\ UNCHANGED <<tables, userLock, tokenLock>>
    BY DEF VisitSession
<1>2. req[r] \in Request /\ Held(r) /\ Tables
    BY DEF Inv, TypeOK
<1>3. x \in Request
    BY <1>2 DEF SessionVisited, Visiting, Request, Steps
<1>4. /\ x.pc = "sessions" /\ x.kind = req[r].kind /\ x.user = req[r].user
      /\ x.asked = req[r].asked /\ x.pending = req[r].pending \ {s}
      /\ x.targets = req[r].targets \cup (IF hit THEN {s} ELSE {})
      /\ x.doomed = {}
    BY DEF SessionVisited, Visiting
<1> HIDE DEF x
<1>5. Within(r)
    BY <1>1, <1>3 DEF Within, Inv, TypeOK
<1>6. /\ req'[r] = x /\ status' = status /\ owner' = owner
      /\ userLock' = userLock
      /\ hit => sessionLock'[s] = r
      /\ \A z \in Sessions : sessionLock[z] = r => sessionLock'[z] = r
    BY <1>1 DEF Inv, TypeOK, tables
<1>7. UserHeld(r)'
    BY <1>1, <1>2, <1>4, <1>6 DEF Held, UserHeld
<1>8. SessionsHeld(r)'
    <2>1. /\ req[r].targets \subseteq Sessions /\ req[r].asked \subseteq Sessions
          /\ req[r].pending \subseteq Sessions
        BY <1>2 DEF Request
    <2>2. \A z \in x.targets : sessionLock'[z] = r
        BY <1>2, <1>4, <1>6, <2>1 DEF Held, SessionsHeld
    <2>3. \A z \in x.pending \cup x.targets :
             status'[z] # "NONE" /\ owner'[z] = req[r].user
        BY <1>1, <1>2, <1>4, <1>6, <2>1 DEF Held, SessionsHeld
    <2>4. \A z \in x.asked :
             /\ status'[z] # "NONE"
             /\ status'[z] = "ACTIVE" => z \in x.pending \cup x.targets
        BY <1>2, <1>4, <1>6, <2>1 DEF Held, SessionsHeld
    <2>5. req[r].kind = "change" =>
              ActiveOf(req[r].user)' \subseteq x.pending \cup x.targets
        BY <1>1, <1>2, <1>4, <1>6 DEF Held, SessionsHeld, ActiveOf
    <2> QED
        BY <1>4, <1>6, <2>2, <2>3, <2>4, <2>5 DEF SessionsHeld
<1>9. TokenHeld(r)' /\ TokensHeld(r)'
    BY <1>4, <1>6 DEF TokenHeld, TokensHeld
<1> QED
    BY <1>5, <1>7, <1>8, <1>9, WithinInv DEF Held

(* The sessions statement is over: its sessions are locked, no rotation    *)
(* can be about to add a token to them, and the snapshot shows all theirs. *)
LEMMA SnapshotTokensInv ==
    ASSUME Inv, NEW r \in Requests, SnapshotTokens(r)
    PROVE  Inv'
<1>. DEFINE R == {t \in Tokens : Unrevoked(t) /\ InScope(r, t)}
            x == Sweeping(req[r].kind, req[r].user, req[r].asked, req[r].targets,
                          R, {})
<1>1. /\ req[r].pc = "sessions" /\ req[r].pending = {}
      /\ req' = [req EXCEPT ![r] = x] /\ UNCHANGED <<tables, locks>>
    BY DEF SnapshotTokens
<1>2. req[r] \in Request /\ Held(r) /\ Tables
    BY DEF Inv, TypeOK
<1>3. /\ R \subseteq Tokens
      /\ \A t \in Tokens :
            token[t] = "LIVE" /\ holder[t] \in req[r].targets => t \in R
    BY <1>2 DEF Unrevoked, InScope, Held, SessionsHeld
<1> HIDE DEF R
<1>4. x \in Request
    BY <1>2, <1>3 DEF Sweeping, Request, Steps
<1>5. /\ x.pc = "sweep" /\ x.kind = req[r].kind /\ x.user = req[r].user
      /\ x.asked = req[r].asked /\ x.pending = {}
      /\ x.targets = req[r].targets /\ x.rows = R /\ x.doomed = {}
    BY DEF Sweeping
<1> HIDE DEF x
<1>6. Within(r)
    BY <1>1, <1>4 DEF Within, Inv, TypeOK, locks
<1>7. req'[r] = x /\ UNCHANGED <<status, owner, holder, token, userLock, sessionLock>>
    BY <1>1 DEF Inv, TypeOK, tables, locks
<1>8. UserHeld(r)' /\ TokenHeld(r)'
    BY <1>1, <1>2, <1>5, <1>7 DEF Held, UserHeld, TokenHeld
<1>9. SessionsHeld(r)'
    BY <1>1, <1>2, <1>5, <1>7 DEF Held, SessionsHeld, ActiveOf
<1>10. TokensHeld(r)'
    BY <1>3, <1>5, <1>7 DEF TokensHeld
<1> QED
    BY <1>6, <1>8, <1>9, <1>10, WithinInv DEF Held

LEMMA VisitTokenInv ==
    ASSUME Inv, NEW r \in Requests, NEW t \in Tokens, VisitToken(r, t)
    PROVE  Inv'
<1>. DEFINE D == req[r].doomed \cup (IF Unrevoked(t) THEN {t} ELSE {})
            x == Sweeping(req[r].kind, req[r].user, req[r].asked, req[r].targets,
                          req[r].rows \ {t}, D)
<1>1. /\ req[r].pc = "sweep" /\ t \in req[r].rows /\ tokenLock[t] \in {None, r}
      /\ tokenLock' = IF Unrevoked(t) THEN [tokenLock EXCEPT ![t] = r] ELSE tokenLock
      /\ req' = [req EXCEPT ![r] = x]
      /\ UNCHANGED <<tables, userLock, sessionLock>>
    BY DEF VisitToken
<1>2. req[r] \in Request /\ Held(r)
    BY DEF Inv, TypeOK
<1>3. x \in Request
    BY <1>2 DEF Sweeping, Request, Steps
<1>4. /\ x.pc = "sweep" /\ x.kind = req[r].kind /\ x.user = req[r].user
      /\ x.asked = req[r].asked /\ x.pending = {} /\ x.targets = req[r].targets
      /\ x.rows = req[r].rows \ {t} /\ x.doomed = D
    BY DEF Sweeping
<1> HIDE DEF x
<1>5. Within(r)
    BY <1>1, <1>3 DEF Within, Inv, TypeOK
<1>6. /\ req'[r] = x /\ UNCHANGED <<status, owner, holder, token, userLock, sessionLock>>
      /\ Unrevoked(t) => tokenLock'[t] = r
      /\ \A o \in Tokens : tokenLock[o] = r => tokenLock'[o] = r
    BY <1>1 DEF Inv, TypeOK, tables
<1>7. req[r].pending = {} /\ req[r].doomed \subseteq Tokens
    BY <1>1, <1>2 DEF Held, TokensHeld, Request
<1>8. UserHeld(r)' /\ TokenHeld(r)'
    BY <1>1, <1>2, <1>4, <1>6 DEF Held, UserHeld, TokenHeld
<1>9. SessionsHeld(r)'
    BY <1>1, <1>2, <1>4, <1>6, <1>7 DEF Held, SessionsHeld, ActiveOf
<1>10. TokensHeld(r)'
    <2>1. \A o \in Tokens : token[o] = "LIVE" /\ holder[o] \in req[r].targets =>
              o \in (req[r].rows \ {t}) \cup D
        BY <1>1, <1>2 DEF Held, TokensHeld, Unrevoked
    <2>2. \A o \in D : tokenLock'[o] = r /\ token'[o] # "ABSENT"
        BY <1>2, <1>6, <1>7 DEF Held, TokensHeld, Unrevoked
    <2> QED
        BY <1>4, <1>6, <2>1, <2>2 DEF TokensHeld
<1> QED
    BY <1>5, <1>8, <1>9, <1>10, WithinInv DEF Held

-----------------------------------------------------------------------------
(* The two commits that change tokens of existing sessions. *)

LEMMA CommitRotationInv ==
    ASSUME Inv, NEW r \in Requests, NEW t \in Tokens, CommitRotation(r, t)
    PROVE  Inv'
<1>. DEFINE p == req[r].token
            s == holder[p]
<1>1. /\ p \in Tokens /\ token[p] = "LIVE" /\ tokenLock[p] = r
      /\ s \in Sessions /\ sessionLock[s] = r /\ status[s] = "ACTIVE"
      /\ owner[s] \in Users
    BY DEF CommitRotation, Inv, Held, TokenHeld, Tables, RowsExist, SessionOf
<1>2. /\ token[t] = "ABSENT" /\ p # t
      /\ holder' = [holder EXCEPT ![t] = s]
      /\ token' = [token EXCEPT ![t] = "LIVE", ![p] = "CONSUMED"]
      /\ Finish(r) /\ UNCHANGED <<version, owner, status, born>>
    BY <1>1 DEF CommitRotation, SessionOf
<1>3. /\ holder[p] = s
      /\ \A o \in Tokens : token[o] = "LIVE" /\ holder[o] = s => o = p
    BY <1>1 DEF Inv, Tables, OneLiveToken
<1> HIDE DEF p, s
<1>4. TypeOK'
    BY <1>1, <1>2, Finishing DEF Inv, TypeOK, TokenStates
<1>5. RowsKept
    BY <1>1, <1>2 DEF RowsKept, Inv, TypeOK
<1>6. /\ token'[t] = "LIVE" /\ holder'[t] = s /\ token'[p] = "CONSUMED"
      /\ \A o \in Tokens : o # t => holder'[o] = holder[o]
      /\ \A o \in Tokens : o # t /\ o # p => token'[o] = token[o]
    BY <1>1, <1>2 DEF Inv, TypeOK
<1>7. Tables'
    <2>1. RowsExist'
        BY <1>1, <1>2, <1>6 DEF Inv, Tables, RowsExist
    <2>2. OneLiveToken'
        BY <1>1, <1>3, <1>6 DEF Inv, Tables, OneLiveToken
    <2>3. EndedSessionHasNoLiveToken'
        BY <1>1, <1>2, <1>6 DEF Inv, Tables, EndedSessionHasNoLiveToken
    <2>4. ActiveSessionsKnowThePassword'
        BY <1>2 DEF Inv, Tables, ActiveSessionsKnowThePassword
    <2> QED
        BY <2>1, <2>2, <2>3, <2>4 DEF Tables
<1>8. Held(r)'
    BY <1>2, Finishing, IdleRelies
<1>9. ASSUME NEW q \in Requests \ {r}
      PROVE  Undisturbed(q)
    <2>1. /\ req'[q] = req[q]
          /\ \A u \in Users : userLock[u] = q => userLock'[u] = q
          /\ \A z \in Sessions : sessionLock[z] = q => sessionLock'[z] = q /\ z # s
          /\ \A o \in Tokens : tokenLock[o] = q => tokenLock'[o] = q /\ o # p
        BY <1>1, <1>2, Finishing
    <2>2. \A z \in Sessions, o \in Tokens :
              z # s /\ holder'[o] = z /\ token'[o] = "LIVE" =>
                  holder[o] = z /\ token[o] = "LIVE"
        BY <1>6
    <2>3. \A o \in Tokens :
              o # p /\ token[o] # "ABSENT" => token'[o] = token[o]
        BY <1>2, <1>6
    <2> QED
        BY <1>2, <2>1, <2>2, <2>3 DEF Undisturbed
<1> QED
    BY <1>4, <1>5, <1>7, <1>8, <1>9, Combine

(* What the end of a sweep does to the tables. *)
LEMMA SweepEffect ==
    ASSUME Inv, NEW r \in Requests, CommitSweep(r)
    PROVE  /\ Finish(r) /\ UNCHANGED <<owner, born, holder>>
           /\ status' \in [Sessions -> SessionStatuses]
           /\ token' \in [Tokens -> TokenStates]
           /\ version' \in [Users -> Nat]
           /\ \A s \in Sessions :
                 /\ status[s] # "ACTIVE" => status'[s] = status[s]
                 /\ s \in req[r].targets => status'[s] # "ACTIVE"
                 /\ s \notin req[r].targets => status'[s] = status[s]
                 /\ status[s] # "NONE" => status'[s] # "NONE"
           /\ \A t \in Tokens :
                 token'[t] = IF t \in req[r].doomed THEN "REVOKED" ELSE token[t]
           /\ \A u \in Users :
                 version'[u] = IF req[r].kind = "change" /\ u = req[r].user
                                 THEN version[u] + 1 ELSE version[u]
<1>1. /\ Finish(r) /\ UNCHANGED <<owner, born, holder>>
      /\ status' = [s \in Sessions |->
                       IF s \in req[r].targets THEN EndedStatus(r, s) ELSE status[s]]
      /\ token' = [t \in Tokens |->
                      IF t \in req[r].doomed THEN "REVOKED" ELSE token[t]]
      /\ version' = [u \in Users |->
                        IF req[r].kind = "change" /\ u = req[r].user
                          THEN version[u] + 1 ELSE version[u]]
    BY DEF CommitSweep
<1>2. \A s \in Sessions :
          /\ EndedStatus(r, s) \in SessionStatuses \ {"ACTIVE"}
          /\ status[s] # "ACTIVE" => EndedStatus(r, s) = status[s]
          /\ status[s] # "NONE" => EndedStatus(r, s) # "NONE"
    BY DEF EndedStatus, SessionStatuses, Inv, TypeOK
<1>3. status' \in [Sessions -> SessionStatuses]
    BY <1>1, <1>2 DEF Inv, TypeOK
<1>4. token' \in [Tokens -> TokenStates]
    BY <1>1 DEF Inv, TypeOK, TokenStates
<1>5. version' \in [Users -> Nat]
    BY <1>1 DEF Inv, TypeOK
<1> QED
    BY <1>1, <1>2, <1>3, <1>4, <1>5

LEMMA CommitSweepInv ==
    ASSUME Inv, NEW r \in Requests, CommitSweep(r)
    PROVE  Inv'
<1>. DEFINE T == req[r].targets
            D == req[r].doomed
            u == req[r].user
            change == req[r].kind = "change"
<1>1. /\ T \subseteq Sessions /\ D \subseteq Tokens
      /\ \A s \in T : sessionLock[s] = r
      /\ \A t \in D : tokenLock[t] = r /\ token[t] # "ABSENT"
      /\ change => u \in Users /\ userLock[u] = r
    BY DEF Inv, TypeOK, Request, Held, SessionsHeld, TokensHeld, UserHeld
<1>2. /\ change => \A s \in Sessions :
             owner[s] = u /\ status[s] = "ACTIVE" => s \in T
      /\ \A t \in Tokens : token[t] = "LIVE" /\ holder[t] \in T => t \in D
    <2>1. req[r].pc = "sweep" /\ req[r].rows = {}
        BY DEF CommitSweep
    <2>2. SessionsHeld(r) /\ TokensHeld(r)
        BY DEF Inv, Held
    <2> QED
        BY <2>1, <2>2 DEF SessionsHeld, TokensHeld, ActiveOf
<1>3. /\ Finish(r) /\ UNCHANGED <<owner, born, holder>>
      /\ \A s \in Sessions :
            /\ status[s] # "ACTIVE" => status'[s] = status[s]
            /\ s \in T => status'[s] # "ACTIVE"
            /\ s \notin T => status'[s] = status[s]
            /\ status[s] # "NONE" => status'[s] # "NONE"
      /\ \A t \in Tokens : token'[t] = IF t \in D THEN "REVOKED" ELSE token[t]
      /\ \A v \in Users :
            version'[v] = IF change /\ v = u THEN version[v] + 1 ELSE version[v]
    BY SweepEffect
<1>4. TypeOK'
    BY <1>3, SweepEffect, Finishing DEF Inv, TypeOK
<1> HIDE DEF T, D, u, change
<1>5. RowsKept
    BY <1>3 DEF RowsKept
<1>6. Tables'
    <2>1. RowsExist /\ OneLiveToken /\ EndedSessionHasNoLiveToken
          /\ ActiveSessionsKnowThePassword
        BY DEF Inv, Tables
    <2>2. RowsExist'
        BY <1>1, <1>3, <2>1 DEF RowsExist
    <2>3. OneLiveToken'
        BY <1>3, <2>1 DEF OneLiveToken
    <2>4. EndedSessionHasNoLiveToken'
        BY <1>2, <1>3, <2>1 DEF EndedSessionHasNoLiveToken, RowsExist
    <2>5. ActiveSessionsKnowThePassword'
        BY <1>2, <1>3, <2>1 DEF ActiveSessionsKnowThePassword, RowsExist
    <2> QED
        BY <2>2, <2>3, <2>4, <2>5 DEF Tables
<1>7. Held(r)'
    BY <1>3, Finishing, IdleRelies
<1>8. \A q \in Requests \ {r} : Undisturbed(q)
    BY <1>1, <1>3, Finishing DEF Undisturbed
<1> QED
    BY <1>4, <1>5, <1>6, <1>7, <1>8, Combine

-----------------------------------------------------------------------------
(* The theorems. *)

LEMMA InitInv == Init => Inv
<1>. SUFFICES ASSUME Init PROVE Inv
    OBVIOUS
<1>1. \A r \in Requests : req[r] = Idle
    BY DEF Init
<1>2. /\ Idle \in Request /\ Idle.pc = "idle" /\ Idle.kind = "none"
      /\ Idle.asked = {} /\ Idle.pending = {} /\ Idle.targets = {}
      /\ Idle.doomed = {}
    BY DEF Idle, Begin, Request, Steps, Kinds
<1>3. TypeOK
    BY <1>2 DEF Init, TypeOK, SessionStatuses, TokenStates
<1>4. Tables
    BY DEF Init, Tables, RowsExist, OneLiveToken, EndedSessionHasNoLiveToken,
           ActiveSessionsKnowThePassword
<1>5. \A r \in Requests : Held(r)
    BY <1>1, <1>2 DEF Held, UserHeld, TokenHeld, SessionsHeld, TokensHeld
<1> QED
    BY <1>3, <1>4, <1>5 DEF Inv

LEMMA StutterInv ==
    ASSUME Inv, UNCHANGED vars
    PROVE  Inv'
<1>1. TypeOK' /\ Tables'
    BY TablesFrame DEF Inv, TypeOK, vars, tables, locks
<1>2. ASSUME NEW q \in Requests
      PROVE  Held(q)'
    <2>1. Undisturbed(q)
        BY DEF Undisturbed, vars, tables, locks
    <2> QED
        BY <2>1, Frame, TablesFrame DEF vars
<1> QED
    BY <1>1, <1>2 DEF Inv

LEMMA NextInv == Inv /\ [Next]_vars => Inv'
<1>. SUFFICES ASSUME Inv, [Next]_vars PROVE Inv'
    OBVIOUS
<1>1. CASE UNCHANGED vars
    BY <1>1, StutterInv
<1>2. ASSUME NEW r \in Requests, Arrival(r)
      PROVE  Inv'
    BY <1>2, ReadCredentialsInv, StartLogoutAllInv, LockPasswordInv,
       LockRefreshTokenInv, LockRevokedSessionInv DEF Arrival
<1>3. ASSUME NEW r \in Requests, Progress(r)
      PROVE  Inv'
    BY <1>3, LockCredentialsInv, CommitLoginInv, LockRotatedSessionInv,
       CommitRotationInv, MarkSessionCompromisedInv, SnapshotSessionsInv,
       VisitSessionInv, SnapshotTokensInv, VisitTokenInv, CommitSweepInv
       DEF Progress
<1>4. ASSUME NEW r \in Requests, Abort(r) \/ Crash(r)
      PROVE  Inv'
    BY <1>4, RollbackInv DEF Abort, Crash
<1> QED
    BY <1>1, <1>2, <1>3, <1>4 DEF Next

(* Every reachable state satisfies the inductive invariant. *)
THEOREM SessionsInvariance == Spec => []Inv
BY InitInv, NextInv, PTL DEF Spec

(* Type correctness of tables, locks and requests, for all constants. *)
THEOREM SessionsTypeCorrect == Spec => []TypeOK
<1>1. Inv => TypeOK
    BY DEF Inv
<1> QED
    BY <1>1, SessionsInvariance, PTL

(* RotateRefreshToken: concurrent refreshes never leave a session with two *)
(* tokens that can be exchanged.                                           *)
THEOREM OneTokenToRotate == Spec => []OneLiveToken
<1>1. Inv => OneLiveToken
    BY DEF Inv, Tables
<1> QED
    BY <1>1, SessionsInvariance, PTL

(* revokeSession, handleReuse and RevokeAllUserSessionsInTx: a session that *)
(* has ended has no token left that RotateRefreshToken would exchange.     *)
THEOREM LogoutEndsRefresh == Spec => []EndedSessionHasNoLiveToken
<1>1. Inv => EndedSessionHasNoLiveToken
    BY DEF Inv, Tables
<1> QED
    BY <1>1, SessionsInvariance, PTL

(* ChangePassword against Login: no active session was opened with a       *)
(* password that has been replaced since.                                  *)
THEOREM OldPasswordsOpenNothing == Spec => []ActiveSessionsKnowThePassword
<1>1. Inv => ActiveSessionsKnowThePassword
    BY DEF Inv, Tables
<1> QED
    BY <1>1, SessionsInvariance, PTL

(* The locks and snapshots of every transaction protect what it read. *)
THEOREM LocksProtectReads == Spec => []LocksProtect
<1>1. Inv => LocksProtect
    BY DEF Inv, Tables, Held, LocksProtect
<1> QED
    BY <1>1, SessionsInvariance, PTL

-----------------------------------------------------------------------------
(* Deadlocks. *)

(* Where a transaction is, and what it is about to write, when it has      *)
(* locked a user, a session or a token.                                    *)
LocksPlaced(r) ==
    /\ \A u \in Users : userLock[u] = r => req[r].kind \in {"login", "change"} /\ req[r].pc # "login"
    /\ \A s \in Sessions : sessionLock[s] = r =>
           \/ req[r].pc = "replace" /\ s = SessionOf(r)
           \/ req[r].pc \in {"sessions", "sweep"} /\ s \in req[r].targets
    /\ \A t \in Tokens : tokenLock[t] = r =>
           /\ req[r].pc \in {"rotate", "replace", "reuse", "sessions", "sweep"}
           /\ req[r].kind = "refresh" => t = req[r].token
           /\ req[r].kind \in {"logout", "change"} =>
                  req[r].pc = "sweep" /\ t \in req[r].doomed

StepOfKind(r) ==
    /\ req[r].kind = "login" => req[r].pc \in {"login", "create"}
    /\ req[r].kind = "refresh" => req[r].pc \in {"rotate", "replace"}
    /\ req[r].kind = "logout" => req[r].pc \in {"sessions", "sweep"} /\ req[r].pending = {}
    /\ req[r].kind = "change" => req[r].pc \in {"verified", "sessions", "sweep"}
    /\ req[r].pc = "rotate" => req[r].kind = "refresh"

SweepInScope(r) ==
    \A t \in req[r].rows \cup req[r].doomed :
        /\ token[t] # "ABSENT"
        /\ req[r].kind = "logout" => holder[t] \in req[r].targets
        /\ req[r].kind = "change" => owner[holder[t]] = req[r].user

Placed(r) == LocksPlaced(r) /\ StepOfKind(r) /\ SweepInScope(r)

AllPlaced == \A r \in Requests : Placed(r)

(* Rows are not deleted and keep their session and user. *)
RowsStay ==
    /\ \A t \in Tokens : token[t] # "ABSENT" => token'[t] # "ABSENT" /\ holder'[t] = holder[t]
    /\ \A s \in Sessions : status[s] # "NONE" => owner'[s] = owner[s]

(* A request that takes no step keeps its place.                           *)
LEMMA OthersPlaced ==
    ASSUME Inv, AllPlaced, RowsStay, NEW q \in Requests, req'[q] = req[q],
           \A u \in Users : userLock'[u] = q => userLock[u] = q,
           \A s \in Sessions : sessionLock'[s] = q => sessionLock[s] = q,
           \A t \in Tokens : tokenLock'[t] = q => tokenLock[t] = q
    PROVE  Placed(q)'
<1>1. Placed(q) /\ RowsExist /\ req[q] \in Request
    BY DEF AllPlaced, Inv, Tables, TypeOK
<1>2. req[q].pc = "replace" => req[q].token \in Tokens /\ token[req[q].token] # "ABSENT"
    BY DEF Inv, Held, TokenHeld
<1>3. LocksPlaced(q)'
    BY <1>1, <1>2 DEF Placed, LocksPlaced, SessionOf, RowsStay
<1>4. StepOfKind(q)'
    BY <1>1 DEF Placed, StepOfKind
<1>5. req[q].rows \cup req[q].doomed \subseteq Tokens
    BY <1>1 DEF Request
<1>6. SweepInScope(q)'
    BY <1>1, <1>5 DEF Placed, SweepInScope, RowsStay, RowsExist
<1> QED
    BY <1>3, <1>4, <1>6 DEF Placed

(* A transaction that ends has nothing locked. *)
LEMMA FinishPlaced ==
    ASSUME Inv, AllPlaced, RowsStay, NEW r \in Requests, Finish(r)
    PROVE  AllPlaced'
<1>1. /\ userLock' = [u \in Users |-> IF userLock[u] = r THEN None ELSE userLock[u]]
      /\ sessionLock' = [s \in Sessions |-> IF sessionLock[s] = r THEN None ELSE sessionLock[s]]
      /\ tokenLock' = [t \in Tokens |-> IF tokenLock[t] = r THEN None ELSE tokenLock[t]]
      /\ req' = [req EXCEPT ![r] = Idle] /\ req \in [Requests -> Request]
    BY DEF Finish, ReleaseLocks, Inv, TypeOK
<1>2. req'[r] = Idle /\ \A q \in Requests \ {r} : req'[q] = req[q]
    BY <1>1
<1>3. Placed(r)'
    BY <1>1, <1>2, NoneIsNoRow
    DEF Placed, LocksPlaced, StepOfKind, SweepInScope, Idle, Begin
<1>4. ASSUME NEW q \in Requests \ {r} PROVE Placed(q)'
    BY <1>1, <1>2, OthersPlaced, NoneIsNoRow
<1> QED
    BY <1>3, <1>4 DEF AllPlaced

LEMMA RollbackPlaced ==
    ASSUME Inv, AllPlaced, NEW r \in Requests, Rollback(r)
    PROVE  AllPlaced'
BY FinishPlaced DEF Rollback, RowsStay, tables

(* Steps inside a transaction: only its own locks and record change.       *)
LEMMA WithinPlaced ==
    ASSUME Inv, AllPlaced, NEW r \in Requests, UNCHANGED tables, Placed(r)',
           \A q \in Requests \ {r} : req'[q] = req[q],
           \A u \in Users : userLock'[u] \in {userLock[u], r},
           \A s \in Sessions : sessionLock'[s] \in {sessionLock[s], r},
           \A t \in Tokens : tokenLock'[t] \in {tokenLock[t], r}
    PROVE  AllPlaced'
<1>1. RowsStay
    BY DEF RowsStay, tables
<1>2. ASSUME NEW q \in Requests \ {r} PROVE Placed(q)'
    BY <1>1, OthersPlaced
<1> QED
    BY <1>2 DEF AllPlaced

LEMMA ArrivalPlaced ==
    ASSUME Inv, AllPlaced, NEW r \in Requests, Arrival(r)
    PROVE  AllPlaced'
<1>0. /\ req \in [Requests -> Request] /\ userLock \in [Users -> Requests \cup {None}]
      /\ sessionLock \in [Sessions -> Requests \cup {None}]
      /\ tokenLock \in [Tokens -> Requests \cup {None}]
    BY DEF Inv, TypeOK
<1>1. req[r].pc = "idle"
    BY DEF Arrival, ReadCredentials, StartLogoutAll, LockPassword, LockRefreshToken, LockRevokedSession
<1>2. /\ \A u \in Users : userLock[u] = r => req[r].kind \in {"login", "change"}
      /\ \A s \in Sessions : sessionLock[s] # r
      /\ \A t \in Tokens : tokenLock[t] # r
    BY <1>1 DEF AllPlaced, Placed, LocksPlaced
<1>3. \A u \in Users : userLock[u] # r
    BY <1>1, <1>2 DEF AllPlaced, Placed, StepOfKind
<1>4. ASSUME NEW u \in Users, ReadCredentials(r, u) PROVE AllPlaced'
    <2>1. Placed(r)'
        BY <1>0, <1>2, <1>3, <1>4
        DEF ReadCredentials, Begin, locks, Placed, LocksPlaced, StepOfKind, SweepInScope
    <2> QED
        BY <1>0, <1>4, <2>1, WithinPlaced DEF ReadCredentials, locks
<1>5. ASSUME NEW u \in Users, StartLogoutAll(r, u) PROVE AllPlaced'
    <2>1. Placed(r)'
        BY <1>0, <1>2, <1>3, <1>5
        DEF StartLogoutAll, Visiting, locks, Placed, LocksPlaced, StepOfKind, SweepInScope
    <2> QED
        BY <1>0, <1>5, <2>1, WithinPlaced DEF StartLogoutAll, locks
<1>6. ASSUME NEW u \in Users, LockPassword(r, u) PROVE AllPlaced'
    <2>1. Placed(r)'
        BY <1>0, <1>2, <1>3, <1>6
        DEF LockPassword, Begin, Placed, LocksPlaced, StepOfKind, SweepInScope
    <2> QED
        BY <1>0, <1>6, <2>1, WithinPlaced DEF LockPassword
<1>7. ASSUME NEW t \in Tokens, LockRefreshToken(r, t) PROVE AllPlaced'
    <2>1. Placed(r)'
        BY <1>0, <1>2, <1>3, <1>7
        DEF LockRefreshToken, Begin, Placed, LocksPlaced, StepOfKind, SweepInScope
    <2> QED
        BY <1>0, <1>7, <2>1, WithinPlaced DEF LockRefreshToken
<1>8. ASSUME NEW s \in Sessions, LockRevokedSession(r, s) PROVE AllPlaced'
    <2>1. Placed(r)'
        BY <1>0, <1>2, <1>3, <1>8
        DEF LockRevokedSession, Visiting, Placed, LocksPlaced, StepOfKind, SweepInScope
    <2> QED
        BY <1>0, <1>8, <2>1, WithinPlaced DEF LockRevokedSession
<1> QED
    BY <1>4, <1>5, <1>6, <1>7, <1>8 DEF Arrival

(* A transaction that goes on inside itself. *)
LEMMA LockingPlaced ==
    ASSUME Inv, AllPlaced, NEW r \in Requests,
           \/ LockCredentials(r)
           \/ \E expired \in BOOLEAN : LockRotatedSession(r, expired)
           \/ MarkSessionCompromised(r)
    PROVE  AllPlaced'
<1>0. /\ req \in [Requests -> Request] /\ userLock \in [Users -> Requests \cup {None}]
      /\ sessionLock \in [Sessions -> Requests \cup {None}]
      /\ tokenLock \in [Tokens -> Requests \cup {None}]
    BY DEF Inv, TypeOK
<1>1. Placed(r)
    BY DEF AllPlaced
<1>2. ASSUME LockCredentials(r) PROVE AllPlaced'
    <2>1. CASE Rollback(r)
        BY <2>1, RollbackPlaced
    <2>2. CASE ~Rollback(r)
        <3>1. Placed(r)'
            BY <1>0, <1>1, <1>2, <2>2
            DEF LockCredentials, Begin, Placed, LocksPlaced, StepOfKind, SweepInScope
        <3> QED
            BY <1>0, <1>2, <2>2, <3>1, WithinPlaced DEF LockCredentials
    <2> QED
        BY <2>1, <2>2
<1>3. ASSUME NEW expired \in BOOLEAN, LockRotatedSession(r, expired) PROVE AllPlaced'
    <2>1. CASE Rollback(r)
        BY <2>1, RollbackPlaced
    <2>2. CASE ~Rollback(r)
        <3>1. /\ req' = [req EXCEPT ![r] = Begin("replace", "refresh",
                                              req[r].user, req[r].token, 0)]
              /\ sessionLock' = [sessionLock EXCEPT ![SessionOf(r)] = r]
              /\ UNCHANGED <<tables, userLock, tokenLock>>
              /\ req[r].pc = "rotate"
            BY <1>3, <2>2 DEF LockRotatedSession
        <3>2. SessionOf(r)' = SessionOf(r)
            BY <1>0, <3>1 DEF SessionOf, Begin, tables
        <3>3. LocksPlaced(r)'
            BY <1>0, <1>1, <3>1, <3>2 DEF Begin, Placed, LocksPlaced, StepOfKind
        <3>4. Placed(r)'
            BY <1>0, <3>1, <3>3 DEF Begin, Placed, StepOfKind, SweepInScope
        <3> QED
            BY <1>0, <3>1, <3>4, WithinPlaced
    <2> QED
        BY <2>1, <2>2
<1>4. ASSUME MarkSessionCompromised(r) PROVE AllPlaced'
    <2>1. CASE Rollback(r)
        BY <2>1, RollbackPlaced
    <2>2. CASE ~Rollback(r)
        <3>1. Placed(r)'
            BY <1>0, <1>1, <1>4, <2>2
            DEF MarkSessionCompromised, Visiting, Placed, LocksPlaced, StepOfKind, SweepInScope
        <3> QED
            BY <1>0, <1>4, <2>2, <3>1, WithinPlaced DEF MarkSessionCompromised
    <2> QED
        BY <2>1, <2>2
<1> QED
    BY <1>2, <1>3, <1>4

(* The statements that revoke sessions and tokens. *)
LEMMA SweepingPlaced ==
    ASSUME Inv, AllPlaced, NEW r \in Requests,
           \/ SnapshotSessions(r) \/ SnapshotTokens(r)
           \/ \E s \in Sessions : VisitSession(r, s)
           \/ \E t \in Tokens : VisitToken(r, t)
    PROVE  AllPlaced'
<1>0. /\ req \in [Requests -> Request] /\ userLock \in [Users -> Requests \cup {None}]
      /\ sessionLock \in [Sessions -> Requests \cup {None}]
      /\ tokenLock \in [Tokens -> Requests \cup {None}]
    BY DEF Inv, TypeOK
<1>1. Placed(r)
    BY DEF AllPlaced
<1>2. req[r].pc = "verified" => req[r].kind = "change"
    BY DEF Inv, Held, UserHeld
<1>3. ASSUME SnapshotSessions(r) PROVE AllPlaced'
    <2>1. Placed(r)'
        BY <1>0, <1>1, <1>2, <1>3
        DEF SnapshotSessions, Visiting, locks, tables, Placed, LocksPlaced, StepOfKind, SweepInScope
    <2> QED
        BY <1>0, <1>3, <2>1, WithinPlaced DEF SnapshotSessions, locks
<1>4. ASSUME SnapshotTokens(r) PROVE AllPlaced'
    <2>1. Placed(r)'
        BY <1>0, <1>1, <1>4
        DEF SnapshotTokens, Sweeping, InScope, Unrevoked, locks, tables,
            Placed, LocksPlaced, StepOfKind, SweepInScope
    <2> QED
        BY <1>0, <1>4, <2>1, WithinPlaced DEF SnapshotTokens, locks
<1>5. ASSUME NEW s \in Sessions, VisitSession(r, s) PROVE AllPlaced'
    <2>1. Placed(r)'
        BY <1>0, <1>1, <1>5
        DEF VisitSession, SessionVisited, Visiting, tables,
            Placed, LocksPlaced, StepOfKind, SweepInScope
    <2> QED
        BY <1>0, <1>5, <2>1, WithinPlaced DEF VisitSession
<1>6. ASSUME NEW t \in Tokens, VisitToken(r, t) PROVE AllPlaced'
    <2>1. Placed(r)'
        BY <1>0, <1>1, <1>6
        DEF VisitToken, Sweeping, tables, Placed, LocksPlaced, StepOfKind, SweepInScope
    <2> QED
        BY <1>0, <1>6, <2>1, WithinPlaced DEF VisitToken
<1> QED
    BY <1>3, <1>4, <1>5, <1>6

LEMMA CommitPlaced ==
    ASSUME Inv, AllPlaced, NEW r \in Requests,
           \/ \E s \in Sessions, t \in Tokens : CommitLogin(r, s, t)
           \/ \E t \in Tokens : CommitRotation(r, t)
           \/ CommitSweep(r)
    PROVE  AllPlaced'
<1>0. TypeOK
    BY DEF Inv
<1>1. ASSUME NEW s \in Sessions, NEW t \in Tokens, CommitLogin(r, s, t) PROVE AllPlaced'
    <2>1. RowsStay
        BY <1>0, <1>1 DEF CommitLogin, RowsStay, TypeOK
    <2> QED
        BY <1>1, <2>1, FinishPlaced DEF CommitLogin
<1>2. ASSUME NEW t \in Tokens, CommitRotation(r, t) PROVE AllPlaced'
    <2>1. CASE Rollback(r)
        BY <2>1, RollbackPlaced
    <2>2. CASE ~Rollback(r)
        <3>1. RowsStay
            BY <1>0, <1>2, <2>2 DEF CommitRotation, RowsStay, TypeOK
        <3> QED
            BY <1>2, <2>2, <3>1, FinishPlaced DEF CommitRotation
    <2> QED
        BY <2>1, <2>2
<1>3. ASSUME CommitSweep(r) PROVE AllPlaced'
    <2>1. RowsStay
        BY <1>0, <1>3 DEF CommitSweep, RowsStay, TypeOK
    <2> QED
        BY <1>3, <2>1, FinishPlaced DEF CommitSweep
<1> QED
    BY <1>1, <1>2, <1>3

LEMMA StepPlaced == Inv /\ AllPlaced /\ [Next]_vars => AllPlaced'
<1> SUFFICES ASSUME Inv, AllPlaced, [Next]_vars PROVE AllPlaced'
    OBVIOUS
<1>1. CASE UNCHANGED vars
    BY <1>1
    DEF vars, tables, locks, AllPlaced, Placed, LocksPlaced, StepOfKind, SweepInScope, SessionOf
<1>2. CASE Next
    <2> PICK r \in Requests : Arrival(r) \/ Progress(r) \/ Abort(r) \/ Crash(r)
        BY <1>2 DEF Next
    <2>1. CASE Arrival(r)
        BY <2>1, ArrivalPlaced
    <2>2. CASE Progress(r)
        BY <2>2, LockingPlaced, SweepingPlaced, CommitPlaced DEF Progress
    <2>3. CASE Abort(r) \/ Crash(r)
        BY <2>3, RollbackPlaced DEF Abort, Crash
    <2> QED
        BY <2>1, <2>2, <2>3
<1> QED
    BY <1>1, <1>2

LEMMA InitPlaced == Init => AllPlaced
BY NoneIsNoRow
DEF Init, AllPlaced, Placed, LocksPlaced, StepOfKind, SweepInScope, Idle, Begin

(* Who a request can wait for. *)
LEMMA WaitsPlaced ==
    ASSUME Inv, AllPlaced, NEW x \in Requests, NEW y \in Requests, WaitsFor(x, y)
    PROVE  /\ req[y].kind = "login" => req[y].pc # "login"
           /\ req[x].kind = "refresh" /\ req[y].kind = "refresh" =>
                  req[x].pc = "rotate" /\ req[y].pc = "replace"
           /\ ~(req[x].kind = "logout" /\ req[y].kind = "logout")
           /\ ~(req[x].kind = "change" /\ req[y].kind = "change")
<1>0. /\ Placed(x) /\ Placed(y) /\ x # y
      /\ UserHeld(x) /\ UserHeld(y) /\ TokenHeld(x) /\ SessionsHeld(x) /\ SessionsHeld(y)
      /\ req[x] \in Request /\ RowsExist
    BY DEF AllPlaced, WaitsFor, Inv, Held, Tables, TypeOK
<1>1. /\ req[x].pc # "idle" /\ req[x].user \in Users
      /\ req[x].pending \subseteq Sessions /\ req[x].rows \subseteq Tokens
    BY <1>0 DEF WaitsFor, UserHeld, Request, SessionsHeld
<1>2. \/ userLock[req[x].user] = y
      \/ \E s \in Sessions : sessionLock[s] = y
      \/ \E t \in Tokens : tokenLock[t] = y
    BY <1>0, <1>1 DEF WaitsFor, TokenHeld, RowsExist, SessionOf
<1>3. req[y].kind = "login" => req[y].pc # "login"
    BY <1>0, <1>1, <1>2 DEF Placed, LocksPlaced
<1>4. ASSUME req[x].kind = "refresh", req[y].kind = "refresh"
      PROVE  req[x].pc = "rotate" /\ req[y].pc = "replace"
    <2>1. userLock[req[x].user] # y
        BY <1>0, <1>1, <1>4 DEF Placed, LocksPlaced
    <2>2. req[x].pc = "rotate" /\ sessionLock[SessionOf(x)] = y
        BY <1>0, <1>4, <2>1 DEF WaitsFor, Placed, StepOfKind
    <2>3. SessionOf(x) \in Sessions
        BY <1>0, <2>2 DEF TokenHeld, RowsExist, SessionOf
    <2> QED
        BY <1>0, <1>4, <2>2, <2>3 DEF Placed, LocksPlaced, StepOfKind
<1>5. ASSUME req[x].kind = "logout", req[y].kind = "logout"
      PROVE  FALSE
    <2>1. userLock[req[x].user] # y
        BY <1>0, <1>1, <1>5 DEF Placed, LocksPlaced
    <2>2. PICK t \in req[x].rows : tokenLock[t] = y
        BY <1>0, <1>5, <2>1 DEF WaitsFor, Placed, StepOfKind
    <2>3. t \in req[y].doomed /\ holder[t] \in req[x].targets /\ holder[t] \in req[y].targets
        BY <1>0, <1>1, <1>5, <2>2 DEF Placed, LocksPlaced, SweepInScope
    <2> QED
        BY <1>0, <2>3 DEF SessionsHeld
<1>6. ASSUME req[x].kind = "change", req[y].kind = "change"
      PROVE  FALSE
    <2>1. /\ userLock[req[x].user] = x /\ userLock[req[y].user] = y
          /\ req[x].user # req[y].user
        BY <1>0, <1>6 DEF UserHeld
    <2>2. CASE \E s \in req[x].pending : sessionLock[s] = y
        <3>1. PICK s \in req[x].pending : sessionLock[s] = y
            BY <2>2
        <3>2. s \in req[y].targets
            BY <1>0, <1>1, <1>6, <3>1 DEF Placed, LocksPlaced, StepOfKind
        <3> QED
            BY <1>0, <2>1, <3>1, <3>2 DEF SessionsHeld
    <2>3. CASE \E t \in req[x].rows : tokenLock[t] = y
        <3>1. PICK t \in req[x].rows : tokenLock[t] = y
            BY <2>3
        <3>2. t \in req[y].doomed
            BY <1>0, <1>1, <1>6, <3>1 DEF Placed, LocksPlaced
        <3> QED
            BY <1>0, <1>6, <2>1, <3>1, <3>2 DEF Placed, SweepInScope
    <2> QED
        BY <1>0, <1>6, <2>1, <2>2, <2>3 DEF WaitsFor, Placed, StepOfKind
<1> QED
    BY <1>3, <1>4, <1>5, <1>6

LEMMA CirclesPlaced == Inv /\ AllPlaced => AlikeNeverDeadlock
<1> SUFFICES ASSUME Inv, AllPlaced,
                    NEW S \in (SUBSET Requests) \ {{}}, InCircle(S)
             PROVE  /\ \A r \in S : req[r].kind # "login"
                    /\ \A kind \in {"refresh", "logout", "change"} :
                           \E r \in S : req[r].kind # kind
    BY DEF AlikeNeverDeadlock
<1>1. ASSUME NEW r \in S, req[r].kind = "login" PROVE FALSE
    <2>1. PICK y \in S, z \in S : WaitsFor(r, y) /\ WaitsFor(z, r)
        BY DEF InCircle
    <2>2. req[r].pc # "login"
        BY <1>1, <2>1, WaitsPlaced
    <2>3. Placed(r)
        BY DEF AllPlaced
    <2>4. req[r].pc = "create"
        BY <1>1, <2>2, <2>3 DEF Placed, StepOfKind
    <2> QED
        BY <2>1, <2>4 DEF WaitsFor
<1>2. ASSUME NEW kind \in {"refresh", "logout", "change"},
             \A r \in S : req[r].kind = kind
      PROVE  FALSE
    <2>1. PICK x \in S : TRUE
        OBVIOUS
    <2>2. PICK y \in S : WaitsFor(x, y)
        BY DEF InCircle
    <2>3. PICK z \in S : WaitsFor(y, z)
        BY DEF InCircle
    <2>4. kind = "refresh"
        BY <1>2, <2>2, WaitsPlaced
    <2>5. req[y].pc = "replace"
        BY <1>2, <2>2, <2>4, WaitsPlaced
    <2>6. req[y].pc = "rotate"
        BY <1>2, <2>3, <2>4, WaitsPlaced
    <2> QED
        BY <2>5, <2>6
<1> QED
    BY <1>1, <1>2

(* A login is never a deadlock's victim, and refreshes, logouts of one     *)
(* session and password changes never lock each other out.                 *)
THEOREM AlikeRequestsProceed == Spec => []AlikeNeverDeadlock
<1>1. Spec => []AllPlaced
    BY SessionsInvariance, InitPlaced, StepPlaced, PTL DEF Spec
<1> QED
    BY <1>1, SessionsInvariance, CirclesPlaced, PTL

(* RevokeAllUserSessions and ChangePassword leave no session active that   *)
(* they found active.                                                      *)
THEOREM LogoutAllEndsAll == Spec => LogoutAllIsComplete
<1>1. ASSUME Inv, NEW r \in Requests, CommitSweep(r),
             NEW s \in req[r].asked
      PROVE  status'[s] # "ACTIVE"
    <2>1. s \in Sessions /\ req[r].targets \subseteq Sessions
        BY <1>1 DEF Inv, TypeOK, Request
    <2>2. status[s] = "ACTIVE" => s \in req[r].targets
        BY <1>1 DEF Inv, Held, SessionsHeld, TokensHeld, CommitSweep
    <2> QED
        BY <1>1, <2>1, <2>2, SweepEffect
<1>2. Inv => \A r \in Requests :
          CommitSweep(r) => \A s \in req[r].asked : status'[s] # "ACTIVE"
    BY <1>1
<1> QED
    BY <1>2, SessionsInvariance, PTL DEF LogoutAllIsComplete

(* What NothingRevives says of one step. *)
Ends ==
    /\ \A s \in Sessions :
           status[s] \in {"REVOKED", "COMPROMISED"} => status'[s] = status[s]
    /\ \A t \in Tokens :
           /\ token[t] = "CONSUMED" => token'[t] \in {"CONSUMED", "REVOKED"}
           /\ token[t] = "REVOKED" => token'[t] = "REVOKED"

(* Ended sessions and spent refresh tokens never come back to life. *)
THEOREM EndsAreFinal == Spec => NothingRevives
<1>1. UNCHANGED tables => Ends
    BY DEF tables, Ends
<1>2. ASSUME Inv, NEW r \in Requests, Progress(r)
      PROVE  Ends
    <2>1. ASSUME NEW s \in Sessions, NEW t \in Tokens, CommitLogin(r, s, t)
          PROVE  Ends
        BY <1>2, <2>1 DEF CommitLogin, Ends, Inv, TypeOK
    <2>2. ASSUME NEW t \in Tokens, CommitRotation(r, t)
          PROVE  Ends
        <3>1. CASE UNCHANGED tables
            BY <1>1, <3>1
        <3>2. CASE token[req[r].token] = "LIVE"
            BY <1>2, <2>2, <3>2 DEF CommitRotation, Ends, Inv, TypeOK
        <3> QED
            BY <2>2, <3>1, <3>2 DEF CommitRotation, Rollback
    <2>3. CASE CommitSweep(r)
        BY <1>2, <2>3, SweepEffect DEF Ends
    <2>4. ASSUME \/ LockCredentials(r)
                 \/ \E expired \in BOOLEAN : LockRotatedSession(r, expired)
                 \/ MarkSessionCompromised(r) \/ SnapshotSessions(r)
                 \/ \E s \in Sessions : VisitSession(r, s)
                 \/ SnapshotTokens(r) \/ \E t \in Tokens : VisitToken(r, t)
          PROVE  Ends
        BY <1>1, <2>4 DEF LockCredentials, LockRotatedSession,
           MarkSessionCompromised, SnapshotSessions, VisitSession,
           SnapshotTokens, VisitToken, Rollback
    <2> QED
        BY <1>2, <2>1, <2>2, <2>3, <2>4 DEF Progress
<1>3. ASSUME NEW r \in Requests, Arrival(r) \/ Abort(r) \/ Crash(r)
      PROVE  Ends
    BY <1>1, <1>3 DEF Arrival, ReadCredentials, StartLogoutAll, LockPassword,
       LockRefreshToken, LockRevokedSession, Abort, Crash, Rollback
<1>4. Inv /\ [Next]_vars => Ends
    BY <1>1, <1>2, <1>3 DEF Next, vars
<1>5. Ends => [Ends]_vars
    OBVIOUS
<1> QED
    BY <1>4, <1>5, SessionsInvariance, PTL DEF Spec, NothingRevives, Ends
=============================================================================
