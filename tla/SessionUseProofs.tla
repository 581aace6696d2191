-------------------------- MODULE SessionUseProofs --------------------------
(***************************************************************************)
(* The properties of SessionUse for any number of sessions and handlers,   *)
(* any times to live and any clock.                                        *)
(***************************************************************************)
EXTENDS SessionUse, TLAPS

Statuses == {"NONE", "ACTIVE", "REVOKED", "COMPROMISED"}
UserStatuses == {"ACTIVE", "DISABLED"}

Session ==
    [status : Statuses, idle : Nat, abs : Nat, born : Nat, opened : Nat, refreshed : Nat]

State == [status : Statuses, idle : Nat, abs : Nat, user : UserStatuses, pv : Nat]

Request ==
    [pc : {"idle", "rotate", "evict", "load", "fill", "authority", "check", "serving"},
     session : SUBSET Sessions, state : State, over : BOOLEAN, at : Nat, stale : SUBSET Sessions]

TypeOK ==
    /\ now \in Nat
    /\ user \in [status : UserStatuses, pv : Nat]
    /\ session \in [Sessions -> Session]
    /\ cache \in [Sessions -> [state : State, until : Nat]]
    /\ throttle \in [Sessions -> Nat]
    /\ touches \subseteq [session : Sessions, idle : Nat]
    /\ req \in [Handlers -> Request]

Opened(s) == session[s].status # "NONE"

(* What a row says follows from its opening and its last refresh. *)
RowsFollow ==
    \A s \in Sessions : Opened(s) =>
        /\ session[s].born <= user.pv
        /\ session[s].refreshed <= now
        /\ session[s].idle <= session[s].refreshed + IdleTTL
        /\ session[s].abs <= session[s].opened + AbsoluteTTL

(* A touch that is still to come writes no deadline beyond those. *)
TouchesFollow ==
    \A t \in touches :
        /\ Opened(t.session)
        /\ t.idle <= session[t.session].refreshed + IdleTTL

(* A state that refuses a token of s. *)
Refuses(s, state) ==
    state.status # "ACTIVE" \/ state.user # "ACTIVE" \/ state.pv # session[s].born

(* What a handler h relies on when it works on s.  A request that came too *)
(* late keeps finding the session over, and the state it decides by says   *)
(* so; a refresh is not older than the last one.                           *)
Relies(h, s) ==
    /\ Opened(s)
    /\ req[h].pc \in {"load", "fill", "authority"} /\ req[h].over => Over(s)
    /\ req[h].pc = "check" /\ req[h].over => Refuses(s, req[h].state)
    /\ req[h].pc = "rotate" => session[s].refreshed <= req[h].at /\ req[h].at <= now
    /\ req[h].pc \in {"check", "serving"} =>
           /\ req[h].state.idle <= session[s].refreshed + IdleTTL
           /\ req[h].state.abs <= session[s].opened + AbsoluteTTL
    /\ req[h].pc = "serving" =>
           req[h].at <= req[h].state.idle /\ req[h].at <= req[h].state.abs

HandlersRely ==
    \A h \in Handlers :
        /\ req[h].pc = "serving" => ~req[h].over
        /\ \A s \in Sessions : req[h].session = {s} => Relies(h, s)

(* Refreshes of one session wait for each other. *)
OneRotation ==
    \A h, o \in Handlers :
        req[h].pc = "rotate" /\ req[o].pc = "rotate" /\ req[h].session = req[o].session => h = o

Inv == TypeOK /\ RowsFollow /\ TouchesFollow /\ HandlersRely /\ OneRotation

-----------------------------------------------------------------------------
(* Steps. *)

(* No step reopens a session, brings a password back or forgets an opening *)
(* or a refresh.                                                           *)
Onward ==
    /\ now' >= now
    /\ user'.pv >= user.pv
    /\ user.status # "ACTIVE" => user'.status # "ACTIVE"
    /\ \A s \in Sessions : Opened(s) =>
           /\ session'[s].status # "NONE"
           /\ session[s].status # "ACTIVE" => session'[s].status # "ACTIVE"
           /\ session'[s].born = session[s].born
           /\ session'[s].opened = session[s].opened
           /\ session'[s].refreshed >= session[s].refreshed

(* A handler that did not move still relies on what is true. *)
LEMMA Frame ==
    ASSUME Inv, TypeOK', Onward, NEW h \in Handlers, req'[h] = req[h],
           req[h].pc = "rotate" =>
               \A s \in Sessions : req[h].session = {s} =>
                   session'[s].refreshed = session[s].refreshed
    PROVE  /\ req'[h].pc = "serving" => ~req'[h].over
           /\ \A s \in Sessions : req'[h].session = {s} => Relies(h, s)'
<1> SUFFICES ASSUME NEW s \in Sessions, req[h].session = {s}
             PROVE  Relies(h, s)'
    BY DEF Inv, HandlersRely
<1>1. Relies(h, s) /\ Opened(s) /\ req[h] \in Request
    BY DEF Inv, HandlersRely, Relies, TypeOK
<1>2. session[s] \in Session /\ session'[s] \in Session /\ user.pv \in Nat /\ user'.pv \in Nat
      /\ now \in Nat /\ now' \in Nat
    BY DEF Inv, TypeOK
<1>3. Over(s) => Over(s)'
    BY <1>1, <1>2 DEF Over, Onward, Inv, RowsFollow, Session
<1> QED
    BY <1>1, <1>2, <1>3, TimesNatural DEF Relies, Onward, Opened, Refuses, Session, State, Request

(* It is enough to look at the tables and the handler that takes the step. *)
LEMMA Combine ==
    ASSUME Inv, TypeOK', Onward, RowsFollow', TouchesFollow', NEW h \in Handlers,
           \A o \in Handlers \ {h} : req'[o] = req[o],
           \A s \in Sessions : Opened(s) /\ session'[s].refreshed # session[s].refreshed =>
               req[h].pc = "rotate" /\ req[h].session = {s},
           req'[h].pc = "serving" => ~req'[h].over,
           \A s \in Sessions : req'[h].session = {s} => Relies(h, s)',
           req'[h].pc = "rotate" =>
               \A o \in Handlers \ {h} :
                   ~(req[o].pc = "rotate" /\ req[o].session = req'[h].session)
    PROVE  Inv'
<1>1. ASSUME NEW o \in Handlers \ {h}
      PROVE  /\ req'[o].pc = "serving" => ~req'[o].over
             /\ \A s \in Sessions : req'[o].session = {s} => Relies(o, s)'
    <2>1. ASSUME req[o].pc = "rotate", NEW s \in Sessions, req[o].session = {s}
          PROVE  session'[s].refreshed = session[s].refreshed
        BY <2>1 DEF Inv, HandlersRely, OneRotation, Relies
    <2> QED
        BY <2>1, Frame
<1>2. HandlersRely'
    BY <1>1 DEF HandlersRely
<1>3. OneRotation'
    BY DEF OneRotation, Inv
<1> QED
    BY <1>2, <1>3 DEF Inv

(* The tables stay as they are. *)
LEMMA TablesFrame ==
    ASSUME Inv, UNCHANGED <<user, session>>, now' >= now, now' \in Nat,
           touches' \subseteq touches
    PROVE  Onward /\ RowsFollow' /\ TouchesFollow'
<1>1. \A s \in Sessions : session[s] \in Session
    BY DEF Inv, TypeOK
<1> QED
    BY <1>1 DEF Inv, TypeOK, Onward, RowsFollow, TouchesFollow, Opened, Session

(* A handler that has nothing to do relies on nothing. *)
LEMMA IdleRelies ==
    /\ Idle \in Request
    /\ Idle.pc = "idle"
    /\ \A s \in Sessions : Idle.session # {s}
BY DEF Idle, Request, NoState, State, Statuses, UserStatuses

(* Steps that move one handler and touch no table. *)
LEMMA MoveInv ==
    ASSUME Inv, NEW h \in Handlers, NEW x \in Request,
           UNCHANGED <<now, user, session>>, touches' \subseteq touches,
           cache' \in [Sessions -> [state : State, until : Nat]],
           throttle' \in [Sessions -> Nat],
           req' = [req EXCEPT ![h] = x],
           x.pc = "serving" => ~x.over,
           \A s \in Sessions : x.session = {s} => Relies(h, s)',
           x.pc = "rotate" =>
               \A o \in Handlers \ {h} : ~(req[o].pc = "rotate" /\ req[o].session = x.session)
    PROVE  Inv'
<1>1. TypeOK' /\ req'[h] = x /\ \A o \in Handlers \ {h} : req'[o] = req[o]
    BY DEF Inv, TypeOK
<1>2. Onward /\ RowsFollow' /\ TouchesFollow'
    BY TablesFrame DEF Inv, TypeOK
<1> QED
    BY <1>1, <1>2, Combine

-----------------------------------------------------------------------------
(* Transactions on sessions. *)

(* The row of s in a step that changes no other. *)
LEMMA RowInv ==
    ASSUME Inv, NEW h \in Handlers, NEW s \in Sessions, NEW row \in Session,
           session' = [session EXCEPT ![s] = row],
           UNCHANGED <<now, user, cache, throttle>>, touches' \subseteq touches,
           req' \in [Handlers -> Request], \A o \in Handlers \ {h} : req'[o] = req[o],
           req'[h] = req[h] \/ (req'[h].pc \in {"idle", "evict"} /\ req'[h].session = {}),
           row.status # "NONE",
           row.born <= user.pv, row.refreshed <= now,
           row.idle <= row.refreshed + IdleTTL, row.abs <= row.opened + AbsoluteTTL,
           Opened(s) =>
               /\ session[s].status # "ACTIVE" => row.status # "ACTIVE"
               /\ row.born = session[s].born /\ row.opened = session[s].opened
               /\ row.refreshed >= session[s].refreshed
               /\ row.refreshed # session[s].refreshed =>
                     req[h].pc = "rotate" /\ req[h].session = {s} /\ req'[h] # req[h]
    PROVE  Inv'
<1>1. TypeOK'
    BY DEF Inv, TypeOK
<1>2. /\ \A z \in Sessions : session[z] \in Session /\ session'[z] \in Session
      /\ session'[s] = row /\ \A z \in Sessions \ {s} : session'[z] = session[z]
      /\ user.pv \in Nat /\ now \in Nat
    BY DEF Inv, TypeOK
<1>3. Onward
    BY <1>2 DEF Onward, Opened, Session
<1>4. RowsFollow'
    BY <1>2 DEF RowsFollow, Opened, Inv
<1>5. TouchesFollow'
    <2> SUFFICES ASSUME NEW t \in touches
                 PROVE  /\ session'[t.session].status # "NONE"
                        /\ t.idle <= session'[t.session].refreshed + IdleTTL
        BY DEF TouchesFollow, Opened
    <2>1. t.session \in Sessions /\ t.idle \in Nat
        BY DEF Inv, TypeOK
    <2> QED
        BY <1>2, <1>3, <2>1, TimesNatural DEF Inv, TouchesFollow, Onward, Opened, Session
<1>6. \A z \in Sessions : Opened(z) /\ session'[z].refreshed # session[z].refreshed =>
          z = s /\ req[h].pc = "rotate" /\ req[h].session = {z} /\ req'[h] # req[h]
    BY <1>2
<1>7. CASE req'[h] = req[h]
    <2>1. \A z \in Sessions : Opened(z) => session'[z].refreshed = session[z].refreshed
        BY <1>6, <1>7
    <2>2. \A z \in Sessions : req[h].session = {z} => Opened(z)
        BY DEF Inv, HandlersRely, Relies
    <2>3. /\ req'[h].pc = "serving" => ~req'[h].over
          /\ \A z \in Sessions : req'[h].session = {z} => Relies(h, z)'
        BY <1>1, <1>3, <1>7, <2>1, <2>2, Frame
    <2>4. req'[h].pc = "rotate" =>
              \A o \in Handlers \ {h} :
                  ~(req[o].pc = "rotate" /\ req[o].session = req'[h].session)
        BY <1>1, <1>7 DEF Inv, OneRotation
    <2> QED
        BY <1>1, <1>3, <1>4, <1>5, <2>1, <2>3, <2>4, Combine
<1>8. CASE req'[h].pc \in {"idle", "evict"} /\ req'[h].session = {}
    BY <1>1, <1>3, <1>4, <1>5, <1>6, <1>8, Combine
<1> QED
    BY <1>7, <1>8

LEMMA OpenSessionInv ==
    ASSUME Inv, NEW h \in Handlers, NEW s \in Sessions, OpenSession(h, s)
    PROVE  Inv'
<1> DEFINE row == [status |-> "ACTIVE", idle |-> Earlier(now + IdleTTL, now + AbsoluteTTL),
                   abs |-> now + AbsoluteTTL, born |-> user.pv, opened |-> now, refreshed |-> now]
<1>1. /\ now \in Nat /\ user.pv \in Nat
      /\ req' \in [Handlers -> Request] /\ \A o \in Handlers : req'[o] = req[o]
    BY DEF Inv, TypeOK, OpenSession
<1>2. /\ row \in Session /\ row.status = "ACTIVE" /\ row.born <= user.pv
      /\ row.refreshed <= now /\ row.idle <= row.refreshed + IdleTTL
      /\ row.abs <= row.opened + AbsoluteTTL
    BY <1>1, TimesNatural DEF Session, Statuses, Earlier
<1>3. session' = [session EXCEPT ![s] = row] /\ ~Opened(s)
    BY DEF OpenSession, CreateAuthSession, Opened
<1>4. UNCHANGED <<now, user, cache, throttle>> /\ touches' \subseteq touches
    BY DEF OpenSession
<1> HIDE DEF row
<1> QED
    BY <1>1, <1>2, <1>3, <1>4, RowInv

LEMMA BeginRotationInv ==
    ASSUME Inv, NEW h \in Handlers, NEW s \in Sessions, BeginRotation(h, s)
    PROVE  Inv'
<1> DEFINE x == [Idle EXCEPT !.pc = "rotate", !.session = {s}, !.at = now]
<1>1. x \in Request /\ x.pc = "rotate" /\ x.session = {s} /\ x.at = now
    BY DEF Inv, TypeOK, Idle, Request, NoState, State, Statuses, UserStatuses
<1>2. req' = [req EXCEPT ![h] = x] /\ req'[h] = x
    BY DEF Inv, TypeOK, BeginRotation
<1> HIDE DEF x
<1>3. Relies(h, s)'
    BY <1>1, <1>2 DEF Inv, TypeOK, BeginRotation, Relies, Opened, RowsFollow
<1>4. \A z \in Sessions : x.session = {z} => Relies(h, z)'
    <2>1. \A z \in Sessions : x.session = {z} => z = s
        BY <1>1
    <2> QED
        BY <1>3, <2>1
<1>5. \A o \in Handlers \ {h} : ~(req[o].pc = "rotate" /\ req[o].session = x.session)
    BY <1>1 DEF BeginRotation
<1>6. UNCHANGED <<now, user, session, cache, throttle, touches>>
    BY DEF BeginRotation
<1> QED
    BY <1>1, <1>2, <1>4, <1>5, <1>6, MoveInv DEF Inv, TypeOK

LEMMA DoneInv ==
    ASSUME Inv, NEW h \in Handlers, Done(h), UNCHANGED <<now, user, session>>,
           touches' \subseteq touches,
           cache' \in [Sessions -> [state : State, until : Nat]], throttle' \in [Sessions -> Nat]
    PROVE  Inv'
BY IdleRelies, MoveInv DEF Done

(* A handler that goes on to evict cached rows. *)
LEMMA EvictType ==
    ASSUME NEW S \in SUBSET Sessions
    PROVE  LET x == [Idle EXCEPT !.pc = "evict", !.stale = S]
           IN  x \in Request /\ x.pc = "evict" /\ x.session = {}
BY DEF Idle, Request, NoState, State, Statuses, UserStatuses

LEMMA RotateInv ==
    ASSUME Inv, NEW h \in Handlers, NEW s \in Sessions, RotateRefreshToken(h, s)
    PROVE  Inv'
<1> DEFINE at == req[h].at
           ok == /\ session[s].status = "ACTIVE" /\ user.status = "ACTIVE"
                 /\ at <= session[s].idle /\ at <= session[s].abs
                 /\ Touchable(s, at)
           x == [Idle EXCEPT !.pc = "evict", !.stale = {s}]
           idle == Earlier(Earlier(at + IdleTTL, session[s].abs), session[s].abs)
           row == [session[s] EXCEPT !.idle = idle, !.refreshed = at]
<1>1. /\ session[s] \in Session /\ at \in Nat /\ now \in Nat /\ user.pv \in Nat
      /\ req[h].pc = "rotate" /\ req[h].session = {s} /\ Relies(h, s)
    BY DEF Inv, TypeOK, HandlersRely, RotateRefreshToken, Request
<1>2. CASE ~ok
    BY <1>2, DoneInv DEF RotateRefreshToken, Inv, TypeOK
<1>3. CASE ok
    <2>1. /\ session' = [session EXCEPT ![s] = row]
          /\ req' = [req EXCEPT ![h] = x]
        BY <1>1, <1>3 DEF RotateRefreshToken, TouchSession, Inv, TypeOK
    <2>2. x \in Request /\ x.pc = "evict" /\ x.session = {}
        BY EvictType
    <2>9. idle \in Nat /\ idle <= at + IdleTTL
        BY <1>1, TimesNatural DEF Session, Earlier
    <2> HIDE DEF idle
    <2>3. /\ row \in Session /\ row.status = "ACTIVE" /\ row.refreshed = at
          /\ row.idle <= at + IdleTTL
          /\ row.born = session[s].born /\ row.opened = session[s].opened /\ row.abs = session[s].abs
        BY <1>1, <1>3, <2>9 DEF Session
    <2>4. Opened(s) /\ session[s].status = "ACTIVE" /\ session[s].refreshed <= at /\ at <= now
        BY <1>1, <1>3 DEF Relies
    <2>5. session[s].born <= user.pv /\ session[s].abs <= session[s].opened + AbsoluteTTL
        BY <2>4 DEF Inv, RowsFollow
    <2>6. UNCHANGED <<now, user, cache, throttle>> /\ touches' \subseteq touches
        BY DEF RotateRefreshToken
    <2>7. /\ req' \in [Handlers -> Request] /\ \A o \in Handlers \ {h} : req'[o] = req[o]
          /\ req'[h] = x /\ x # req[h]
        BY <1>1, <2>1, <2>2 DEF Inv, TypeOK
    <2>8. row.refreshed >= session[s].refreshed /\ row.refreshed <= now
        BY <1>1, <2>3, <2>4 DEF Session
    <2> HIDE DEF x, row, at
    <2> QED
        BY <1>1, <2>1, <2>2, <2>3, <2>4, <2>5, <2>6, <2>7, <2>8, RowInv
<1> QED
    BY <1>2, <1>3

(* Sessions that end keep everything but their status. *)
LEMMA RevokeInv ==
    ASSUME Inv, NEW h \in Handlers, NEW S \in SUBSET Sessions, NEW T \in SUBSET Sessions,
           NEW ended \in {"REVOKED", "COMPROMISED"},
           session' = RevokeSession(S, ended), user' \in [status : UserStatuses, pv : Nat],
           user'.pv >= user.pv, user'.status = user.status,
           req' = [req EXCEPT ![h] = [Idle EXCEPT !.pc = "evict", !.stale = T]],
           UNCHANGED <<now, cache, throttle, touches>>
    PROVE  Inv'
<1> DEFINE x == [Idle EXCEPT !.pc = "evict", !.stale = T]
<1>1. x \in Request /\ x.pc = "evict" /\ x.session = {}
    BY EvictType
<1>2. req'[h] = x /\ (\A o \in Handlers \ {h} : req'[o] = req[o]) /\ req' \in [Handlers -> Request]
    BY <1>1 DEF Inv, TypeOK
<1> HIDE DEF x
<1>3. ASSUME NEW s \in Sessions
      PROVE  /\ session[s] \in Session /\ session'[s] \in Session
             /\ session'[s].status = "NONE" <=> session[s].status = "NONE"
             /\ session[s].status # "ACTIVE" => session'[s].status # "ACTIVE"
             /\ session'[s].born = session[s].born /\ session'[s].opened = session[s].opened
             /\ session'[s].refreshed = session[s].refreshed
             /\ session'[s].idle = session[s].idle /\ session'[s].abs = session[s].abs
    BY DEF RevokeSession, Inv, TypeOK, Session, Statuses
<1>4. TypeOK'
    <2>1. session' \in [Sessions -> Session]
        BY <1>3 DEF RevokeSession
    <2> QED
        BY <1>2, <2>1 DEF Inv, TypeOK
<1>5. Onward
    BY <1>3 DEF Onward, Opened, Inv, TypeOK, Session
<1>6. RowsFollow'
    <2> SUFFICES ASSUME NEW s \in Sessions, Opened(s)
                 PROVE  /\ session[s].born <= user'.pv
                        /\ session[s].refreshed <= now
                        /\ session[s].idle <= session[s].refreshed + IdleTTL
                        /\ session[s].abs <= session[s].opened + AbsoluteTTL
        BY <1>3 DEF RowsFollow, Opened
    <2> QED
        BY <1>3 DEF Inv, TypeOK, RowsFollow, Session
<1>7. TouchesFollow'
    <2> SUFFICES ASSUME NEW t \in touches
                 PROVE  /\ session'[t.session].status # "NONE"
                        /\ t.idle <= session'[t.session].refreshed + IdleTTL
        BY DEF TouchesFollow, Opened
    <2>1. t.session \in Sessions
        BY DEF Inv, TypeOK
    <2> QED
        BY <1>3, <2>1 DEF Inv, TouchesFollow, Opened
<1> QED
    BY <1>1, <1>2, <1>3, <1>4, <1>5, <1>6, <1>7, Combine

LEMMA EndSessionInv ==
    ASSUME Inv, NEW h \in Handlers, NEW s \in Sessions, NEW ended \in {"REVOKED", "COMPROMISED"},
           EndSession(h, s, ended)
    PROVE  Inv'
<1>1. user' \in [status : UserStatuses, pv : Nat] /\ user'.pv >= user.pv /\ user'.status = user.status
    BY DEF EndSession, Inv, TypeOK
<1>2. {s} \in SUBSET Sessions
    OBVIOUS
<1> QED
    BY <1>1, <1>2, RevokeInv DEF EndSession

LEMMA ChangePasswordInv ==
    ASSUME Inv, NEW h \in Handlers, ChangePassword(h)
    PROVE  Inv'
<1>1. user' \in [status : UserStatuses, pv : Nat] /\ user'.pv >= user.pv /\ user'.status = user.status
    BY DEF ChangePassword, Inv, TypeOK
<1>2. ListAllUserSessionIDs \in SUBSET Sessions
    BY DEF ListAllUserSessionIDs
<1> QED
    BY <1>1, <1>2, RevokeInv DEF ChangePassword

-----------------------------------------------------------------------------
(* The cache. *)

LEMMA NothingType == Nothing \in [state : State, until : Nat]
BY DEF Nothing, NoState, State, Statuses, UserStatuses

LEMMA InvalidateSessionInv ==
    ASSUME Inv, NEW h \in Handlers, InvalidateSession(h)
    PROVE  Inv'
<1>1. PICK s \in req[h].stale :
          /\ \/ cache' = [cache EXCEPT ![s] = Nothing]
             \/ UNCHANGED cache
          /\ IF req[h].stale = {s} THEN Done(h) ELSE req' = [req EXCEPT ![h].stale = @ \ {s}]
    BY DEF InvalidateSession
<1>2. req[h] \in Request /\ s \in Sessions /\ req[h].pc = "evict"
    BY DEF Inv, TypeOK, Request, InvalidateSession
<1>3. cache' \in [Sessions -> [state : State, until : Nat]]
    BY <1>1, <1>2, NothingType DEF Inv, TypeOK
<1>4. CASE req[h].stale = {s}
    BY <1>1, <1>3, <1>4, DoneInv DEF InvalidateSession, Inv, TypeOK
<1>5. CASE req[h].stale # {s}
    <2> DEFINE x == [req[h] EXCEPT !.stale = @ \ {s}]
    <2>1. /\ x \in Request /\ x.pc = "evict" /\ x.session = req[h].session /\ x.state = req[h].state
          /\ x.over = req[h].over /\ x.at = req[h].at
        BY <1>2 DEF Request
    <2>2. req' = [req EXCEPT ![h] = x] /\ req'[h] = x
        BY <1>1, <1>5 DEF Inv, TypeOK
    <2>3. \A z \in Sessions : x.session = {z} => Relies(h, z)'
        BY <1>2, <2>1, <2>2
           DEF InvalidateSession, Inv, HandlersRely, Relies, Opened
    <2> HIDE DEF x
    <2> QED
        BY <1>3, <2>1, <2>2, <2>3, MoveInv DEF InvalidateSession, Inv, TypeOK
<1> QED
    BY <1>4, <1>5

-----------------------------------------------------------------------------
(* authn.Middleware. *)

LEMMA ArriveInv ==
    ASSUME Inv, NEW h \in Handlers, NEW s \in Sessions, Arrive(h, s)
    PROVE  Inv'
<1> DEFINE x == [Idle EXCEPT !.pc = "load", !.session = {s}, !.over = Over(s), !.at = now]
<1>1. x \in Request /\ x.pc = "load" /\ x.session = {s} /\ x.over = Over(s)
    BY DEF Inv, TypeOK, Idle, Request, NoState, State, Statuses, UserStatuses, Over
<1>2. req' = [req EXCEPT ![h] = x] /\ req'[h] = x
    BY DEF Inv, TypeOK, Arrive
<1> HIDE DEF x
<1>3. Over(s)' <=> Over(s)
    BY DEF Arrive, Over
<1>4. \A z \in Sessions : x.session = {z} => Relies(h, z)'
    <2>1. \A z \in Sessions : x.session = {z} => z = s
        BY <1>1
    <2> QED
        BY <1>1, <1>2, <1>3, <2>1 DEF Arrive, Relies, Opened
<1> QED
    BY <1>1, <1>2, <1>4, MoveInv DEF Arrive, Inv, TypeOK

LEMMA StateType ==
    ASSUME Inv, NEW s \in Sessions
    PROVE  GetAuthSessionState(s) \in State
BY DEF Inv, TypeOK, Session, State, GetAuthSessionState

(* Reads that only the loader sees. *)
LEMMA LoadedInv ==
    ASSUME Inv, NEW h \in Handlers, NEW s \in Sessions, req[h].session = {s},
           req[h].pc \in {"load", "fill"}, NEW x \in Request,
           x.pc \in {"fill", "authority"}, x.session = {s}, x.over = req[h].over,
           req' = [req EXCEPT ![h] = x], UNCHANGED <<now, user, session, throttle, touches>>,
           cache' \in [Sessions -> [state : State, until : Nat]]
    PROVE  Inv'
<1>1. req'[h] = x /\ (Over(s)' <=> Over(s)) /\ Relies(h, s)
    BY DEF Inv, TypeOK, Over, HandlersRely
<1>2. \A z \in Sessions : x.session = {z} => Relies(h, z)'
    <2>1. \A z \in Sessions : x.session = {z} => z = s
        OBVIOUS
    <2> QED
        BY <1>1, <2>1 DEF Relies, Opened
<1> QED
    BY <1>2, MoveInv DEF Inv, TypeOK

LEMMA LoadInv ==
    ASSUME Inv, NEW h \in Handlers, NEW s \in Sessions, load(h, s)
    PROVE  Inv'
<1>1. /\ req[h].pc = "load" /\ req[h].session = {s} /\ req[h] \in Request
      /\ cache[s].state \in State /\ GetAuthSessionState(s) \in State
    BY StateType DEF load, Inv, TypeOK
<1> DEFINE x == IF Cached(s) /\ fromCache(cache[s])
                  THEN [req[h] EXCEPT !.pc = "authority", !.state = cache[s].state, !.at = 0]
                  ELSE [req[h] EXCEPT !.pc = "fill", !.state = GetAuthSessionState(s)]
<1>2. x \in Request /\ x.pc \in {"fill", "authority"} /\ x.session = {s} /\ x.over = req[h].over
    BY <1>1 DEF Request
<1>3. req' = [req EXCEPT ![h] = x]
    BY DEF load, Inv, TypeOK
<1>4. /\ UNCHANGED <<now, user, session, throttle, touches>>
      /\ cache' \in [Sessions -> [state : State, until : Nat]]
    BY DEF load, Inv, TypeOK
<1> HIDE DEF x
<1> QED
    BY <1>1, <1>2, <1>3, <1>4, LoadedInv

LEMMA LoadFromDBInv ==
    ASSUME Inv, NEW h \in Handlers, NEW s \in Sessions, loadFromDB(h, s)
    PROVE  Inv'
<1>1. /\ req[h].pc = "load" /\ req[h].session = {s} /\ req[h] \in Request
      /\ GetAuthSessionState(s) \in State
    BY StateType DEF loadFromDB, Inv, TypeOK
<1> DEFINE x == [req[h] EXCEPT !.pc = "authority", !.state = GetAuthSessionState(s), !.at = 0]
<1>2. x \in Request /\ x.pc = "authority" /\ x.session = {s} /\ x.over = req[h].over
    BY <1>1 DEF Request
<1>3. req' = [req EXCEPT ![h] = x]
    BY DEF loadFromDB, Inv, TypeOK
<1>4. /\ UNCHANGED <<now, user, session, throttle, touches>>
      /\ cache' \in [Sessions -> [state : State, until : Nat]]
    BY DEF loadFromDB, Inv, TypeOK
<1> HIDE DEF x
<1> QED
    BY <1>1, <1>2, <1>3, <1>4, LoadedInv

LEMMA FillInv ==
    ASSUME Inv, NEW h \in Handlers, NEW s \in Sessions, loadFromDBAndCache(h, s)
    PROVE  Inv'
<1> DEFINE ttl == computeCacheTTL(req[h].state, req[h].at)
           entry == [state |-> req[h].state, until |-> now + ttl]
           x == [req[h] EXCEPT !.pc = "authority", !.at = 0]
<1>1. /\ req[h].pc = "fill" /\ req[h].session = {s} /\ req[h] \in Request /\ now \in Nat
    BY DEF loadFromDBAndCache, Inv, TypeOK
<1>2. ttl \in Nat
    BY <1>1, TimesNatural DEF computeCacheTTL, Earlier, Request, State
<1>3. entry \in [state : State, until : Nat]
    BY <1>1, <1>2 DEF Request
<1>4. x \in Request /\ x.pc = "authority" /\ x.session = {s} /\ x.over = req[h].over
    BY <1>1 DEF Request
<1>5. req' = [req EXCEPT ![h] = x]
    BY DEF loadFromDBAndCache, Inv, TypeOK
<1>6. cache' = [cache EXCEPT ![s] = entry] \/ cache' = cache
    BY DEF loadFromDBAndCache
<1> HIDE DEF x, entry
<1>7. cache' \in [Sessions -> [state : State, until : Nat]]
    BY <1>3, <1>6 DEF Inv, TypeOK
<1> QED
    BY <1>1, <1>4, <1>5, <1>7, LoadedInv DEF loadFromDBAndCache

LEMMA ReadAuthorityInv ==
    ASSUME Inv, NEW h \in Handlers, NEW s \in Sessions, ReadAuthority(h, s)
    PROVE  Inv'
<1> DEFINE state == GetAuthSessionState(s)
           x == [req[h] EXCEPT !.pc = "check", !.state = state]
<1>1. /\ req[h].pc = "authority" /\ req[h].session = {s} /\ req[h] \in Request
      /\ state \in State /\ Relies(h, s)
    BY StateType DEF ReadAuthority, Inv, TypeOK, HandlersRely
<1>2. x \in Request /\ x.pc = "check" /\ x.session = {s} /\ x.over = req[h].over /\ x.state = state
    BY <1>1 DEF Request
<1>3. req' = [req EXCEPT ![h] = x] /\ req'[h] = x
    BY DEF ReadAuthority, getSessionState, Inv, TypeOK
<1>4. /\ state.idle <= session[s].refreshed + IdleTTL /\ state.abs <= session[s].opened + AbsoluteTTL
      /\ req[h].over => Refuses(s, state)
    BY <1>1 DEF GetAuthSessionState, Relies, Over, Refuses, Inv, RowsFollow
<1> HIDE DEF x, state
<1>5. \A z \in Sessions : x.session = {z} => Relies(h, z)'
    <2>1. \A z \in Sessions : x.session = {z} => z = s
        BY <1>2
    <2> QED
        BY <1>1, <1>2, <1>3, <1>4, <2>1 DEF ReadAuthority, Relies, Opened, Refuses
<1>6. UNCHANGED <<now, user, session, cache, throttle, touches>>
    BY DEF ReadAuthority
<1> QED
    BY <1>2, <1>3, <1>5, <1>6, MoveInv DEF Inv, TypeOK

LEMMA CheckInv ==
    ASSUME Inv, NEW h \in Handlers, NEW s \in Sessions, Check(h, s)
    PROVE  Inv'
<1> DEFINE state == req[h].state
           ok == validateSessionStatus(state) /\ validateUserStatus(state) /\ validateVersions(s, state)
           x == [req[h] EXCEPT !.pc = "serving", !.at = now]
<1>1. /\ req[h].pc = "check" /\ req[h].session = {s} /\ req[h] \in Request
      /\ now \in Nat /\ Relies(h, s)
    BY DEF Check, Inv, TypeOK, HandlersRely
<1>2. UNCHANGED <<now, user, session, cache, throttle, touches>>
    BY DEF Check
<1>3. CASE ok
    <2>1. /\ x \in Request /\ x.pc = "serving" /\ x.session = {s} /\ x.over = req[h].over
          /\ x.state = state /\ x.at = now
        BY <1>1 DEF Request
    <2>2. req' = [req EXCEPT ![h] = x] /\ req'[h] = x
        BY <1>3 DEF Check, Inv, TypeOK
    <2>3. ~x.over /\ now <= state.idle /\ now <= state.abs
        BY <1>1, <1>3, <2>1
           DEF Relies, Refuses, validateSessionStatus, validateUserStatus, validateVersions
    <2> HIDE DEF x
    <2>4. \A z \in Sessions : x.session = {z} => Relies(h, z)'
        <3>1. \A z \in Sessions : x.session = {z} => z = s
            BY <2>1
        <3> QED
            BY <1>1, <1>2, <2>1, <2>2, <2>3, <3>1 DEF Relies, Opened
    <2> QED
        BY <1>2, <2>1, <2>2, <2>3, <2>4, MoveInv DEF Inv, TypeOK
<1>4. CASE ~ok
    BY <1>2, <1>4, DoneInv DEF Check, Inv, TypeOK
<1> QED
    BY <1>3, <1>4

(* A touch remembers the idle deadline the request was checked against. *)
LEMMA TryTouchInv ==
    ASSUME Inv, NEW h \in Handlers, NEW s \in Sessions, tryTouch(h, s)
    PROVE  Inv'
<1>1. CASE UNCHANGED <<throttle, touches>>
    BY <1>1, DoneInv DEF tryTouch, Inv, TypeOK
<1>2. CASE /\ throttle' = [throttle EXCEPT ![s] = now + TouchInterval]
           /\ touches' = touches \cup {[session |-> s, idle |-> req[h].state.idle]}
    <2> DEFINE t == [session |-> s, idle |-> req[h].state.idle]
    <2>1. /\ req[h].pc = "serving" /\ req[h].session = {s} /\ req[h].state.idle \in Nat
          /\ now \in Nat /\ Relies(h, s)
        BY DEF tryTouch, Inv, TypeOK, HandlersRely, Request, State
    <2>2. t \in [session : Sessions, idle : Nat] /\ t.session = s /\ Opened(s)
          /\ t.idle <= session[s].refreshed + IdleTTL
        BY <2>1 DEF Relies
    <2>3. UNCHANGED <<now, user, session, cache>> /\ req' = [req EXCEPT ![h] = Idle]
        BY DEF tryTouch, Done
    <2>4. /\ req' \in [Handlers -> Request] /\ req'[h] = Idle
          /\ \A o \in Handlers \ {h} : req'[o] = req[o]
        BY <2>3, IdleRelies DEF Inv, TypeOK
    <2>5. throttle' \in [Sessions -> Nat]
        BY <1>2, <2>1, TimesNatural DEF Inv, TypeOK
    <2> HIDE DEF t
    <2>6. TypeOK'
        BY <1>2, <2>2, <2>3, <2>4, <2>5 DEF Inv, TypeOK, t
    <2>7. Onward /\ RowsFollow'
        BY <2>3 DEF Inv, TypeOK, Onward, RowsFollow, Opened, Session
    <2>8. TouchesFollow'
        BY <1>2, <2>2, <2>3 DEF Inv, TouchesFollow, Opened, t
    <2> QED
        BY <2>3, <2>4, <2>6, <2>7, <2>8, IdleRelies, Combine
<1> QED
    BY <1>1, <1>2 DEF tryTouch

LEMMA GiveUpInv ==
    ASSUME Inv, NEW h \in Handlers, GiveUp(h)
    PROVE  Inv'
BY DoneInv DEF GiveUp, Inv, TypeOK

-----------------------------------------------------------------------------
(* Goroutines, the operator and time. *)

(* No handler moves: any of them stands for the one that does. *)
LEMMA StillInv ==
    ASSUME Inv, TypeOK', Onward, RowsFollow', TouchesFollow', UNCHANGED req,
           \A s \in Sessions : Opened(s) => session'[s].refreshed = session[s].refreshed
    PROVE  Inv'
<1>1. ASSUME NEW h \in Handlers
      PROVE  /\ req'[h].pc = "serving" => ~req'[h].over
             /\ \A s \in Sessions : req'[h].session = {s} => Relies(h, s)'
    BY Frame DEF Inv, HandlersRely, Relies
<1>2. HandlersRely' /\ OneRotation'
    BY <1>1 DEF HandlersRely, OneRotation, Inv
<1> QED
    BY <1>2 DEF Inv

LEMMA TouchSessionInv ==
    ASSUME Inv, NEW t \in touches, touchSession(t)
    PROVE  Inv'
<1> DEFINE s == t.session
           idle == Earlier(t.idle, session[s].abs)
           row == [session[s] EXCEPT !.idle = idle]
<1>1. /\ s \in Sessions /\ t.idle \in Nat /\ session[s] \in Session
      /\ Opened(s) /\ t.idle <= session[s].refreshed + IdleTTL
    BY DEF Inv, TypeOK, TouchesFollow
<1>2. idle \in Nat /\ idle <= session[s].refreshed + IdleTTL
    BY <1>1, TimesNatural DEF Earlier, Session
<1>3. UNCHANGED <<now, user, cache, throttle, req>> /\ touches' \subseteq touches
    BY DEF touchSession
<1> HIDE DEF s, idle
<1>4. /\ row \in Session /\ row.status = session[s].status /\ row.idle = idle
      /\ row.abs = session[s].abs /\ row.born = session[s].born /\ row.opened = session[s].opened
      /\ row.refreshed = session[s].refreshed
    BY <1>1, <1>2 DEF Session
<1>5. session' = [session EXCEPT ![s] = row] \/ session' = session
    BY DEF touchSession, TouchSession, s, idle
<1> HIDE DEF row
<1>6. ASSUME NEW z \in Sessions
      PROVE  /\ session[z] \in Session /\ session'[z] \in Session
             /\ session'[z].status = session[z].status
             /\ session'[z].idle \in {session[z].idle, IF z = s THEN idle ELSE session[z].idle}
             /\ session'[z].abs = session[z].abs /\ session'[z].born = session[z].born
             /\ session'[z].opened = session[z].opened
             /\ session'[z].refreshed = session[z].refreshed
    BY <1>1, <1>4, <1>5 DEF Inv, TypeOK
<1>7. TypeOK'
    BY <1>1, <1>3, <1>4, <1>5 DEF Inv, TypeOK
<1>8. Onward
    BY <1>3, <1>6 DEF Onward, Opened, Inv, TypeOK, Session
<1>9. RowsFollow'
    BY <1>2, <1>3, <1>6 DEF RowsFollow, Opened, Inv
<1>10. TouchesFollow'
    BY <1>3, <1>6 DEF TouchesFollow, Opened, Inv, TypeOK
<1> QED
    BY <1>3, <1>6, <1>7, <1>8, <1>9, <1>10, StillInv

LEMMA LoseTouchInv ==
    ASSUME Inv, NEW t \in touches, LoseTouch(t)
    PROVE  Inv'
<1>1. TypeOK'
    BY DEF LoseTouch, Inv, TypeOK
<1>2. Onward /\ RowsFollow' /\ TouchesFollow'
    BY TablesFrame DEF LoseTouch, Inv, TypeOK
<1> QED
    BY <1>1, <1>2, StillInv DEF LoseTouch

LEMMA DisableUserInv ==
    ASSUME Inv, DisableUser
    PROVE  Inv'
<1>1. /\ user' \in [status : UserStatuses, pv : Nat] /\ user'.pv = user.pv
      /\ user'.status = "DISABLED" /\ UNCHANGED <<now, session, cache, throttle, touches, req>>
    BY DEF DisableUser, Inv, TypeOK, UserStatuses
<1>2. TypeOK'
    BY <1>1 DEF Inv, TypeOK
<1>3. Onward /\ RowsFollow' /\ TouchesFollow'
    <2>1. \A s \in Sessions : session[s] \in Session
        BY DEF Inv, TypeOK
    <2> QED
        BY <1>1, <2>1 DEF Inv, TypeOK, Onward, RowsFollow, TouchesFollow, Opened, Session
<1> QED
    BY <1>1, <1>2, <1>3, StillInv

LEMMA TickInv ==
    ASSUME Inv, Tick
    PROVE  Inv'
<1>1. now' \in Nat /\ now' >= now /\ UNCHANGED <<user, session, touches, req>>
    BY DEF Tick, Inv, TypeOK
<1>2. cache' \in [Sessions -> [state : State, until : Nat]] /\ throttle' \in [Sessions -> Nat]
    BY NothingType DEF Tick, Inv, TypeOK
<1>3. TypeOK'
    BY <1>1, <1>2 DEF Inv, TypeOK
<1>4. Onward /\ RowsFollow' /\ TouchesFollow'
    BY <1>1, TablesFrame
<1> QED
    BY <1>1, <1>3, <1>4, StillInv

-----------------------------------------------------------------------------
LEMMA InitInv == Init => Inv
<1> SUFFICES ASSUME Init PROVE Inv
    OBVIOUS
<1>1. NoSession \in Session
    BY DEF NoSession, Session, Statuses
<1>2. TypeOK
    BY <1>1, IdleRelies, NothingType DEF Init, TypeOK, UserStatuses
<1> QED
    BY <1>2, IdleRelies
       DEF Init, Inv, RowsFollow, TouchesFollow, HandlersRely, OneRotation, Opened, NoSession

LEMMA NextInv == Inv /\ [Next]_vars => Inv'
<1> SUFFICES ASSUME Inv, [Next]_vars PROVE Inv'
    OBVIOUS
<1>1. ASSUME NEW h \in Handlers, Handle(h) PROVE Inv'
    BY <1>1, OpenSessionInv, BeginRotationInv, RotateInv, EndSessionInv, ArriveInv, LoadInv,
       LoadFromDBInv, FillInv, ReadAuthorityInv, CheckInv, TryTouchInv, ChangePasswordInv,
       InvalidateSessionInv, GiveUpInv
       DEF Handle
<1>2. ASSUME NEW t \in touches, touchSession(t) \/ LoseTouch(t) PROVE Inv'
    BY <1>2, TouchSessionInv, LoseTouchInv
<1>3. CASE UNCHANGED vars
    <2>1. TypeOK' /\ now' >= now /\ now' \in Nat
        BY <1>3 DEF vars, Inv, TypeOK
    <2>2. Onward /\ RowsFollow' /\ TouchesFollow'
        BY <1>3, <2>1, TablesFrame DEF vars
    <2> QED
        BY <1>3, <2>1, <2>2, StillInv DEF vars
<1> QED
    BY <1>1, <1>2, <1>3, DisableUserInv, TickInv DEF Next

(* Whatever order logins, refreshes, logouts, late touches and refilled    *)
(* caches come in, rows, reads and pending touches agree with the opening  *)
(* and the last refresh of their session.                                  *)
THEOREM SessionUseInvariance == Spec => []Inv
<1> QED
    BY InitInv, NextInv, PTL DEF Spec

(* RequireAccessToken: nothing is served to a request that came after its  *)
(* session had ended, whatever Valkey held.                                *)
THEOREM EndedIsRefused == Spec => []RefusedAfterEnd
<1>1. Inv => RefusedAfterEnd
    BY DEF Inv, HandlersRely, RefusedAfterEnd
<1> QED
    BY <1>1, SessionUseInvariance, PTL

(* validateSessionStatus and TouchSession: what is served is checked       *)
(* within RefreshIdleTTL of the last refresh and SessionAbsoluteTTL of the *)
(* opening, although touches write deadlines they read long ago.           *)
THEOREM DeadlinesHold == Spec => []ServedWithinDeadlines
<1>1. Inv => ServedWithinDeadlines
    <2> SUFFICES ASSUME Inv, NEW h \in Handlers, NEW s \in Sessions,
                        req[h].pc = "serving", req[h].session = {s}
                 PROVE  /\ req[h].at <= session[s].refreshed + IdleTTL
                        /\ req[h].at <= session[s].opened + AbsoluteTTL
        BY DEF ServedWithinDeadlines
    <2>1. Relies(h, s) /\ req[h] \in Request /\ session[s] \in Session
        BY DEF Inv, HandlersRely, TypeOK
    <2> QED
        BY <2>1, TimesNatural DEF Relies, Request, State, Session
<1> QED
    BY <1>1, SessionUseInvariance, PTL
=============================================================================
