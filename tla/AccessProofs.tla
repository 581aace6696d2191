---------------------------- MODULE AccessProofs ----------------------------
(***************************************************************************)
(* The properties of Access for any members, roles, stores, sessions and   *)
(* handlers, whatever they ask for.                                        *)
(***************************************************************************)
EXTENDS Access, TLAPS

Levels == {"ORGANIZATION", "STORE"}
ClientOps == {"login", "switch", "load"}
RoleOps == {"create", "update", "status", "bind", "unbind"}
ClientSteps == {"membership", "store", "scopes", "open", "update", "view", "downgrade", "issue"}
RoleSteps == {"member", "role", "write"}

(* Scopes, and whatever else requests name. *)
Codes == Scopes \cup UNION {q.want : q \in RoleRequests}

RoleRow ==
    [there : BOOLEAN, level : Levels, scopes : SUBSET Codes, active : BOOLEAN, mutable : BOOLEAN]

SessionRow ==
    [user : Members \cup {None}, status : {"NONE", "ACTIVE", "REVOKED"}, ctx : Contexts]

Request ==
    [pc : {"idle"} \cup ClientSteps \cup RoleSteps, op : {"none"} \cup ClientOps \cup RoleOps,
     actor : Members \cup {None}, target : Members \cup {None}, role : Roles \cup {None},
     place : Places, level : Levels, want : SUBSET Codes, flag : BOOLEAN, until : Nat,
     granted : SUBSET Codes, session : Sessions \cup {None}, tries : Seq(Contexts),
     strict : BOOLEAN, oav : Nat, mav : Nat, scopes : SUBSET Codes, at : Nat]

Token ==
    [session : Sessions, member : Members, ctx : Contexts, scopes : SUBSET Codes,
     oav : Nat, mav : Nat, exp : Nat, at : Nat]

TypeOK ==
    /\ now \in Nat
    /\ organization \in [active : BOOLEAN, version : Nat]
    /\ member \in [Members -> [status : {"ACTIVE", "SUSPENDED"}, version : Nat]]
    /\ store \in [Stores -> BOOLEAN]
    /\ role \in [Roles -> RoleRow]
    /\ binding \in [Members -> [Roles \X Places -> Nat]]
    /\ session \in [Sessions -> SessionRow]
    /\ tokens \subseteq Token
    /\ req \in [Handlers -> Request]

-----------------------------------------------------------------------------
(* What resolveContext gives. *)

(* The store is one where m had a store-level scope at time t. *)
WelcomeIn(m, ctx, t) ==
    ctx \in Stores => ScopesOf(EffectiveRoles(m, ctx, t)) \cap StoreScopes # {}

(* m had these scopes in the context at time t, by the roles of now. *)
Earned(m, ctx, scopes, t) ==
    /\ scopes \subseteq ScopesOf(EffectiveRoles(m, ctx, t))
                            \cap (IF ctx \in Stores THEN Scopes ELSE OrganizationScopes)
    /\ WelcomeIn(m, ctx, t)

Current(m, oav, mav) == oav = organization.version /\ mav = member[m].version

(* No version is of the future. *)
Read(m, oav, mav) == oav <= organization.version /\ mav <= member[m].version

(* A token whose versions are current carries only what was earned. *)
TokensEarned ==
    \A t \in tokens :
        /\ Read(t.member, t.oav, t.mav)
        /\ t.ctx = "identity" => t.scopes = {}
        /\ t.ctx # "identity" /\ Current(t.member, t.oav, t.mav) =>
               Earned(t.member, t.ctx, t.scopes, t.at)

(* A login goes through its candidates down to the identity, which never   *)
(* fails.                                                                  *)
Candidates(h) ==
    req[h].pc \in ClientSteps \ {"view", "downgrade"} =>
        /\ req[h].tries # <<>>
        /\ req[h].op = "login" /\ ~req[h].strict => req[h].tries[Len(req[h].tries)] = "identity"

(* What a handler has read so far holds as long as the versions it read    *)
(* first are current.                                                      *)
ReadBy(h) == Read(req[h].actor, req[h].oav, req[h].mav)
CurrentAt(h) == Current(req[h].actor, req[h].oav, req[h].mav)

Resolving(h) ==
    /\ req[h].pc \in ClientSteps =>
           /\ req[h].actor \in Members /\ req[h].op \in ClientOps
           /\ req[h].op # "login" => req[h].session \in Sessions
           /\ ReadBy(h)
    /\ req[h].pc \in {"update", "view", "downgrade", "issue"} => req[h].op # "login"
    /\ req[h].pc \in {"store", "scopes"} => Target(h) # "identity" /\ req[h].at <= now
    /\ req[h].pc = "scopes" /\ CurrentAt(h) => WelcomeIn(req[h].actor, Target(h), req[h].at)
    /\ req[h].pc \in {"open", "issue"} =>
           /\ Target(h) = "identity" => req[h].scopes = {}
           /\ Target(h) # "identity" /\ CurrentAt(h) =>
                  Earned(req[h].actor, Target(h), req[h].scopes, req[h].at)

SessionsOfMembers == \A s \in Sessions : session[s].status = "ACTIVE" => session[s].user \in Members

-----------------------------------------------------------------------------
(* What roles.Service may write. *)

Writing(h) ==
    /\ req[h].pc \in RoleSteps =>
           /\ req[h].op \in RoleOps /\ req[h].actor \in Members /\ req[h].role \in Roles
           /\ req[h].op \in {"bind", "unbind"} => req[h].target \in Members
    /\ req[h].pc = "member" => req[h].op \in {"bind", "unbind"}
    /\ req[h].pc = "role" => req[h].op # "unbind"
    /\ req[h].pc = "write" =>
           /\ req[h].op \in {"create", "update"} => req[h].want \subseteq req[h].granted
           /\ req[h].op \in {"update", "status"} =>
                  role[req[h].role].there /\ role[req[h].role].mutable
           /\ req[h].op = "bind" => role[req[h].role].there
           /\ (req[h].op = "bind" \/ (req[h].op = "status" /\ req[h].flag)) =>
                  role[req[h].role].scopes \subseteq req[h].granted

Locker(h) == req[h].pc = "write" /\ req[h].op \in {"update", "status", "bind"}

(* Two handlers at one role that can change: never. *)
RolesLocked ==
    \A h, o \in Handlers :
        Locker(h) /\ Locker(o) /\ req[h].role = req[o].role /\ role[req[h].role].mutable => h = o

HandlersRely == \A h \in Handlers : Candidates(h) /\ Resolving(h) /\ Writing(h)

Inv == TypeOK /\ SessionsOfMembers /\ TokensEarned /\ HandlersRely /\ RolesLocked

-----------------------------------------------------------------------------
(* Steps. *)

(* Every change of a role or of a binding shows in a version. *)
Versioned ==
    /\ now' >= now
    /\ organization'.version >= organization.version
    /\ organization'.version = organization.version => role' = role
    /\ \A m \in Members :
           /\ member'[m].version >= member[m].version
           /\ member'[m].version = member[m].version => binding'[m] = binding[m]

(* Roles stay, and only the handler h may change what they grant. *)
RolesKept(h) ==
    \A r \in Roles : role[r].there =>
        /\ role'[r].there /\ role'[r].mutable = role[r].mutable
        /\ role'[r].scopes # role[r].scopes =>
               Locker(h) /\ req[h].role = r /\ role[r].mutable

(* Versions that are still current after a step were so before it, and     *)
(* neither the roles nor the bindings of the member have changed.          *)
LEMMA StillCurrent ==
    ASSUME Inv, TypeOK', Versioned, NEW m \in Members, NEW oav \in Nat, NEW mav \in Nat,
           Read(m, oav, mav)
    PROVE  /\ Read(m, oav, mav)'
           /\ Current(m, oav, mav)' =>
                  Current(m, oav, mav) /\ role' = role /\ binding'[m] = binding[m]
<1>1. /\ organization.version \in Nat /\ organization'.version \in Nat
      /\ member[m].version \in Nat /\ member'[m].version \in Nat
    BY DEF Inv, TypeOK
<1> QED
    BY <1>1 DEF Read, Current, Versioned

LEMMA EarnedFrame ==
    ASSUME NEW m, NEW ctx, NEW t, role' = role, binding'[m] = binding[m]
    PROVE  /\ WelcomeIn(m, ctx, t)' <=> WelcomeIn(m, ctx, t)
           /\ \A scopes : Earned(m, ctx, scopes, t)' <=> Earned(m, ctx, scopes, t)
<1>1. EffectiveRoles(m, ctx, t)' = EffectiveRoles(m, ctx, t)
    BY DEF EffectiveRoles, Bound
<1>2. \A S : ScopesOf(S)' = ScopesOf(S)
    BY DEF ScopesOf
<1> QED
    BY <1>1, <1>2 DEF WelcomeIn, Earned

LEMMA TokensFrame ==
    ASSUME Inv, TypeOK', Versioned, tokens' \subseteq tokens
    PROVE  TokensEarned'
<1> SUFFICES ASSUME NEW t \in tokens
             PROVE  /\ Read(t.member, t.oav, t.mav)'
                    /\ t.ctx = "identity" => t.scopes = {}
                    /\ t.ctx # "identity" /\ Current(t.member, t.oav, t.mav)' =>
                           Earned(t.member, t.ctx, t.scopes, t.at)'
    BY DEF TokensEarned
<1>1. t.member \in Members /\ t.oav \in Nat /\ t.mav \in Nat
    BY DEF Inv, TypeOK, Token
<1>2. /\ Read(t.member, t.oav, t.mav)
      /\ t.ctx = "identity" => t.scopes = {}
      /\ t.ctx # "identity" /\ Current(t.member, t.oav, t.mav) =>
             Earned(t.member, t.ctx, t.scopes, t.at)
    BY DEF Inv, TokensEarned
<1> QED
    BY <1>1, <1>2, StillCurrent, EarnedFrame

(* A handler that did not move still relies on what is true. *)
LEMMA Frame ==
    ASSUME Inv, TypeOK', Versioned, NEW o \in Handlers, req'[o] = req[o],
           Locker(o) /\ role[req[o].role].there =>
               /\ role'[req[o].role].there
               /\ role'[req[o].role].mutable = role[req[o].role].mutable
               /\ role'[req[o].role].scopes = role[req[o].role].scopes
    PROVE  Candidates(o)' /\ Resolving(o)' /\ Writing(o)'
<1>1. req[o] \in Request /\ Candidates(o) /\ Resolving(o) /\ Writing(o)
    BY DEF Inv, TypeOK, HandlersRely
<1>2. now \in Nat /\ now' \in Nat /\ now' >= now
    BY DEF Inv, TypeOK, Versioned
<1>3. /\ req[o].pc \in {"idle"} \cup ClientSteps \cup RoleSteps
      /\ req[o].at \in Nat /\ req[o].oav \in Nat /\ req[o].mav \in Nat
    BY <1>1 DEF Request
<1>4. Candidates(o)'
    BY <1>1 DEF Candidates
<1>5. Resolving(o)'
    <2>1. CASE req[o].pc \notin ClientSteps
        BY <2>1 DEF Resolving, ClientSteps
    <2>2. CASE req[o].pc \in ClientSteps
        <3> PICK m, oav, mav, at, ctx, scopes :
                /\ m = req[o].actor /\ oav = req[o].oav /\ mav = req[o].mav
                /\ at = req[o].at /\ ctx = Target(o) /\ scopes = req[o].scopes
            OBVIOUS
        <3>1. m \in Members /\ Read(m, oav, mav)
            BY <1>1, <2>2 DEF Resolving, ReadBy
        <3>2. /\ Read(m, oav, mav)'
              /\ Current(m, oav, mav)' =>
                     Current(m, oav, mav) /\ role' = role /\ binding'[m] = binding[m]
            BY <1>3, <3>1, StillCurrent
        <3>3. Current(m, oav, mav)' =>
                  /\ WelcomeIn(m, ctx, at)' <=> WelcomeIn(m, ctx, at)
                  /\ Earned(m, ctx, scopes, at)' <=> Earned(m, ctx, scopes, at)
            BY <3>2, EarnedFrame
        <3> QED
            BY <1>1, <1>2, <1>3, <2>2, <3>2, <3>3 DEF Resolving, ReadBy, CurrentAt, Target
    <2> QED
        BY <2>1, <2>2
<1>6. Writing(o)'
    <2>1. CASE ~Locker(o)
        BY <1>1, <2>1 DEF Writing, Locker
    <2>2. CASE Locker(o)
        <3>1. req[o].role \in Roles /\ role[req[o].role].there
            BY <1>1, <2>2 DEF Writing, Locker, RoleSteps
        <3> QED
            BY <1>1, <2>2, <3>1 DEF Writing
    <2> QED
        BY <2>1, <2>2
<1> QED
    BY <1>4, <1>5, <1>6

(* It is enough to look at the tables, the tokens and the handler that     *)
(* takes the step.                                                         *)
LEMMA Combine ==
    ASSUME Inv, TypeOK', Versioned, SessionsOfMembers', TokensEarned',
           NEW h \in Handlers, RolesKept(h),
           \A o \in Handlers \ {h} : req'[o] = req[o],
           Candidates(h)', Resolving(h)', Writing(h)',
           Locker(h)' /\ role'[req'[h].role].mutable =>
               \A o \in Handlers \ {h} : ~(Locker(o) /\ req[o].role = req'[h].role)
    PROVE  Inv'
<1>1. HandlersRely'
    <2>1. ASSUME NEW o \in Handlers \ {h}, Locker(o), role[req[o].role].there
          PROVE  /\ role'[req[o].role].there
                 /\ role'[req[o].role].mutable = role[req[o].role].mutable
                 /\ role'[req[o].role].scopes = role[req[o].role].scopes
        <3>1. req[o].role \in Roles
            BY <2>1 DEF Inv, HandlersRely, Writing, Locker, RoleSteps
        <3> QED
            BY <2>1, <3>1 DEF RolesKept, Inv, RolesLocked
    <2> QED
        BY <2>1, Frame DEF HandlersRely
<1>2. RolesLocked'
    <2> SUFFICES ASSUME NEW a \in Handlers, NEW b \in Handlers, a # b,
                        Locker(a)', Locker(b)', req'[a].role = req'[b].role,
                        role'[req'[a].role].mutable
                 PROVE  FALSE
        BY DEF RolesLocked
    <2>1. CASE a = h \/ b = h
        BY <2>1 DEF Locker
    <2>2. CASE a # h /\ b # h
        <3>1. req'[a] = req[a] /\ req'[b] = req[b] /\ Writing(a) /\ Locker(a) /\ Locker(b)
            BY <2>2 DEF Inv, HandlersRely, Locker
        <3>2. req[a].role \in Roles /\ role[req[a].role].there
            BY <3>1 DEF Writing, Locker, RoleSteps
        <3>3. role[req[a].role].mutable
            BY <3>1, <3>2 DEF RolesKept
        <3> QED
            BY <3>1, <3>3 DEF Inv, RolesLocked
    <2> QED
        BY <2>1, <2>2
<1> QED
    BY <1>1, <1>2 DEF Inv

LEMMA IdleType ==
    /\ Idle \in Request /\ Idle.pc = "idle" /\ Idle.strict
    /\ Idle.oav = 0 /\ Idle.mav = 0
BY DEF Idle, Request, Places, Levels

(* A handler that has nothing to do relies on nothing. *)
LEMMA DoneFits ==
    ASSUME Inv, NEW h \in Handlers, Done(h)
    PROVE  /\ req' \in [Handlers -> Request]
           /\ req'[h] = Idle /\ \A o \in Handlers \ {h} : req'[o] = req[o]
           /\ Candidates(h)' /\ Resolving(h)' /\ Writing(h)' /\ ~Locker(h)'
<1>1. Idle \in Request /\ Idle.pc = "idle"
    BY IdleType
<1>2. /\ req' \in [Handlers -> Request]
      /\ req'[h] = Idle /\ \A o \in Handlers \ {h} : req'[o] = req[o]
    BY <1>1 DEF Done, Inv, TypeOK
<1> QED
    BY <1>1, <1>2 DEF Candidates, Resolving, Writing, Locker, ClientSteps, RoleSteps

(* Tables that stay as they are. *)
LEMMA TablesFrame ==
    ASSUME Inv, UNCHANGED <<now, tables, tokens>>, req' \in [Handlers -> Request],
           NEW h \in Handlers
    PROVE  TypeOK' /\ Versioned /\ RolesKept(h) /\ SessionsOfMembers' /\ TokensEarned'
<1>1. TypeOK' /\ SessionsOfMembers'
    BY DEF Inv, TypeOK, tables, SessionsOfMembers
<1>2. Versioned /\ RolesKept(h)
    BY <1>1 DEF Inv, TypeOK, tables, Versioned, RolesKept
<1> QED
    BY <1>1, <1>2, TokensFrame

(* Steps of one handler that change no table. *)
LEMMA MoveInv ==
    ASSUME Inv, NEW h \in Handlers, UNCHANGED <<now, tables, tokens>>,
           req' \in [Handlers -> Request], \A o \in Handlers \ {h} : req'[o] = req[o],
           Candidates(h)', Resolving(h)', Writing(h)',
           Locker(h)' /\ role'[req'[h].role].mutable =>
               \A o \in Handlers \ {h} : ~(Locker(o) /\ req[o].role = req'[h].role)
    PROVE  Inv'
BY TablesFrame, Combine

LEMMA DoneInv ==
    ASSUME Inv, NEW h \in Handlers, UNCHANGED <<now, tables, tokens>>, Done(h)
    PROVE  Inv'
BY DoneFits, MoveInv

(* Steps of no handler, which change no role. *)
LEMMA StillInv ==
    ASSUME Inv, TypeOK', Versioned, SessionsOfMembers', UNCHANGED <<role, tokens, req>>
    PROVE  Inv'
<1>1. HandlersRely'
    BY Frame DEF HandlersRely
<1>2. RolesLocked'
    BY DEF Inv, RolesLocked, Locker
<1> QED
    BY <1>1, <1>2, TokensFrame DEF Inv

-----------------------------------------------------------------------------
(* resolveContext. *)

(* What is bound now was bound before, as far as expires_at goes. *)
LEMMA EarlierIsMore ==
    ASSUME Inv, NEW m \in Members, NEW ctx \in Contexts, NEW t \in Nat, NEW u \in Nat, t <= u
    PROVE  ScopesOf(EffectiveRoles(m, ctx, u)) \subseteq ScopesOf(EffectiveRoles(m, ctx, t))
<1>1. \A r \in Roles, p \in Places : Bound(m, r, p, u) => Bound(m, r, p, t)
    <2> SUFFICES ASSUME NEW r \in Roles, NEW p \in Places, Bound(m, r, p, u)
                 PROVE  Bound(m, r, p, t)
        OBVIOUS
    <2>1. binding[m][<<r, p>>] \in Nat
        BY DEF Inv, TypeOK
    <2> QED
        BY <2>1 DEF Bound
<1>2. EffectiveRoles(m, ctx, u) \subseteq EffectiveRoles(m, ctx, t)
    BY <1>1 DEF EffectiveRoles, Places
<1> QED
    BY <1>2 DEF ScopesOf

(* A handler that resolves a context is about one of its candidates. *)
LEMMA TargetType ==
    ASSUME Inv, NEW h \in Handlers, req[h].pc \in ClientSteps \ {"view", "downgrade"}
    PROVE  Target(h) \in Contexts /\ req[h].tries \in Seq(Contexts) /\ req[h].tries # <<>>
<1>1. req[h].tries \in Seq(Contexts) /\ req[h].tries # <<>>
    BY DEF Inv, TypeOK, Request, HandlersRely, Candidates
<1> QED
    BY <1>1 DEF Target

(* A login that tries its next candidate has one: only the last is the     *)
(* identity, which needs nothing.                                          *)
LEMMA NextCandidate ==
    ASSUME NEW tries \in Seq(Contexts), tries # <<>>, Head(tries) # "identity",
           tries[Len(tries)] = "identity"
    PROVE  /\ Tail(tries) \in Seq(Contexts) /\ Tail(tries) # <<>>
           /\ Tail(tries)[Len(Tail(tries))] = "identity"
<1>1. Len(tries) > 1 /\ Head(tries) = tries[1]
    OBVIOUS
<1>2. Tail(tries) \in Seq(Contexts) /\ Len(Tail(tries)) = Len(tries) - 1
    OBVIOUS
<1>3. Tail(tries)[Len(Tail(tries))] = tries[Len(tries)]
    BY <1>1, <1>2
<1>4. Tail(tries) # <<>>
    <2> PICK rest : rest = Tail(tries)
        OBVIOUS
    <2>1. rest \in Seq(Contexts) /\ Len(rest) = Len(tries) - 1
        BY <1>2
    <2>2. Len(rest) # 0
        BY <1>1, <2>1
    <2>3. rest = <<>> => Len(rest) = 0
        OBVIOUS
    <2> QED
        BY <2>2, <2>3
<1> QED
    BY <1>2, <1>3, <1>4

LEMMA UnresolvedInv ==
    ASSUME Inv, NEW h \in Handlers, req[h].pc \in {"membership", "store", "scopes"},
           Target(h) # "identity", Unresolved(h), UNCHANGED <<now, tables, tokens>>
    PROVE  Inv'
<1>1. /\ req[h] \in Request /\ Candidates(h) /\ Resolving(h)
      /\ req[h].pc \in ClientSteps \ {"view", "downgrade"}
    BY DEF Inv, TypeOK, HandlersRely, ClientSteps
<1>2. CASE req[h].op = "login" /\ ~req[h].strict
    <2>1. /\ req[h].tries \in Seq(Contexts) /\ req[h].tries # <<>>
          /\ req[h].tries[Len(req[h].tries)] = "identity" /\ Head(req[h].tries) # "identity"
        BY <1>1, <1>2, TargetType DEF Candidates, Target
    <2>2. /\ Tail(req[h].tries) \in Seq(Contexts) /\ Tail(req[h].tries) # <<>>
          /\ Tail(req[h].tries)[Len(Tail(req[h].tries))] = "identity"
        BY <2>1, NextCandidate
    <2> DEFINE x == [req[h] EXCEPT !.pc = "membership", !.tries = Tail(@)]
    <2>3. /\ x \in Request /\ x.pc = "membership" /\ x.tries = Tail(req[h].tries)
          /\ x.actor = req[h].actor /\ x.op = "login" /\ x.oav = req[h].oav /\ x.mav = req[h].mav
        BY <1>1, <1>2, <2>2 DEF Request, ClientSteps
    <2>4. req' = [req EXCEPT ![h] = x]
        BY <1>2 DEF Unresolved
    <2> HIDE DEF x
    <2>5. /\ req' \in [Handlers -> Request] /\ req'[h] = x
          /\ \A o \in Handlers \ {h} : req'[o] = req[o]
        BY <2>3, <2>4 DEF Inv, TypeOK
    <2>6. Candidates(h)'
        BY <2>2, <2>3, <2>5 DEF Candidates
    <2>7. Resolving(h)'
        BY <1>1, <2>3, <2>5 DEF Resolving, ReadBy, Read, tables, ClientOps, ClientSteps
    <2>8. Writing(h)' /\ ~Locker(h)'
        BY <2>3, <2>5 DEF Writing, Locker, RoleSteps
    <2> QED
        BY <2>5, <2>6, <2>7, <2>8, MoveInv
<1>3. CASE ~(req[h].op = "login" /\ ~req[h].strict) /\ req[h].op = "load" /\ ~req[h].strict
    <2> DEFINE x == [req[h] EXCEPT !.pc = "downgrade"]
    <2>1. /\ x \in Request /\ x.pc = "downgrade" /\ x.session = req[h].session
          /\ x.actor = req[h].actor /\ x.op = "load" /\ x.oav = req[h].oav /\ x.mav = req[h].mav
        BY <1>1, <1>3 DEF Request, ClientSteps
    <2>2. req' = [req EXCEPT ![h] = x]
        BY <1>3 DEF Unresolved, Goto
    <2> HIDE DEF x
    <2>3. /\ req' \in [Handlers -> Request] /\ req'[h] = x
          /\ \A o \in Handlers \ {h} : req'[o] = req[o]
        BY <2>1, <2>2 DEF Inv, TypeOK
    <2>4. Candidates(h)' /\ Writing(h)' /\ ~Locker(h)'
        BY <2>1, <2>3 DEF Candidates, Writing, Locker, RoleSteps
    <2>5. Resolving(h)'
        BY <1>1, <1>3, <2>1, <2>3 DEF Resolving, ReadBy, Read, tables, ClientOps, ClientSteps
    <2> QED
        BY <2>3, <2>4, <2>5, MoveInv
<1>4. CASE ~(req[h].op = "login" /\ ~req[h].strict) /\ ~(req[h].op = "load" /\ ~req[h].strict)
    BY <1>4, DoneInv DEF Unresolved
<1> QED
    BY <1>2, <1>3, <1>4

(* Where a handler goes from the last statement of resolveContext. *)
LEMMA AfterResolveIs ==
    ASSUME NEW op \in ClientOps
    PROVE  /\ AfterResolve(op) \in {"open", "update", "issue"}
           /\ AfterResolve(op) \in ClientSteps \ {"view", "downgrade"}
           /\ AfterResolve(op) \notin RoleSteps
           /\ AfterResolve(op) # "open" => op # "login"
BY DEF AfterResolve, ClientOps, ClientSteps, RoleSteps

LEMMA ResolveMembershipInv ==
    ASSUME Inv, NEW h \in Handlers, ResolveMembership(h)
    PROVE  Inv'
<1>1. /\ req[h] \in Request /\ Candidates(h) /\ Resolving(h) /\ req[h].pc = "membership"
      /\ UNCHANGED <<now, tables, tokens>>
    BY DEF Inv, TypeOK, HandlersRely, ResolveMembership
<1>2. req[h].actor \in Members /\ req[h].op \in ClientOps /\ (req[h].op # "login" => req[h].session \in Sessions)
    BY <1>1 DEF Resolving, ClientSteps
<1>3. now \in Nat /\ organization.version \in Nat /\ member[req[h].actor].version \in Nat
    BY <1>2 DEF Inv, TypeOK
<1>4. CASE Target(h) = "identity"
    <2> DEFINE x == [req[h] EXCEPT !.pc = AfterResolve(req[h].op), !.scopes = {},
                                   !.oav = 0, !.mav = 0, !.at = now]
    <2>1. /\ x \in Request /\ x.pc = AfterResolve(req[h].op) /\ x.scopes = {}
          /\ x.oav = 0 /\ x.mav = 0 /\ x.actor = req[h].actor /\ x.op = req[h].op
          /\ x.session = req[h].session /\ x.tries = req[h].tries /\ x.strict = req[h].strict
        BY <1>1, <1>2, <1>3, AfterResolveIs DEF Request, ClientSteps
    <2>2. req' = [req EXCEPT ![h] = x]
        BY <1>4 DEF ResolveMembership
    <2> HIDE DEF x
    <2>3. /\ req' \in [Handlers -> Request] /\ req'[h] = x
          /\ \A o \in Handlers \ {h} : req'[o] = req[o]
        BY <2>1, <2>2 DEF Inv, TypeOK
    <2>4. Candidates(h)' /\ Writing(h)' /\ ~Locker(h)'
        BY <1>1, <1>2, <2>1, <2>3, AfterResolveIs DEF Candidates, Writing, Locker, RoleSteps, ClientSteps
    <2>5. Resolving(h)'
        BY <1>1, <1>2, <1>3, <1>4, <2>1, <2>3, AfterResolveIs DEF Resolving, ReadBy, Read, tables, Target
    <2> QED
        BY <1>1, <2>3, <2>4, <2>5, MoveInv
<1>5. CASE Target(h) # "identity" /\ ~GetMembershipContextForUser(req[h].actor).active
    BY <1>1, <1>5, UnresolvedInv DEF ResolveMembership
<1>6. CASE Target(h) # "identity" /\ GetMembershipContextForUser(req[h].actor).active
    <2> DEFINE nextPc == IF Target(h) \in Stores THEN "store" ELSE "scopes"
               version == organization.version
               ownVersion == member[req[h].actor].version
               x == [req[h] EXCEPT !.pc = nextPc, !.oav = version, !.mav = ownVersion, !.at = now]
    <2>1. /\ nextPc \in {"store", "scopes"} /\ (nextPc = "store" <=> Target(h) \in Stores)
          /\ version \in Nat /\ ownVersion \in Nat
        BY <1>3
    <2>2. req' = [req EXCEPT ![h] = x]
        BY <1>6 DEF ResolveMembership, GetMembershipContextForUser
    <2> HIDE DEF nextPc, version, ownVersion
    <2>3. /\ x \in Request /\ x.pc = nextPc /\ x.oav = version /\ x.mav = ownVersion
          /\ x.actor = req[h].actor /\ x.op = req[h].op /\ x.at = now
          /\ x.session = req[h].session /\ x.tries = req[h].tries /\ x.strict = req[h].strict
        <3>1. /\ req[h] \in Request /\ now \in Nat /\ version \in Nat /\ ownVersion \in Nat
              /\ nextPc \in ClientSteps
            BY <1>1, <1>3, <2>1 DEF ClientSteps
        <3> QED
            BY <3>1 DEF Request
    <2> HIDE DEF x
    <2>4. /\ req' \in [Handlers -> Request] /\ req'[h] = x
          /\ \A o \in Handlers \ {h} : req'[o] = req[o]
        BY <2>3, <2>2 DEF Inv, TypeOK
    <2>5. Candidates(h)' /\ Writing(h)' /\ ~Locker(h)'
        BY <1>1, <2>1, <2>3, <2>4 DEF Candidates, Writing, Locker, RoleSteps, ClientSteps
    <2>6. Resolving(h)'
        BY <1>1, <1>2, <1>3, <1>6, <2>1, <2>3, <2>4
        DEF Resolving, ReadBy, Read, tables, Target, WelcomeIn, ClientSteps, version, ownVersion
    <2> QED
        BY <1>1, <2>4, <2>5, <2>6, MoveInv
<1> QED
    BY <1>4, <1>5, <1>6

LEMMA ResolveStoreInv ==
    ASSUME Inv, NEW h \in Handlers, ResolveStore(h)
    PROVE  Inv'
<1>1. /\ req[h] \in Request /\ Candidates(h) /\ Resolving(h) /\ req[h].pc = "store"
      /\ UNCHANGED <<now, tables, tokens>>
    BY DEF Inv, TypeOK, HandlersRely, ResolveStore
<1>2. /\ req[h].actor \in Members /\ req[h].op \in ClientOps /\ ReadBy(h)
      /\ req[h].op # "login" => req[h].session \in Sessions
      /\ Target(h) # "identity" /\ req[h].at <= now /\ req[h].at \in Nat /\ now \in Nat
    BY <1>1 DEF Resolving, ClientSteps, Request, Inv, TypeOK
<1>3. CASE /\ GetStoreForOrganization(Target(h))
           /\ Target(h) \in ListStoresForMembership(req[h].actor, now)
    <2> DEFINE x == [req[h] EXCEPT !.pc = "scopes"]
    <2>1. /\ x \in Request /\ x.pc = "scopes" /\ x.oav = req[h].oav /\ x.mav = req[h].mav
          /\ x.actor = req[h].actor /\ x.op = req[h].op /\ x.at = req[h].at
          /\ x.session = req[h].session /\ x.tries = req[h].tries /\ x.strict = req[h].strict
        BY <1>1 DEF Request, ClientSteps
    <2>2. req' = [req EXCEPT ![h] = x]
        BY <1>3 DEF ResolveStore, Goto
    <2> HIDE DEF x
    <2>3. /\ req' \in [Handlers -> Request] /\ req'[h] = x
          /\ \A o \in Handlers \ {h} : req'[o] = req[o]
        BY <2>1, <2>2 DEF Inv, TypeOK
    <2>4. Candidates(h)' /\ Writing(h)' /\ ~Locker(h)'
        BY <1>1, <2>1, <2>3 DEF Candidates, Writing, Locker, RoleSteps, ClientSteps
    <2>5. WelcomeIn(req[h].actor, Target(h), req[h].at)
        <3>1. Target(h) \in Contexts
            BY <1>1, TargetType DEF ClientSteps
        <3>2. ScopesOf(EffectiveRoles(req[h].actor, Target(h), now))
                  \subseteq ScopesOf(EffectiveRoles(req[h].actor, Target(h), req[h].at))
            BY <1>2, <3>1, EarlierIsMore
        <3>3. ScopesOf(EffectiveRoles(req[h].actor, Target(h), now)) \cap StoreScopes # {}
            BY <1>3 DEF ListStoresForMembership
        <3> QED
            BY <3>2, <3>3 DEF WelcomeIn
    <2>6. WelcomeIn(req[h].actor, Target(h), req[h].at)'
        <3> PICK m, ctx, t : m = req[h].actor /\ ctx = Target(h) /\ t = req[h].at
            OBVIOUS
        <3>1. WelcomeIn(m, ctx, t)' <=> WelcomeIn(m, ctx, t)
            BY <1>1, EarnedFrame DEF tables
        <3> QED
            BY <2>1, <2>3, <2>5, <3>1 DEF Target
    <2>7. Resolving(h)'
        BY <1>1, <1>2, <2>1, <2>3, <2>6
        DEF Resolving, ReadBy, Read, tables, Target
    <2> QED
        BY <1>1, <2>3, <2>4, <2>7, MoveInv
<1>4. CASE ~(/\ GetStoreForOrganization(Target(h))
             /\ Target(h) \in ListStoresForMembership(req[h].actor, now))
    BY <1>1, <1>2, <1>4, UnresolvedInv DEF ResolveStore
<1> QED
    BY <1>3, <1>4

LEMMA ResolveScopesInv ==
    ASSUME Inv, NEW h \in Handlers, ResolveScopes(h)
    PROVE  Inv'
<1>1. /\ req[h] \in Request /\ Candidates(h) /\ Resolving(h) /\ req[h].pc = "scopes"
      /\ UNCHANGED <<now, tables, tokens>>
    BY DEF Inv, TypeOK, HandlersRely, ResolveScopes
<1>2. /\ req[h].actor \in Members /\ req[h].op \in ClientOps /\ ReadBy(h)
      /\ req[h].op # "login" => req[h].session \in Sessions
      /\ Target(h) # "identity" /\ req[h].at <= now /\ req[h].at \in Nat /\ now \in Nat
      /\ CurrentAt(h) => WelcomeIn(req[h].actor, Target(h), req[h].at)
    BY <1>1 DEF Resolving, ClientSteps, Request, Inv, TypeOK
<1>3. CASE ValidContext(req[h].actor, Target(h))
    <2> DEFINE scopes == ResolveEffectiveScopes(req[h].actor, Target(h), now)
               x == [req[h] EXCEPT !.pc = AfterResolve(req[h].op), !.scopes = scopes]
    <2>1. Target(h) \in Contexts
        BY <1>1, TargetType DEF ClientSteps
    <2>2. /\ scopes \in SUBSET Codes
          /\ scopes \subseteq ScopesOf(EffectiveRoles(req[h].actor, Target(h), now))
                                  \cap (IF Target(h) \in Stores THEN Scopes ELSE OrganizationScopes)
        BY <1>3 DEF ResolveEffectiveScopes, Codes, Scopes
    <2>3. /\ scopes \subseteq ScopesOf(EffectiveRoles(req[h].actor, Target(h), req[h].at))
                                  \cap (IF Target(h) \in Stores THEN Scopes ELSE OrganizationScopes)
        <3>1. ScopesOf(EffectiveRoles(req[h].actor, Target(h), now))
                  \subseteq ScopesOf(EffectiveRoles(req[h].actor, Target(h), req[h].at))
            BY <1>2, <2>1, EarlierIsMore
        <3> HIDE DEF scopes
        <3> QED
            BY <2>2, <3>1
    <2>4. req' = [req EXCEPT ![h] = x]
        BY <1>3 DEF ResolveScopes
    <2> HIDE DEF scopes
    <2>5. /\ x \in Request /\ x.pc = AfterResolve(req[h].op) /\ x.scopes = scopes
          /\ x.oav = req[h].oav /\ x.mav = req[h].mav
          /\ x.actor = req[h].actor /\ x.op = req[h].op /\ x.at = req[h].at
          /\ x.session = req[h].session /\ x.tries = req[h].tries /\ x.strict = req[h].strict
        BY <1>1, <1>2, <2>2, AfterResolveIs DEF Request, ClientSteps
    <2> HIDE DEF x
    <2>6. /\ req' \in [Handlers -> Request] /\ req'[h] = x
          /\ \A o \in Handlers \ {h} : req'[o] = req[o]
        BY <2>4, <2>5 DEF Inv, TypeOK
    <2>7. Candidates(h)' /\ Writing(h)' /\ ~Locker(h)'
        BY <1>1, <1>2, <2>5, <2>6, AfterResolveIs DEF Candidates, Writing, Locker, RoleSteps, ClientSteps
    <2>8. CurrentAt(h) => Earned(req[h].actor, Target(h), scopes, req[h].at)
        BY <1>2, <2>3 DEF Earned
    <2>9. CurrentAt(h)' => Earned(req[h].actor, Target(h), req[h].scopes, req[h].at)'
        <3>1. CurrentAt(h)' => CurrentAt(h)
            BY <1>1, <2>5, <2>6 DEF CurrentAt, Current, tables
        <3> PICK m, ctx, t, new :
                m = req[h].actor /\ ctx = Target(h) /\ t = req[h].at /\ new = scopes
            OBVIOUS
        <3>2. Earned(m, ctx, new, t) <=> Earned(m, ctx, new, t)'
            BY <1>1, EarnedFrame DEF tables
        <3> QED
            BY <2>5, <2>6, <2>8, <3>1, <3>2 DEF Target
    <2>10. Resolving(h)'
        BY <1>1, <1>2, <2>5, <2>6, <2>9, AfterResolveIs
        DEF Resolving, ReadBy, Read, tables, Target
    <2> QED
        BY <1>1, <2>6, <2>7, <2>10, MoveInv
<1>4. CASE ~ValidContext(req[h].actor, Target(h))
    BY <1>1, <1>2, <1>4, UnresolvedInv DEF ResolveScopes
<1> QED
    BY <1>3, <1>4

-----------------------------------------------------------------------------
(* Login, refresh and change of context. *)

(* Tables that no handler relies on may change. *)
LEMMA SessionFrame ==
    ASSUME Inv, NEW h \in Handlers, req' \in [Handlers -> Request],
           session' \in [Sessions -> SessionRow], tokens' \subseteq Token,
           UNCHANGED <<now, organization, member, store, role, binding>>
    PROVE  TypeOK' /\ Versioned /\ RolesKept(h)
<1>1. TypeOK'
    BY DEF Inv, TypeOK
<1>2. /\ now \in Nat /\ organization.version \in Nat
      /\ \A m \in Members : member[m].version \in Nat
    BY DEF Inv, TypeOK
<1>3. Versioned
    BY <1>2 DEF Versioned
<1> QED
    BY <1>1, <1>3 DEF RolesKept

(* A handler that starts, or starts over. *)
LEMMA StartInv ==
    ASSUME Inv, NEW h \in Handlers, NEW x \in Request, req' = [req EXCEPT ![h] = x],
           session' \in [Sessions -> SessionRow], SessionsOfMembers',
           UNCHANGED <<now, organization, member, store, role, binding, tokens>>,
           x.pc \in {"membership", "view"}, x.actor \in Members, x.op \in ClientOps,
           x.op # "login" => x.session \in Sessions,
           x.pc = "view" => x.op # "login",
           Read(x.actor, x.oav, x.mav),
           x.pc = "membership" =>
               /\ x.tries # <<>>
               /\ x.op = "login" /\ ~x.strict => x.tries[Len(x.tries)] = "identity"
    PROVE  Inv'
<1>1. /\ req' \in [Handlers -> Request] /\ req'[h] = x
      /\ \A o \in Handlers \ {h} : req'[o] = req[o]
    BY DEF Inv, TypeOK
<1>2. TypeOK' /\ Versioned /\ RolesKept(h)
    BY <1>1, SessionFrame DEF Inv, TypeOK
<1>3. TokensEarned'
    BY <1>2, TokensFrame
<1>4. Candidates(h)' /\ Writing(h)' /\ ~Locker(h)'
    BY <1>1 DEF Candidates, Writing, Locker, RoleSteps, ClientSteps
<1>5. Resolving(h)'
    BY <1>1 DEF Resolving, ReadBy, Read, ClientSteps
<1> QED
    BY <1>1, <1>2, <1>3, <1>4, <1>5, Combine

LEMMA ZeroRead ==
    ASSUME Inv, NEW m \in Members
    PROVE  Read(m, 0, 0)
<1>1. organization.version \in Nat /\ member[m].version \in Nat
    BY DEF Inv, TypeOK
<1> QED
    BY <1>1 DEF Read

LEMMA StartLoginInv ==
    ASSUME Inv, NEW h \in Handlers, NEW m \in Members, StartLogin(h, m)
    PROVE  Inv'
<1> PICK asked \in {"organization"} \cup Stores :
        req' = [req EXCEPT ![h] = [Idle EXCEPT !.pc = "membership", !.op = "login", !.actor = m,
                                               !.tries = <<asked>>]]
    BY DEF StartLogin
<1> PICK x : x = [Idle EXCEPT !.pc = "membership", !.op = "login", !.actor = m, !.tries = <<asked>>]
    OBVIOUS
<1>1. <<asked>> \in Seq(Contexts) /\ <<asked>> # <<>>
    BY DEF Contexts
<1>2. /\ x \in Request /\ x.pc = "membership" /\ x.actor = m /\ x.op = "login"
      /\ x.oav = 0 /\ x.mav = 0 /\ x.tries = <<asked>> /\ x.strict
    BY <1>1, IdleType DEF Request, ClientSteps, ClientOps
<1>3. UNCHANGED <<now, tables, tokens>>
    BY DEF StartLogin
<1>4. /\ session' \in [Sessions -> SessionRow] /\ SessionsOfMembers'
      /\ UNCHANGED <<now, organization, member, store, role, binding, tokens>>
    BY <1>3 DEF tables, Inv, TypeOK, SessionsOfMembers
<1>5. x.op \in ClientOps
    BY <1>2 DEF ClientOps
<1> QED
    BY <1>1, <1>2, <1>4, <1>5, StartInv, ZeroRead

(* The candidates of a login end with the identity. *)
LEMMA EndsWithIdentity ==
    ASSUME NEW some \in Seq(Contexts)
    PROVE  LET tries == some \o <<"identity">>
           IN  tries \in Seq(Contexts) /\ tries # <<>> /\ tries[Len(tries)] = "identity"
<1>1. <<"identity">> \in Seq(Contexts) /\ Len(<<"identity">>) = 1
    BY DEF Contexts
<1> PICK tries : tries = some \o <<"identity">>
    OBVIOUS
<1>2. tries \in Seq(Contexts) /\ Len(tries) = Len(some) + 1 /\ Len(some) \in Nat
    BY <1>1
<1>3. tries[Len(tries)] = "identity"
    BY <1>1, <1>2
<1>4. Len(tries) # 0
    BY <1>2
<1>5. tries = <<>> => Len(tries) = 0
    OBVIOUS
<1> QED
    BY <1>2, <1>3, <1>4, <1>5

LEMMA resolveLoginContextInv ==
    ASSUME Inv, NEW h \in Handlers, NEW m \in Members, resolveLoginContext(h, m)
    PROVE  Inv'
<1> PICK last \in {<<>>} \cup GetLastActiveSessionContextForClient(m),
         memberships \in ListUserActiveMemberships :
        req' = [req EXCEPT ![h] =
                    [Idle EXCEPT !.pc = "membership", !.op = "login", !.actor = m, !.strict = FALSE,
                                 !.tries = last \o memberships \o <<"identity">>]]
    BY DEF resolveLoginContext
<1>1. last \in Seq(Contexts)
    <2>1. \A s \in Sessions : session[s].ctx \in Contexts
        BY DEF Inv, TypeOK, SessionRow
    <2>2. CASE last = <<>>
        BY <2>2
    <2>3. CASE last # <<>>
        <3> PICK s \in Sessions : last = <<session[s].ctx>>
            BY <2>3 DEF GetLastActiveSessionContextForClient
        <3> PICK ctx : ctx = session[s].ctx
            OBVIOUS
        <3> QED
            BY <2>1
    <2> QED
        BY <2>2, <2>3
<1>2. memberships \in Seq(Contexts)
    <2> PICK default \in {<<>>} \cup {<<s>> : s \in Stores} : memberships = default \o <<"organization">>
        BY DEF ListUserActiveMemberships
    <2>1. <<"organization">> \in Seq(Contexts)
        BY DEF Contexts
    <2>2. CASE default = <<>>
        BY <2>1, <2>2
    <2>3. CASE default # <<>>
        <3> PICK s \in Stores : default = <<s>>
            BY <2>3
        <3>1. default \in Seq(Contexts)
            BY DEF Contexts
        <3> QED
            BY <2>1, <3>1
    <2> QED
        BY <2>2, <2>3
<1> PICK tries : tries = last \o memberships \o <<"identity">>
    OBVIOUS
<1>3. tries \in Seq(Contexts) /\ tries # <<>> /\ tries[Len(tries)] = "identity"
    <2>1. last \o memberships \in Seq(Contexts)
        BY <1>1, <1>2
    <2> QED
        BY <2>1, EndsWithIdentity
<1> PICK x : x = [Idle EXCEPT !.pc = "membership", !.op = "login", !.actor = m, !.strict = FALSE,
                              !.tries = tries]
    OBVIOUS
<1>4. /\ x \in Request /\ x.pc = "membership" /\ x.actor = m /\ x.op = "login"
      /\ x.oav = 0 /\ x.mav = 0 /\ x.tries = tries
    BY <1>3, IdleType DEF Request, ClientSteps, ClientOps
<1>5. UNCHANGED <<now, tables, tokens>>
    BY DEF resolveLoginContext
<1>6. /\ session' \in [Sessions -> SessionRow] /\ SessionsOfMembers'
      /\ UNCHANGED <<now, organization, member, store, role, binding, tokens>>
    BY <1>5 DEF tables, Inv, TypeOK, SessionsOfMembers
<1>7. x.op \in ClientOps
    BY <1>4 DEF ClientOps
<1> QED
    BY <1>3, <1>4, <1>6, <1>7, StartInv, ZeroRead

LEMMA SwitchContextInv ==
    ASSUME Inv, NEW h \in Handlers, NEW s \in Sessions, NEW ctx \in Contexts, SwitchContext(h, s, ctx)
    PROVE  Inv'
<1> PICK m : m = session[s].user
    OBVIOUS
<1> PICK x : x = [Idle EXCEPT !.pc = "membership", !.op = "switch", !.session = s,
                              !.actor = m, !.tries = <<ctx>>]
    OBVIOUS
<1>1. m \in Members /\ <<ctx>> \in Seq(Contexts)
    BY DEF SwitchContext, Inv, SessionsOfMembers
<1>2. /\ x \in Request /\ x.pc = "membership" /\ x.actor = m /\ x.op = "switch"
      /\ x.oav = 0 /\ x.mav = 0 /\ x.tries = <<ctx>> /\ x.session = s
    BY <1>1, IdleType DEF Request, ClientSteps, ClientOps
<1>3. UNCHANGED <<now, tables, tokens>> /\ req' = [req EXCEPT ![h] = x]
    BY DEF SwitchContext
<1>4. /\ session' \in [Sessions -> SessionRow] /\ SessionsOfMembers'
      /\ UNCHANGED <<now, organization, member, store, role, binding, tokens>>
    BY <1>3 DEF tables, Inv, TypeOK, SessionsOfMembers
<1>5. x.op \in ClientOps /\ <<ctx>> # <<>>
    BY <1>2 DEF ClientOps
<1> QED
    BY <1>1, <1>2, <1>3, <1>4, <1>5, StartInv, ZeroRead

LEMMA RefreshInv ==
    ASSUME Inv, NEW h \in Handlers, NEW s \in Sessions, Refresh(h, s)
    PROVE  Inv'
<1> PICK m : m = session[s].user
    OBVIOUS
<1> PICK x : x = [Idle EXCEPT !.pc = "view", !.op = "load", !.session = s,
                              !.actor = m, !.strict = FALSE]
    OBVIOUS
<1>1. m \in Members
    BY DEF Refresh, Inv, SessionsOfMembers
<1>2. /\ x \in Request /\ x.pc = "view" /\ x.actor = m /\ x.op = "load"
      /\ x.oav = 0 /\ x.mav = 0 /\ x.session = s
    BY <1>1, IdleType DEF Request, ClientSteps, ClientOps
<1>3. UNCHANGED <<now, tables, tokens>> /\ req' = [req EXCEPT ![h] = x]
    BY DEF Refresh
<1>4. /\ session' \in [Sessions -> SessionRow] /\ SessionsOfMembers'
      /\ UNCHANGED <<now, organization, member, store, role, binding, tokens>>
    BY <1>3 DEF tables, Inv, TypeOK, SessionsOfMembers
<1>5. x.op \in ClientOps
    BY <1>2 DEF ClientOps
<1> QED
    BY <1>1, <1>2, <1>3, <1>4, <1>5, StartInv, ZeroRead

(* Its session, for a handler that has one. *)
LEMMA OnSession ==
    ASSUME Inv, NEW h \in Handlers, req[h].pc \in ClientSteps
    PROVE  /\ req[h] \in Request /\ req[h].actor \in Members /\ req[h].op \in ClientOps
           /\ Read(req[h].actor, req[h].oav, req[h].mav)
           /\ req[h].pc \in {"update", "view", "downgrade", "issue"} =>
                  /\ req[h].session \in Sessions /\ session[req[h].session] \in SessionRow
                  /\ req[h].op # "login"
BY DEF Inv, TypeOK, HandlersRely, Resolving, ReadBy

(* Another context leaves the session with its user. *)
LEMMA ContextChanged ==
    ASSUME Inv, NEW s \in Sessions, NEW ctx \in Contexts,
           session' = [session EXCEPT ![s].ctx = ctx]
    PROVE  session' \in [Sessions -> SessionRow] /\ SessionsOfMembers'
<1>1. \A z \in Sessions : session[z] \in SessionRow
    BY DEF Inv, TypeOK
<1>2. session' = [session EXCEPT ![s] = [session[s] EXCEPT !.ctx = ctx]]
    OBVIOUS
<1> PICK row : row = [session[s] EXCEPT !.ctx = ctx]
    OBVIOUS
<1>3. row \in SessionRow /\ row.user = session[s].user /\ row.status = session[s].status
    BY <1>1 DEF SessionRow
<1>4. /\ session' \in [Sessions -> SessionRow] /\ session'[s] = row
      /\ \A z \in Sessions \ {s} : session'[z] = session[z]
    BY <1>2, <1>3 DEF Inv, TypeOK
<1> QED
    BY <1>3, <1>4 DEF Inv, SessionsOfMembers

LEMMA UpdateSessionContextInv ==
    ASSUME Inv, NEW h \in Handlers, UpdateSessionContext(h)
    PROVE  Inv'
<1> PICK x : x = [req[h] EXCEPT !.pc = "view", !.op = "load"]
    OBVIOUS
<1>1. req[h].pc = "update" /\ req[h].pc \in ClientSteps \ {"view", "downgrade"}
    BY DEF UpdateSessionContext, ClientSteps
<1>2. /\ req[h] \in Request /\ req[h].actor \in Members
      /\ Read(req[h].actor, req[h].oav, req[h].mav) /\ req[h].session \in Sessions
    BY <1>1, OnSession
<1>3. Target(h) \in Contexts
    BY <1>1, TargetType
<1>4. /\ x \in Request /\ x.pc = "view" /\ x.op = "load" /\ x.actor = req[h].actor
      /\ x.oav = req[h].oav /\ x.mav = req[h].mav /\ x.session = req[h].session
    BY <1>2 DEF Request, ClientSteps, ClientOps
<1>5. /\ session' = [session EXCEPT ![req[h].session].ctx = Target(h)]
      /\ req' = [req EXCEPT ![h] = x]
      /\ UNCHANGED <<now, organization, member, store, role, binding, tokens>>
    BY DEF UpdateSessionContext
<1>6. session' \in [Sessions -> SessionRow] /\ SessionsOfMembers'
    BY <1>2, <1>3, <1>5, ContextChanged
<1>7. x.op \in ClientOps
    BY <1>4 DEF ClientOps
<1> QED
    BY <1>2, <1>4, <1>5, <1>6, <1>7, StartInv

LEMMA loadStateInv ==
    ASSUME Inv, NEW h \in Handlers, loadState(h)
    PROVE  Inv'
<1>1. req[h].pc = "view" /\ req[h].pc \in ClientSteps /\ UNCHANGED <<now, tables, tokens>>
    BY DEF loadState, ClientSteps
<1>2. /\ req[h] \in Request /\ req[h].actor \in Members /\ req[h].op \in ClientOps \ {"login"}
      /\ Read(req[h].actor, req[h].oav, req[h].mav)
      /\ req[h].session \in Sessions /\ session[req[h].session] \in SessionRow
    BY <1>1, OnSession
<1>3. CASE session[req[h].session].status = "ACTIVE"
    <2> PICK ctx : ctx = session[req[h].session].ctx
        OBVIOUS
    <2>1. ctx \in Contexts
        BY <1>2 DEF SessionRow
    <2> PICK x : x = [req[h] EXCEPT !.pc = "membership", !.tries = <<ctx>>]
        OBVIOUS
    <2>2. <<ctx>> \in Seq(Contexts) /\ <<ctx>> # <<>>
        BY <2>1
    <2>3. /\ x \in Request /\ x.pc = "membership" /\ x.op = req[h].op /\ x.actor = req[h].actor
          /\ x.oav = req[h].oav /\ x.mav = req[h].mav /\ x.session = req[h].session
          /\ x.tries = <<ctx>>
        BY <1>2, <2>2 DEF Request, ClientSteps
    <2>4. req' = [req EXCEPT ![h] = x]
        BY <1>3 DEF loadState
    <2>5. /\ session' \in [Sessions -> SessionRow] /\ SessionsOfMembers'
          /\ UNCHANGED <<now, organization, member, store, role, binding, tokens>>
        BY <1>1 DEF tables, Inv, TypeOK, SessionsOfMembers
    <2> QED
        BY <1>2, <2>2, <2>3, <2>4, <2>5, StartInv
<1>4. CASE session[req[h].session].status # "ACTIVE"
    BY <1>1, <1>4, DoneInv DEF loadState
<1> QED
    BY <1>3, <1>4

LEMMA DowngradeInv ==
    ASSUME Inv, NEW h \in Handlers, Downgrade(h)
    PROVE  Inv'
<1>1. /\ req[h].pc = "downgrade" /\ req[h].pc \in ClientSteps
      /\ UNCHANGED <<now, organization, member, store, role, binding, tokens>>
    BY DEF Downgrade, ClientSteps
<1>2. /\ req[h] \in Request /\ req[h].actor \in Members /\ req[h].op \in ClientOps \ {"login"}
      /\ Read(req[h].actor, req[h].oav, req[h].mav) /\ req[h].session \in Sessions
    BY <1>1, OnSession
<1>3. CASE session[req[h].session].status = "ACTIVE"
    <2> PICK x : x = [req[h] EXCEPT !.pc = "view", !.strict = TRUE]
        OBVIOUS
    <2>1. /\ x \in Request /\ x.pc = "view" /\ x.op = req[h].op /\ x.actor = req[h].actor
          /\ x.oav = req[h].oav /\ x.mav = req[h].mav /\ x.session = req[h].session
        BY <1>2 DEF Request, ClientSteps
    <2>2. req' = [req EXCEPT ![h] = x]
        BY <1>3 DEF Downgrade
    <2>3. session' \in [Sessions -> SessionRow] /\ SessionsOfMembers'
        <3>1. session' = [session EXCEPT ![req[h].session].ctx = "identity"] /\ "identity" \in Contexts
            BY <1>3 DEF Downgrade, Contexts
        <3> QED
            BY <1>2, <3>1, ContextChanged
    <2> QED
        BY <1>1, <1>2, <2>1, <2>2, <2>3, StartInv
<1>4. CASE session[req[h].session].status # "ACTIVE"
    BY <1>1, <1>4, DoneInv DEF Downgrade, tables
<1> QED
    BY <1>3, <1>4

-----------------------------------------------------------------------------
(* Access tokens. *)

(* The token that is issued carries what was read. *)
LEMMA IssueEarned ==
    ASSUME Inv, NEW h \in Handlers, req[h].pc \in {"open", "issue"}, NEW s \in Sessions, issue(h, s),
           UNCHANGED <<now, organization, member, role, binding>>
    PROVE  tokens' \subseteq Token /\ TokensEarned'
<1>1. /\ req[h] \in Request /\ req[h].actor \in Members /\ Resolving(h)
      /\ Read(req[h].actor, req[h].oav, req[h].mav) /\ Target(h) \in Contexts
      /\ now \in Nat /\ TTL \in Nat
    BY OnSession, TargetType, BoundsNatural DEF ClientSteps, Inv, TypeOK, HandlersRely
<1> PICK c : c = Claims(h, s)
    OBVIOUS
<1>2. /\ c.member = req[h].actor /\ c.ctx = Target(h) /\ c.scopes = req[h].scopes
      /\ c.oav = req[h].oav /\ c.mav = req[h].mav /\ c.at = req[h].at
    BY DEF Claims
<1>3. c \in Token
    BY <1>1 DEF Claims, Token, Request
<1>4. \A t \in tokens' : t \in tokens \/ t = c
    BY DEF issue
<1>5. /\ Read(c.member, c.oav, c.mav)
      /\ c.ctx = "identity" => c.scopes = {}
      /\ c.ctx # "identity" /\ Current(c.member, c.oav, c.mav) =>
             Earned(c.member, c.ctx, c.scopes, c.at)
    BY <1>1, <1>2 DEF Resolving, CurrentAt
<1>6. ASSUME NEW t, t \in tokens \/ t = c
      PROVE  /\ Read(t.member, t.oav, t.mav)'
             /\ t.ctx = "identity" => t.scopes = {}
             /\ t.ctx # "identity" /\ Current(t.member, t.oav, t.mav)' =>
                    Earned(t.member, t.ctx, t.scopes, t.at)'
    <2>1. /\ Read(t.member, t.oav, t.mav)
          /\ t.ctx = "identity" => t.scopes = {}
          /\ t.ctx # "identity" /\ Current(t.member, t.oav, t.mav) =>
                 Earned(t.member, t.ctx, t.scopes, t.at)
        BY <1>5, <1>6 DEF Inv, TokensEarned
    <2>2. Read(t.member, t.oav, t.mav)' <=> Read(t.member, t.oav, t.mav)
        BY DEF Read
    <2>3. Current(t.member, t.oav, t.mav)' <=> Current(t.member, t.oav, t.mav)
        BY DEF Current
    <2>4. Earned(t.member, t.ctx, t.scopes, t.at)' <=> Earned(t.member, t.ctx, t.scopes, t.at)
        BY EarnedFrame
    <2> QED
        BY <2>1, <2>2, <2>3, <2>4
<1> QED
    BY <1>3, <1>4, <1>6 DEF TokensEarned, Inv, TypeOK

LEMMA OpenSessionInv ==
    ASSUME Inv, NEW h \in Handlers, NEW s \in Sessions, OpenSession(h, s)
    PROVE  Inv'
<1>1. /\ req[h].pc = "open" /\ issue(h, s) /\ Done(h)
      /\ UNCHANGED <<now, organization, member, store, role, binding>>
    BY DEF OpenSession
<1>2. tokens' \subseteq Token /\ TokensEarned'
    BY <1>1, IssueEarned
<1>3. req[h].actor \in Members /\ Target(h) \in Contexts
    BY <1>1, OnSession, TargetType DEF ClientSteps
<1> PICK row : row = [user |-> req[h].actor, status |-> "ACTIVE", ctx |-> Target(h)]
    OBVIOUS
<1>4. row \in SessionRow /\ row.user \in Members
    BY <1>3 DEF SessionRow
<1>5. /\ session' \in [Sessions -> SessionRow] /\ session'[s] = row
      /\ \A z \in Sessions \ {s} : session'[z] = session[z]
    BY <1>4 DEF OpenSession, Inv, TypeOK
<1>6. SessionsOfMembers'
    BY <1>4, <1>5 DEF SessionsOfMembers, Inv
<1>7. /\ req' \in [Handlers -> Request] /\ \A o \in Handlers \ {h} : req'[o] = req[o]
      /\ Candidates(h)' /\ Resolving(h)' /\ Writing(h)' /\ ~Locker(h)'
    BY <1>1, DoneFits
<1>8. TypeOK' /\ Versioned /\ RolesKept(h)
    BY <1>1, <1>2, <1>5, <1>7, SessionFrame
<1> QED
    BY <1>2, <1>6, <1>7, <1>8, Combine

LEMMA IssueTokenInv ==
    ASSUME Inv, NEW h \in Handlers, IssueToken(h)
    PROVE  Inv'
<1>1. /\ req[h].pc = "issue" /\ issue(h, req[h].session) /\ Done(h)
      /\ UNCHANGED <<now, organization, member, store, role, binding, session>>
    BY DEF IssueToken, tables
<1>2. req[h].session \in Sessions
    BY <1>1, OnSession DEF ClientSteps
<1>3. tokens' \subseteq Token /\ TokensEarned'
    BY <1>1, <1>2, IssueEarned
<1>4. session' \in [Sessions -> SessionRow] /\ SessionsOfMembers'
    BY <1>1 DEF SessionsOfMembers, Inv, TypeOK
<1>5. /\ req' \in [Handlers -> Request] /\ \A o \in Handlers \ {h} : req'[o] = req[o]
      /\ Candidates(h)' /\ Resolving(h)' /\ Writing(h)' /\ ~Locker(h)'
    BY <1>1, DoneFits
<1>6. TypeOK' /\ Versioned /\ RolesKept(h)
    BY <1>1, <1>3, <1>4, <1>5, SessionFrame
<1> QED
    BY <1>3, <1>4, <1>5, <1>6, Combine

-----------------------------------------------------------------------------
(* roles.Service. *)

LEMMA RequestType ==
    ASSUME NEW q \in RoleRequests
    PROVE  /\ q \in Request /\ q.op \in RoleOps /\ q.actor \in Members /\ q.role \in Roles
           /\ q.op \in {"bind", "unbind"} => q.target \in Members
<1>1. q.actor \in Members /\ q.role \in Roles /\ q.want \in SUBSET Codes
    BY RequestsAreKnown DEF Codes
<1>2. CASE q = Creation(q.actor, q.role, q.level, q.want) /\ q.level \in Levels
    BY <1>1, <1>2, IdleType DEF Creation, Request, RoleOps
<1>3. CASE q = Update(q.actor, q.role, q.want, q.flag) /\ q.flag \in BOOLEAN
    BY <1>1, <1>3, IdleType DEF Update, Request, RoleOps
<1>4. CASE q = Status(q.actor, q.role, q.flag) /\ q.flag \in BOOLEAN
    BY <1>1, <1>4, IdleType DEF Status, Request, RoleOps
<1>5. CASE /\ q = Assignment(q.actor, q.target, q.role, q.place, q.until)
           /\ q.target \in Members /\ q.place \in Places /\ q.until \in Nat
    BY <1>1, <1>5, IdleType DEF Assignment, Request, RoleOps
<1>6. CASE /\ q = Removal(q.actor, q.target, q.role, q.place)
           /\ q.target \in Members /\ q.place \in Places
    BY <1>1, <1>6, IdleType DEF Removal, Request, RoleOps
<1> QED
    BY <1>2, <1>3, <1>4, <1>5, <1>6, RequestsAreKnown DEF Levels

LEMMA BeginInv ==
    ASSUME Inv, NEW h \in Handlers, NEW q \in RoleRequests, Begin(h, q)
    PROVE  Inv'
<1> PICK scopes \in Principals(q.actor) :
        req' = [req EXCEPT ![h] =
            [q EXCEPT !.pc = IF q.op \in {"bind", "unbind"} THEN "member" ELSE "role",
                      !.scopes = scopes]]
    BY DEF Begin
<1>1. scopes \in SUBSET Codes
    BY DEF Principals, ResolveEffectiveScopes, Codes, Scopes
<1> PICK nextPc : nextPc = IF q.op \in {"bind", "unbind"} THEN "member" ELSE "role"
    OBVIOUS
<1> PICK x : x = [q EXCEPT !.pc = nextPc, !.scopes = scopes]
    OBVIOUS
<1>2. nextPc \in RoleSteps
    BY DEF RoleSteps
<1>3. /\ x \in Request /\ x.pc = nextPc /\ x.op = q.op /\ x.actor = q.actor
      /\ x.role = q.role /\ x.target = q.target
    BY <1>1, <1>2, RequestType DEF Request
<1>4. /\ req' \in [Handlers -> Request] /\ req'[h] = x
      /\ \A o \in Handlers \ {h} : req'[o] = req[o]
    BY <1>3 DEF Inv, TypeOK
<1>5. Candidates(h)' /\ Resolving(h)' /\ ~Locker(h)'
    BY <1>3, <1>4 DEF Candidates, Resolving, Locker, ClientSteps
<1>6. Writing(h)'
    BY <1>3, <1>4, RequestType DEF Writing, RoleOps
<1> QED
    BY <1>4, <1>5, <1>6, MoveInv DEF Begin

(* A handler that may write, and has the lock of its role. *)
MayWrite(h, granted) ==
    /\ req[h].op \in {"create", "update"} => req[h].want \subseteq granted
    /\ req[h].op \in {"update", "status"} =>
           role[req[h].role].there /\ role[req[h].role].mutable
    /\ req[h].op = "bind" => role[req[h].role].there
    /\ (req[h].op = "bind" \/ (req[h].op = "status" /\ req[h].flag)) =>
           role[req[h].role].scopes \subseteq granted
    /\ req[h].op \in {"update", "status", "bind"} /\ role[req[h].role].mutable =>
           ~LockRoleForScopeChange(req[h].role)

(* A handler of roles.Service that moves on. *)
LEMMA RoleMoveInv ==
    ASSUME Inv, NEW h \in Handlers, req[h].pc \in RoleSteps,
           NEW p \in RoleSteps, NEW granted \in SUBSET Codes,
           req' = [req EXCEPT ![h].pc = p, ![h].granted = granted],
           UNCHANGED <<now, tables, tokens>>,
           p = "member" => req[h].op \in {"bind", "unbind"},
           p = "role" => req[h].op # "unbind",
           p = "write" => MayWrite(h, granted)
    PROVE  Inv'
<1> PICK x : x = [req[h] EXCEPT !.pc = p, !.granted = granted]
    OBVIOUS
<1>1. req[h] \in Request /\ Writing(h)
    BY DEF Inv, TypeOK, HandlersRely
<1>2. /\ x \in Request /\ x.pc = p /\ x.granted = granted /\ x.op = req[h].op
      /\ x.actor = req[h].actor /\ x.role = req[h].role /\ x.target = req[h].target
      /\ x.want = req[h].want /\ x.flag = req[h].flag
    BY <1>1 DEF Request
<1>3. /\ req' \in [Handlers -> Request] /\ req'[h] = x
      /\ \A o \in Handlers \ {h} : req'[o] = req[o]
    BY <1>2 DEF Inv, TypeOK
<1>4. Candidates(h)' /\ Resolving(h)'
    BY <1>2, <1>3 DEF Candidates, Resolving, ClientSteps, RoleSteps
<1>5. Writing(h)'
    BY <1>1, <1>2, <1>3 DEF Writing, MayWrite, tables
<1>6. Locker(h)' /\ role'[req'[h].role].mutable =>
          \A o \in Handlers \ {h} : ~(Locker(o) /\ req[o].role = req'[h].role)
    BY <1>2, <1>3 DEF Locker, MayWrite, LockRoleForScopeChange, tables
<1> QED
    BY <1>3, <1>4, <1>5, <1>6, MoveInv

LEMMA LockMemberInv ==
    ASSUME Inv, NEW h \in Handlers, LockMember(h)
    PROVE  Inv'
<1>1. /\ req[h] \in Request /\ Writing(h) /\ req[h].pc = "member" /\ req[h].pc \in RoleSteps
      /\ req[h].op \in {"bind", "unbind"} /\ UNCHANGED <<now, tables, tokens>>
    BY DEF LockMember, Inv, TypeOK, HandlersRely, Writing, RoleSteps
<1>2. req[h].granted \in SUBSET Codes /\ {"role", "write"} \subseteq RoleSteps
    BY <1>1 DEF Request, RoleSteps
<1>3. CASE req[h].op = "bind" /\ Goto(h, "role")
    <2>1. req' = [req EXCEPT ![h].pc = "role", ![h].granted = req[h].granted]
        BY <1>1, <1>3 DEF Goto, Request, Inv, TypeOK
    <2> QED
        BY <1>1, <1>2, <1>3, <2>1, RoleMoveInv
<1>4. CASE req[h].op = "unbind" /\ Goto(h, "write")
    <2>1. req' = [req EXCEPT ![h].pc = "write", ![h].granted = req[h].granted]
        BY <1>1, <1>4 DEF Goto, Request, Inv, TypeOK
    <2>2. MayWrite(h, req[h].granted)
        BY <1>4 DEF MayWrite
    <2> QED
        BY <1>1, <1>2, <1>4, <2>1, <2>2, RoleMoveInv
<1>5. CASE Done(h)
    BY <1>1, <1>5, DoneInv
<1> QED
    BY <1>1, <1>3, <1>4, <1>5 DEF LockMember

LEMMA LockRoleInv ==
    ASSUME Inv, NEW h \in Handlers, LockRole(h)
    PROVE  Inv'
<1>1. /\ req[h] \in Request /\ Writing(h) /\ req[h].pc = "role" /\ req[h].pc \in RoleSteps
      /\ req[h].op \in RoleOps \ {"unbind"} /\ UNCHANGED <<now, tables, tokens>>
      /\ req[h].op # "create" /\ role[req[h].role].mutable => ~LockRoleForScopeChange(req[h].role)
    BY DEF LockRole, Inv, TypeOK, HandlersRely, Writing, RoleSteps
<1>2. CASE RoleAccepted(h)
    <2> PICK granted : granted = ResolveActorGrantScopes(req[h].actor)
        OBVIOUS
    <2>1. granted \in SUBSET Codes
        <3>1. \A r \in Roles : role[r].scopes \in SUBSET Codes
            BY DEF Inv, TypeOK, RoleRow
        <3> QED
            BY <3>1 DEF ResolveActorGrantScopes, ScopesOf
    <2>2. req' = [req EXCEPT ![h].pc = "write", ![h].granted = granted] /\ "write" \in RoleSteps
        BY <1>2 DEF LockRole, RoleSteps
    <2>3. ASSUME req[h].op = "create"
          PROVE  req[h].want \subseteq granted
        BY <1>2, <2>3 DEF RoleAccepted, validateRoleScopes, ensureGrantSubset
    <2>4. ASSUME req[h].op = "update"
          PROVE  /\ req[h].want \subseteq granted
                 /\ role[req[h].role].there /\ role[req[h].role].mutable
        BY <1>2, <2>4 DEF RoleAccepted, validateRoleScopes, ensureGrantSubset,
                          GetRoleWithScopesForOrganization
    <2>5. ASSUME req[h].op = "status"
          PROVE  /\ req[h].flag => role[req[h].role].scopes \subseteq granted
                 /\ role[req[h].role].there /\ role[req[h].role].mutable
        BY <1>2, <2>5 DEF RoleAccepted, ensureGrantSubset, GetRoleWithScopesForOrganization
    <2>6. ASSUME req[h].op = "bind"
          PROVE  role[req[h].role].scopes \subseteq granted /\ role[req[h].role].there
        BY <1>2, <2>6 DEF RoleAccepted, ensureGrantSubset, GetRoleWithScopesForOrganization
    <2>7. MayWrite(h, granted)
        BY <1>1, <2>3, <2>4, <2>5, <2>6 DEF MayWrite
    <2> QED
        BY <1>1, <2>1, <2>2, <2>7, RoleMoveInv
<1>3. CASE ~RoleAccepted(h)
    BY <1>1, <1>3, DoneInv DEF LockRole
<1> QED
    BY <1>2, <1>3

-----------------------------------------------------------------------------
(* What is written. *)

LEMMA WriteInv ==
    ASSUME Inv, NEW h \in Handlers, Done(h), Versioned, RolesKept(h),
           organization' \in [active : BOOLEAN, version : Nat],
           member' \in [Members -> [status : {"ACTIVE", "SUSPENDED"}, version : Nat]],
           role' \in [Roles -> RoleRow],
           binding' \in [Members -> [Roles \X Places -> Nat]],
           UNCHANGED <<now, store, session, tokens>>
    PROVE  Inv'
<1>1. /\ req' \in [Handlers -> Request] /\ \A o \in Handlers \ {h} : req'[o] = req[o]
      /\ Candidates(h)' /\ Resolving(h)' /\ Writing(h)' /\ ~Locker(h)'
    BY DoneFits
<1>2. TypeOK' /\ SessionsOfMembers'
    BY <1>1 DEF Inv, TypeOK, SessionsOfMembers
<1>3. TokensEarned'
    BY <1>2, TokensFrame
<1> QED
    BY <1>1, <1>2, <1>3, Combine

(* A step that writes roles and counts it. *)
LEMMA RoleWriteInv ==
    ASSUME Inv, NEW h \in Handlers, Done(h), RolesKept(h), role' \in [Roles -> RoleRow],
           organization' = IncrementOrganizationAuthorizationVersion,
           UNCHANGED <<now, member, store, binding, session, tokens>>
    PROVE  Inv'
<1>1. /\ organization' \in [active : BOOLEAN, version : Nat]
      /\ organization'.version = organization.version + 1 /\ organization.version \in Nat
      /\ now \in Nat /\ \A m \in Members : member[m].version \in Nat
    BY DEF Inv, TypeOK, IncrementOrganizationAuthorizationVersion
<1>2. Versioned
    BY <1>1 DEF Versioned
<1>3. /\ member' \in [Members -> [status : {"ACTIVE", "SUSPENDED"}, version : Nat]]
      /\ binding' \in [Members -> [Roles \X Places -> Nat]]
    BY DEF Inv, TypeOK
<1> QED
    BY <1>1, <1>2, <1>3, WriteInv

(* The row of one role. *)
LEMMA OneRole ==
    ASSUME Inv, NEW r \in Roles, NEW row \in RoleRow, role' = [role EXCEPT ![r] = row]
    PROVE  /\ role' \in [Roles -> RoleRow] /\ role'[r] = row
           /\ \A z \in Roles \ {r} : role'[z] = role[z]
BY DEF Inv, TypeOK

(* A step that writes bindings of a member and counts it. *)
LEMMA BindingWriteInv ==
    ASSUME Inv, NEW h \in Handlers, Done(h), NEW m \in Members,
           binding' \in [Members -> [Roles \X Places -> Nat]],
           \A z \in Members \ {m} : binding'[z] = binding[z],
           member' = IncrementMembershipAuthorizationVersion(m),
           UNCHANGED <<now, organization, store, role, session, tokens>>
    PROVE  Inv'
<1>1. /\ member' \in [Members -> [status : {"ACTIVE", "SUSPENDED"}, version : Nat]]
      /\ member'[m].version = member[m].version + 1
      /\ \A z \in Members \ {m} : member'[z] = member[z]
    <2> PICK old : old = member[m]
        OBVIOUS
    <2> PICK row : row = [old EXCEPT !.version = @ + 1]
        OBVIOUS
    <2>1. old \in [status : {"ACTIVE", "SUSPENDED"}, version : Nat]
        BY DEF Inv, TypeOK
    <2>2. row \in [status : {"ACTIVE", "SUSPENDED"}, version : Nat] /\ row.version = old.version + 1
        BY <2>1
    <2>3. member' = [member EXCEPT ![m] = row]
        BY DEF IncrementMembershipAuthorizationVersion
    <2> QED
        BY <2>2, <2>3 DEF Inv, TypeOK
<1>2. /\ now \in Nat /\ organization.version \in Nat
      /\ \A z \in Members : member[z].version \in Nat
    BY DEF Inv, TypeOK
<1>3. Versioned
    BY <1>1, <1>2 DEF Versioned
<1>4. RolesKept(h)
    BY DEF RolesKept
<1>5. organization' \in [active : BOOLEAN, version : Nat] /\ role' \in [Roles -> RoleRow]
    BY DEF Inv, TypeOK
<1> QED
    BY <1>1, <1>3, <1>4, <1>5, WriteInv

(* Somebody gains a scope by a role or by a binding that was not so.       *)
LEMMA GainedBy ==
    ASSUME NEW m \in Members, NEW c \in Powers(m)', c \notin Powers(m)
    PROVE  \E r \in Roles, p \in Places :
               /\ c \in role'[r].scopes /\ role'[r].active /\ binding'[m][<<r, p>>] > now'
               /\ ~(c \in role[r].scopes /\ role[r].active /\ binding[m][<<r, p>>] > now)
<1> PICK r \in Roles : /\ c \in role'[r].scopes /\ role'[r].active
                       /\ \E p \in Places : binding'[m][<<r, p>>] > now'
    BY DEF Powers, ScopesOf, Bound
<1> PICK p \in Places : binding'[m][<<r, p>>] > now'
    OBVIOUS
<1>1. ~(c \in role[r].scopes /\ role[r].active /\ binding[m][<<r, p>>] > now)
    BY DEF Powers, ScopesOf, Bound
<1> QED
    BY <1>1

(* What the members gain in a step of h. *)
GainsAtMost(h) == \A m \in Members : Powers(m)' \ Powers(m) \subseteq req[h].granted

LEMMA CommitCreateInv ==
    ASSUME Inv, NEW h \in Handlers, CommitCreate(h)
    PROVE  Inv' /\ GainsAtMost(h)
<1>1. /\ req[h].pc = "write" /\ req[h].op = "create" /\ Done(h)
      /\ UNCHANGED <<now, member, store, binding, session, tokens>>
      /\ Writing(h) /\ req[h] \in Request
    BY DEF CommitCreate, Write, Inv, TypeOK, HandlersRely
<1>2. req[h].role \in Roles /\ req[h].want \subseteq req[h].granted
    BY <1>1 DEF Writing, RoleSteps
<1>3. CASE role[req[h].role].there
    <2>1. UNCHANGED <<role, organization>>
        BY <1>3 DEF CommitCreate
    <2>2. Inv'
        BY <1>1, <2>1, DoneInv DEF tables
    <2>3. GainsAtMost(h)
        BY <1>1, <2>1 DEF GainsAtMost, Powers, ScopesOf, Bound
    <2> QED
        BY <2>2, <2>3
<1>4. CASE ~role[req[h].role].there
    <2> PICK row : row = [there |-> TRUE, level |-> req[h].level, scopes |-> req[h].want,
                          active |-> TRUE, mutable |-> TRUE]
        OBVIOUS
    <2>1. row \in RoleRow /\ row.scopes = req[h].want
        BY <1>1 DEF RoleRow, Request
    <2>2. /\ role' = [role EXCEPT ![req[h].role] = row]
          /\ organization' = IncrementOrganizationAuthorizationVersion
        BY <1>4 DEF CommitCreate, CreateRole
    <2>3. /\ role' \in [Roles -> RoleRow] /\ role'[req[h].role] = row
          /\ \A z \in Roles \ {req[h].role} : role'[z] = role[z]
        BY <1>2, <2>1, <2>2, OneRole
    <2>4. GainsAtMost(h)
        BY <1>1, <1>2, <2>1, <2>3, GainedBy DEF GainsAtMost
    <2>5. RolesKept(h)
        BY <1>2, <1>4, <2>3 DEF RolesKept
    <2>6. Inv'
        BY <1>1, <2>2, <2>3, <2>5, RoleWriteInv
    <2> QED
        BY <2>4, <2>6
<1> QED
    BY <1>3, <1>4

LEMMA UpdateRoleInv ==
    ASSUME Inv, NEW h \in Handlers, UpdateRole(h)
    PROVE  Inv' /\ GainsAtMost(h)
<1>1. /\ req[h].pc = "write" /\ req[h].op = "update" /\ Done(h)
      /\ UNCHANGED <<now, member, store, binding, session, tokens>>
      /\ Writing(h) /\ req[h] \in Request
    BY DEF UpdateRole, Write, Inv, TypeOK, HandlersRely
<1>2. /\ req[h].role \in Roles /\ req[h].want \subseteq req[h].granted
      /\ role[req[h].role].mutable /\ Locker(h)
    BY <1>1 DEF Writing, RoleSteps, Locker
<1> PICK r, old : r = req[h].role /\ old = role[r]
    OBVIOUS
<1> PICK row : row = [old EXCEPT !.scopes = req[h].want]
    OBVIOUS
<1>3. /\ row \in RoleRow /\ row.scopes = req[h].want
      /\ row.there = old.there /\ row.mutable = old.mutable
    <2>1. old \in RoleRow /\ req[h].want \in SUBSET Codes /\ req[h].flag \in BOOLEAN
        BY <1>1, <1>2 DEF Request, Inv, TypeOK
    <2> QED
        BY <2>1 DEF RoleRow
<1>4. /\ role' = [role EXCEPT ![r] = row]
      /\ organization' = IncrementOrganizationAuthorizationVersion
    BY DEF UpdateRole, ReplaceRoleScopes
<1>5. /\ role' \in [Roles -> RoleRow] /\ role'[r] = row
      /\ \A z \in Roles \ {r} : role'[z] = role[z]
    BY <1>2, <1>3, <1>4, OneRole
<1>6. GainsAtMost(h)
    <2> SUFFICES ASSUME NEW z \in Members, NEW c \in Powers(z)', c \notin Powers(z)
                 PROVE  c \in req[h].granted
        BY DEF GainsAtMost
    <2> PICK y \in Roles, p \in Places :
            /\ c \in role'[y].scopes /\ role'[y].active /\ binding'[z][<<y, p>>] > now'
            /\ ~(c \in role[y].scopes /\ role[y].active /\ binding[z][<<y, p>>] > now)
        BY GainedBy
    <2>1. y = r
        BY <1>1, <1>5
    <2> QED
        BY <1>1, <1>2, <1>3, <1>5, <2>1
<1>7. RolesKept(h)
    BY <1>2, <1>3, <1>5 DEF RolesKept
<1>8. Inv'
    BY <1>1, <1>4, <1>5, <1>7, RoleWriteInv
<1> QED
    BY <1>6, <1>8

LEMMA setRoleActiveInv ==
    ASSUME Inv, NEW h \in Handlers, setRoleActive(h)
    PROVE  Inv' /\ GainsAtMost(h)
<1>1. /\ req[h].pc = "write" /\ req[h].op = "status" /\ Done(h)
      /\ UNCHANGED <<now, member, store, binding, session, tokens>>
      /\ Writing(h) /\ req[h] \in Request
    BY DEF setRoleActive, Write, Inv, TypeOK, HandlersRely
<1>2. /\ req[h].role \in Roles
      /\ req[h].flag => role[req[h].role].scopes \subseteq req[h].granted
    BY <1>1 DEF Writing, RoleSteps
<1> PICK r, old : r = req[h].role /\ old = role[r]
    OBVIOUS
<1> PICK row : row = [old EXCEPT !.active = req[h].flag]
    OBVIOUS
<1>3. /\ row \in RoleRow /\ row.scopes = old.scopes /\ row.active = req[h].flag
      /\ row.there = old.there /\ row.mutable = old.mutable
    <2>1. old \in RoleRow /\ req[h].want \in SUBSET Codes /\ req[h].flag \in BOOLEAN
        BY <1>1, <1>2 DEF Request, Inv, TypeOK
    <2> QED
        BY <2>1 DEF RoleRow
<1>4. /\ role' = [role EXCEPT ![r] = row]
      /\ organization' = IncrementOrganizationAuthorizationVersion
    BY DEF setRoleActive, UpdateRoleStatus
<1>5. /\ role' \in [Roles -> RoleRow] /\ role'[r] = row
      /\ \A z \in Roles \ {r} : role'[z] = role[z]
    BY <1>2, <1>3, <1>4, OneRole
<1>6. GainsAtMost(h)
    <2> SUFFICES ASSUME NEW z \in Members, NEW c \in Powers(z)', c \notin Powers(z)
                 PROVE  c \in req[h].granted
        BY DEF GainsAtMost
    <2> PICK y \in Roles, p \in Places :
            /\ c \in role'[y].scopes /\ role'[y].active /\ binding'[z][<<y, p>>] > now'
            /\ ~(c \in role[y].scopes /\ role[y].active /\ binding[z][<<y, p>>] > now)
        BY GainedBy
    <2>1. y = r
        BY <1>1, <1>5
    <2> QED
        BY <1>1, <1>2, <1>3, <1>5, <2>1
<1>7. RolesKept(h)
    BY <1>2, <1>3, <1>5 DEF RolesKept
<1>8. Inv'
    BY <1>1, <1>4, <1>5, <1>7, RoleWriteInv
<1> QED
    BY <1>6, <1>8

LEMMA CreateBindingInv ==
    ASSUME Inv, NEW h \in Handlers, CreateBinding(h)
    PROVE  Inv' /\ GainsAtMost(h)
<1>1. /\ req[h].pc = "write" /\ req[h].op = "bind" /\ Done(h)
      /\ UNCHANGED <<now, organization, store, role, session, tokens>>
      /\ Writing(h) /\ req[h] \in Request
    BY DEF CreateBinding, Write, Inv, TypeOK, HandlersRely
<1>2. /\ req[h].role \in Roles /\ req[h].target \in Members
      /\ role[req[h].role].scopes \subseteq req[h].granted
      /\ req[h].place \in Places /\ req[h].until \in Nat
    BY <1>1 DEF Writing, RoleSteps, Request
<1> PICK m, b, until : m = req[h].target /\ b = <<req[h].role, req[h].place>> /\ until = req[h].until
    OBVIOUS
<1> PICK row : row = [binding[m] EXCEPT ![b] = until]
    OBVIOUS
<1>3. m \in Members /\ b \in Roles \X Places /\ until \in Nat
    BY <1>2
<1>4. /\ binding' = [binding EXCEPT ![m] = row]
      /\ member' = IncrementMembershipAuthorizationVersion(m)
    BY DEF CreateBinding, CreateRoleBinding
<1>5. /\ binding' \in [Members -> [Roles \X Places -> Nat]]
      /\ \A z \in Members \ {m} : binding'[z] = binding[z]
      /\ \A c \in (Roles \X Places) \ {b} : binding'[m][c] = binding[m][c]
    <2>1. /\ row \in [Roles \X Places -> Nat] /\ row[b] = until
          /\ \A c \in (Roles \X Places) \ {b} : row[c] = binding[m][c]
        BY <1>3 DEF Inv, TypeOK
    <2>2. /\ binding' \in [Members -> [Roles \X Places -> Nat]] /\ binding'[m] = row
          /\ \A z \in Members \ {m} : binding'[z] = binding[z]
        BY <1>3, <1>4, <2>1 DEF Inv, TypeOK
    <2> QED
        BY <2>1, <2>2
<1>6. GainsAtMost(h)
    <2> SUFFICES ASSUME NEW z \in Members, NEW c \in Powers(z)', c \notin Powers(z)
                 PROVE  c \in req[h].granted
        BY DEF GainsAtMost
    <2> PICK r \in Roles, p \in Places :
            /\ c \in role'[r].scopes /\ role'[r].active /\ binding'[z][<<r, p>>] > now'
            /\ ~(c \in role[r].scopes /\ role[r].active /\ binding[z][<<r, p>>] > now)
        BY GainedBy
    <2>1. binding'[z][<<r, p>>] # binding[z][<<r, p>>]
        BY <1>1
    <2>2. <<r, p>> = b
        BY <1>5, <2>1
    <2> QED
        BY <1>1, <1>2, <2>2
<1>7. Inv'
    BY <1>1, <1>3, <1>4, <1>5, BindingWriteInv
<1> QED
    BY <1>6, <1>7

LEMMA DeleteBindingInv ==
    ASSUME Inv, NEW h \in Handlers, DeleteBinding(h)
    PROVE  Inv' /\ GainsAtMost(h)
<1>1. /\ req[h].pc = "write" /\ req[h].op = "unbind" /\ Done(h)
      /\ UNCHANGED <<now, organization, store, role, session, tokens>>
      /\ Writing(h) /\ req[h] \in Request /\ now \in Nat
    BY DEF DeleteBinding, Write, Inv, TypeOK, HandlersRely
<1>2. req[h].role \in Roles /\ req[h].target \in Members /\ req[h].place \in Places
    BY <1>1 DEF Writing, RoleSteps, Request
<1> PICK m, b : m = req[h].target /\ b = <<req[h].role, req[h].place>>
    OBVIOUS
<1> PICK row : row = [binding[m] EXCEPT ![b] = 0]
    OBVIOUS
<1>3. m \in Members /\ b \in Roles \X Places
    BY <1>2
<1>4. /\ binding' = [binding EXCEPT ![m] = row]
      /\ member' = IncrementMembershipAuthorizationVersion(m)
    BY DEF DeleteBinding, DeleteRoleBinding
<1>5. /\ binding' \in [Members -> [Roles \X Places -> Nat]]
      /\ \A z \in Members \ {m} : binding'[z] = binding[z]
      /\ binding'[m][b] = 0
      /\ \A c \in (Roles \X Places) \ {b} : binding'[m][c] = binding[m][c]
    <2>1. /\ row \in [Roles \X Places -> Nat] /\ row[b] = 0
          /\ \A c \in (Roles \X Places) \ {b} : row[c] = binding[m][c]
        BY <1>3 DEF Inv, TypeOK
    <2>2. /\ binding' \in [Members -> [Roles \X Places -> Nat]] /\ binding'[m] = row
          /\ \A z \in Members \ {m} : binding'[z] = binding[z]
        BY <1>3, <1>4, <2>1 DEF Inv, TypeOK
    <2> QED
        BY <2>1, <2>2
<1>6. GainsAtMost(h)
    <2> SUFFICES ASSUME NEW z \in Members, NEW c \in Powers(z)', c \notin Powers(z)
                 PROVE  FALSE
        BY DEF GainsAtMost
    <2> PICK r \in Roles, p \in Places :
            /\ c \in role'[r].scopes /\ role'[r].active /\ binding'[z][<<r, p>>] > now'
            /\ ~(c \in role[r].scopes /\ role[r].active /\ binding[z][<<r, p>>] > now)
        BY GainedBy
    <2>1. binding'[z][<<r, p>>] # binding[z][<<r, p>>]
        BY <1>1
    <2>2. <<r, p>> = b /\ z = m
        BY <1>5, <2>1
    <2>3. ~(0 > now)
        BY <1>1
    <2> QED
        BY <1>1, <1>5, <2>2, <2>3
<1>7. Inv'
    BY <1>1, <1>3, <1>4, <1>5, BindingWriteInv
<1> QED
    BY <1>6, <1>7

-----------------------------------------------------------------------------
(* Changes of status. *)

(* Sessions that end keep their users. *)
LEMMA EndSessionsFrame ==
    ASSUME Inv, NEW S, EndSessions(S)
    PROVE  session' \in [Sessions -> SessionRow] /\ SessionsOfMembers'
<1> SUFFICES ASSUME NEW s \in Sessions
             PROVE  session'[s] \in SessionRow /\ (session'[s].status = "ACTIVE" => session'[s].user \in Members)
    BY DEF EndSessions, SessionsOfMembers
<1> PICK old : old = session[s]
    OBVIOUS
<1>1. old \in SessionRow /\ (old.status = "ACTIVE" => old.user \in Members)
    BY DEF Inv, TypeOK, SessionsOfMembers
<1>2. session'[s] = old \/ session'[s] = [old EXCEPT !.status = "REVOKED"]
    BY DEF EndSessions
<1> QED
    BY <1>1, <1>2 DEF SessionRow

LEMMA UpdateMembershipStatusInv ==
    ASSUME Inv, NEW m \in Members, UpdateMembershipStatus(m)
    PROVE  Inv'
<1>1. session' \in [Sessions -> SessionRow] /\ SessionsOfMembers'
    BY EndSessionsFrame DEF UpdateMembershipStatus
<1> PICK old, status : old = member[m] /\ status = IF member[m].status = "ACTIVE" THEN "SUSPENDED" ELSE "ACTIVE"
    OBVIOUS
<1> PICK row : row = [status |-> status, version |-> old.version + 1]
    OBVIOUS
<1>2. old.version \in Nat /\ status \in {"ACTIVE", "SUSPENDED"}
    BY DEF Inv, TypeOK
<1>3. /\ row \in [status : {"ACTIVE", "SUSPENDED"}, version : Nat]
      /\ row.version = old.version + 1
    BY <1>2
<1>4. /\ member' = [member EXCEPT ![m] = row]
      /\ UNCHANGED <<now, organization, store, role, binding, tokens, req>>
    BY DEF UpdateMembershipStatus
<1>5. /\ member' \in [Members -> [status : {"ACTIVE", "SUSPENDED"}, version : Nat]]
      /\ member'[m] = row /\ \A z \in Members \ {m} : member'[z] = member[z]
    BY <1>3, <1>4 DEF Inv, TypeOK
<1>6. TypeOK'
    BY <1>1, <1>4, <1>5 DEF Inv, TypeOK
<1>7. /\ now \in Nat /\ organization.version \in Nat
      /\ \A z \in Members : member[z].version \in Nat
    BY DEF Inv, TypeOK
<1>8. Versioned
    BY <1>3, <1>4, <1>5, <1>7 DEF Versioned
<1> QED
    BY <1>1, <1>4, <1>6, <1>8, StillInv

LEMMA ArchiveOrganizationInv ==
    ASSUME Inv, ArchiveOrganization
    PROVE  Inv'
<1>1. session' \in [Sessions -> SessionRow] /\ SessionsOfMembers'
    BY EndSessionsFrame DEF ArchiveOrganization
<1>2. /\ organization' = [active |-> FALSE, version |-> organization.version + 1]
      /\ UNCHANGED <<now, member, store, role, binding, tokens, req>>
    BY DEF ArchiveOrganization
<1>3. /\ now \in Nat /\ organization.version \in Nat
      /\ \A z \in Members : member[z].version \in Nat
    BY DEF Inv, TypeOK
<1>4. TypeOK'
    <2>1. organization' \in [active : BOOLEAN, version : Nat]
        BY <1>2, <1>3
    <2> QED
        BY <1>1, <1>2, <2>1 DEF Inv, TypeOK
<1>5. Versioned
    BY <1>2, <1>3 DEF Versioned
<1> QED
    BY <1>1, <1>2, <1>4, <1>5, StillInv

LEMMA SetStoreStatusInv ==
    ASSUME Inv, NEW s \in Stores, SetStoreStatus(s)
    PROVE  Inv'
<1>1. /\ store' \in [Stores -> BOOLEAN]
      /\ UNCHANGED <<now, organization, member, role, binding, session, tokens, req>>
    BY DEF SetStoreStatus, Inv, TypeOK
<1>2. TypeOK' /\ SessionsOfMembers'
    BY <1>1 DEF Inv, TypeOK, SessionsOfMembers
<1>3. /\ now \in Nat /\ organization.version \in Nat
      /\ \A z \in Members : member[z].version \in Nat
    BY DEF Inv, TypeOK
<1>4. Versioned
    BY <1>1, <1>3 DEF Versioned
<1> QED
    BY <1>1, <1>2, <1>4, StillInv

LEMMA TickInv ==
    ASSUME Inv, Tick
    PROVE  Inv'
<1>1. /\ now \in Nat /\ now' = now + 1 /\ organization.version \in Nat
      /\ \A z \in Members : member[z].version \in Nat
      /\ UNCHANGED <<organization, member, store, role, binding, session, tokens, req>>
    BY DEF Inv, TypeOK, Tick, tables
<1>2. TypeOK' /\ SessionsOfMembers'
    <2>1. now' \in Nat
        BY <1>1
    <2> QED
        BY <1>1, <2>1 DEF Inv, TypeOK, SessionsOfMembers
<1>3. Versioned
    BY <1>1 DEF Versioned
<1> QED
    BY <1>1, <1>2, <1>3, StillInv

-----------------------------------------------------------------------------
(* The specification. *)

LEMMA InitInv == Init => Inv
<1> SUFFICES ASSUME Init
             PROVE  Inv
    OBVIOUS
<1>1. \A h \in Handlers : req[h] = Idle
    BY DEF Init
<1>2. TypeOK
    <2>1. role \in [Roles -> RoleRow] /\ binding \in [Members -> [Roles \X Places -> Nat]]
        BY FirstTables DEF Init, RoleRow, Levels, Codes
    <2>2. session \in [Sessions -> SessionRow]
        BY DEF Init, SessionRow, Contexts
    <2>3. req \in [Handlers -> Request]
        BY IdleType DEF Init
    <2> QED
        BY <2>1, <2>2, <2>3 DEF Init, TypeOK
<1>3. SessionsOfMembers /\ TokensEarned
    BY DEF Init, SessionsOfMembers, TokensEarned
<1>4. HandlersRely /\ RolesLocked
    BY <1>1, IdleType DEF HandlersRely, RolesLocked, Candidates, Resolving, Writing, Locker,
                          ClientSteps, RoleSteps
<1> QED
    BY <1>2, <1>3, <1>4 DEF Inv

LEMMA ClientInv ==
    ASSUME Inv, NEW h \in Handlers, ClientRequest(h)
    PROVE  Inv'
BY ClientsAreMembers, StartLoginInv, resolveLoginContextInv, RefreshInv, SwitchContextInv
DEF ClientRequest

LEMMA ProgressInv ==
    ASSUME Inv, NEW h \in Handlers, Progress(h) \/ Abort(h)
    PROVE  Inv'
<1>1. CASE Abort(h)
    BY <1>1, DoneInv DEF Abort
<1>2. CASE ResolveMembership(h) \/ ResolveStore(h) \/ ResolveScopes(h)
    BY <1>2, ResolveMembershipInv, ResolveStoreInv, ResolveScopesInv
<1>3. CASE \E s \in Sessions : OpenSession(h, s)
    BY <1>3, OpenSessionInv
<1>4. CASE UpdateSessionContext(h) \/ loadState(h) \/ Downgrade(h) \/ IssueToken(h)
    BY <1>4, UpdateSessionContextInv, loadStateInv, DowngradeInv, IssueTokenInv
<1>5. CASE LockMember(h) \/ LockRole(h)
    BY <1>5, LockMemberInv, LockRoleInv
<1>6. CASE \/ CommitCreate(h) \/ UpdateRole(h) \/ setRoleActive(h)
           \/ CreateBinding(h) \/ DeleteBinding(h)
    BY <1>6, CommitCreateInv, UpdateRoleInv, setRoleActiveInv, CreateBindingInv, DeleteBindingInv
<1> QED
    BY <1>1, <1>2, <1>3, <1>4, <1>5, <1>6 DEF Progress

LEMMA NextInv == Inv /\ [Next]_vars => Inv'
<1> SUFFICES ASSUME Inv, [Next]_vars
             PROVE  Inv'
    OBVIOUS
<1>1. CASE UNCHANGED vars
    <2>1. UNCHANGED <<now, organization, member, store, role, binding, session, tokens, req>>
        BY <1>1 DEF vars, tables
    <2>2. TypeOK' /\ SessionsOfMembers'
        BY <2>1 DEF Inv, TypeOK, SessionsOfMembers
    <2>3. /\ now \in Nat /\ organization.version \in Nat
          /\ \A z \in Members : member[z].version \in Nat
        BY DEF Inv, TypeOK
    <2>4. Versioned
        BY <2>1, <2>3 DEF Versioned
    <2> QED
        BY <2>1, <2>2, <2>4, StillInv
<1>2. CASE \E h \in ClientHandlers : ClientRequest(h)
    BY <1>2, ClientInv DEF Handlers
<1>3. CASE \E h \in RoleHandlers, q \in RoleRequests : Begin(h, q)
    BY <1>3, BeginInv DEF Handlers
<1>4. CASE \E h \in Handlers : Progress(h) \/ Abort(h)
    BY <1>4, ProgressInv
<1>5. CASE \E m \in Members : UpdateMembershipStatus(m)
    BY <1>5, UpdateMembershipStatusInv
<1>6. CASE \E s \in Stores : SetStoreStatus(s)
    BY <1>6, SetStoreStatusInv
<1>7. CASE ArchiveOrganization \/ Tick
    BY <1>7, ArchiveOrganizationInv, TickInv
<1> QED
    BY <1>1, <1>2, <1>3, <1>4, <1>5, <1>6, <1>7 DEF Next

(* Whatever is asked of roles.Service while contexts are resolved: tokens  *)
(* and handlers rely on versions that no change of a role or of a binding  *)
(* leaves alone, and a role that is being written or bound is locked.      *)
THEOREM AccessInvariance == Spec => []Inv
<1>1. Init => Inv
    BY InitInv
<1>2. Inv /\ [Next]_vars => Inv'
    BY NextInv
<1> QED
    BY <1>1, <1>2, PTL DEF Spec

(* RequireAccessToken never accepts a token for scopes or a store that its *)
(* member would not be given now, for any interleaving of statements of    *)
(* resolveContext with changes of roles and bindings.                      *)
THEOREM TokensAreEarned == Spec => []AcceptedTokensAreEarned
<1>1. Inv => AcceptedTokensAreEarned
    <2> SUFFICES ASSUME Inv, NEW t \in tokens, Accepts(t)
                 PROVE  IF t.ctx = "identity" THEN t.scopes = {}
                        ELSE /\ t.scopes \subseteq ResolveEffectiveScopes(t.member, t.ctx, t.at)
                             /\ t.ctx \in Stores => t.ctx \in ListStoresForMembership(t.member, t.at)
        BY DEF AcceptedTokensAreEarned
    <2>1. CASE t.ctx = "identity"
        BY <2>1 DEF Inv, TokensEarned
    <2>2. CASE t.ctx # "identity"
        <3>1. ValidContext(t.member, t.ctx) /\ Current(t.member, t.oav, t.mav)
            BY <2>2 DEF Accepts, validateContext, validateVersions, Current
        <3>2. Earned(t.member, t.ctx, t.scopes, t.at)
            BY <2>2, <3>1 DEF Inv, TokensEarned
        <3> QED
            BY <2>2, <3>1, <3>2 DEF Earned, WelcomeIn, ResolveEffectiveScopes, ListStoresForMembership
    <2> QED
        BY <2>1, <2>2
<1> QED
    BY <1>1, AccessInvariance, PTL

(* Time alone gives nothing, and neither does a step that writes nothing.  *)
LEMMA NoGain ==
    ASSUME Inv, now' \in Nat, now' >= now, UNCHANGED <<role, binding>>
    PROVE  \A m \in Members : Powers(m)' \subseteq Powers(m)
<1> SUFFICES ASSUME NEW m \in Members, NEW c \in Powers(m)', c \notin Powers(m)
             PROVE  FALSE
    OBVIOUS
<1> PICK r \in Roles, p \in Places :
        /\ c \in role'[r].scopes /\ role'[r].active /\ binding'[m][<<r, p>>] > now'
        /\ ~(c \in role[r].scopes /\ role[r].active /\ binding[m][<<r, p>>] > now)
    BY GainedBy
<1>1. now \in Nat /\ binding[m][<<r, p>>] \in Nat
    BY DEF Inv, TypeOK
<1> QED
    BY <1>1

(* What follows from ensureGrantSubset and the locks of roles.Service: a   *)
(* member gains no scope in a step that the actor who wrote it could not   *)
(* pass on, however many members grant at the same time.                   *)
THEOREM GrantsAreHeld == Spec => NobodyGrantsMoreThanTheyHold
<1> DEFINE Held == \A m \in Members :
                       Powers(m)' \ Powers(m) \subseteq
                           UNION {req[h].granted : h \in {h \in Handlers : req[h].pc = "write" /\ req'[h].pc = "idle"}}
<1>1. Inv /\ [Next]_vars => [Held]_vars
    <2> SUFFICES ASSUME Inv, Next
                 PROVE  Held
        OBVIOUS
    <2>1. ASSUME NEW h \in Handlers,
                 \/ CommitCreate(h) \/ UpdateRole(h) \/ setRoleActive(h)
                 \/ CreateBinding(h) \/ DeleteBinding(h)
          PROVE  Held
        <3>1. GainsAtMost(h)
            BY <2>1, CommitCreateInv, UpdateRoleInv, setRoleActiveInv, CreateBindingInv,
               DeleteBindingInv
        <3>2. req[h].pc = "write" /\ Done(h)
            BY <2>1 DEF CommitCreate, UpdateRole, setRoleActive, CreateBinding, DeleteBinding, Write
        <3>3. req'[h].pc = "idle"
            BY <3>2, DoneFits, IdleType
        <3> QED
            BY <3>1, <3>2, <3>3 DEF GainsAtMost
    <2>2. ASSUME UNCHANGED <<now, role, binding>>
          PROVE  Held
        <3>1. now' \in Nat /\ now' >= now
            BY <2>2 DEF Inv, TypeOK
        <3> QED
            BY <2>2, <3>1, NoGain
    <2>3. CASE \E h \in ClientHandlers : ClientRequest(h)
        BY <2>2, <2>3 DEF ClientRequest, StartLogin, resolveLoginContext, Refresh, SwitchContext, tables
    <2>4. CASE \E h \in RoleHandlers, q \in RoleRequests : Begin(h, q)
        BY <2>2, <2>4 DEF Begin, tables
    <2>5. CASE \E h \in Handlers : Progress(h) \/ Abort(h)
        <3> PICK h \in Handlers : Progress(h) \/ Abort(h)
            BY <2>5
        <3>1. CASE Abort(h) \/ ResolveMembership(h) \/ ResolveStore(h) \/ ResolveScopes(h)
                   \/ loadState(h) \/ IssueToken(h) \/ LockMember(h) \/ LockRole(h)
            BY <2>2, <3>1 DEF Abort, ResolveMembership, ResolveStore, ResolveScopes, loadState,
                              IssueToken, LockMember, LockRole, tables
        <3>2. CASE (\E s \in Sessions : OpenSession(h, s)) \/ UpdateSessionContext(h) \/ Downgrade(h)
            BY <2>2, <3>2 DEF OpenSession, UpdateSessionContext, Downgrade
        <3>3. CASE \/ CommitCreate(h) \/ UpdateRole(h) \/ setRoleActive(h)
                   \/ CreateBinding(h) \/ DeleteBinding(h)
            BY <2>1, <3>3
        <3> QED
            BY <3>1, <3>2, <3>3 DEF Progress
    <2>6. CASE \E m \in Members : UpdateMembershipStatus(m)
        BY <2>2, <2>6 DEF UpdateMembershipStatus
    <2>7. CASE \E s \in Stores : SetStoreStatus(s)
        BY <2>2, <2>7 DEF SetStoreStatus
    <2>8. CASE ArchiveOrganization
        BY <2>2, <2>8 DEF ArchiveOrganization
    <2>9. CASE Tick
        <3>1. now' \in Nat /\ now' >= now /\ UNCHANGED <<role, binding>>
            BY <2>9 DEF Tick, tables, Inv, TypeOK
        <3> QED
            BY <3>1, NoGain
    <2> QED
        BY <2>3, <2>4, <2>5, <2>6, <2>7, <2>8, <2>9 DEF Next
<1> QED
    BY <1>1, AccessInvariance, PTL DEF Spec, NobodyGrantsMoreThanTheyHold
=============================================================================
