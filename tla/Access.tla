------------------------------- MODULE Access -------------------------------
(***************************************************************************)
(* Authorization inside one organization: roles, their bindings, the two   *)
(* authorization versions, the context of a session, and the access tokens *)
(* that carry scopes away from the database.                               *)
(*                                                                         *)
(* A token holds the scopes of the moment it was made, so every change of  *)
(* a role or of a binding increments a version, and the middleware refuses *)
(* a token whose versions are not the current ones.  The versions and the  *)
(* scopes of a token are read by separate statements, and changes commit   *)
(* between them: a step here is one statement of resolveContext, or the    *)
(* part of a transaction between two row locks.  Row locks are not         *)
(* variables: a handler holds them from the step that takes them until it  *)
(* is idle again.                                                          *)
(*                                                                         *)
(* Manage stands for the four scopes roles.create, roles.update,           *)
(* roles.status.update and roles.assign.  Password versions, deadlines of  *)
(* sessions and the session cache are in SessionUse; who may be the last   *)
(* owner is in Memberships.                                                *)
(***************************************************************************)
EXTENDS Naturals, Sequences, FiniteSets

CONSTANTS
    Members,            \* memberships, each of another user
    Roles,              \* role keys
    Stores,
    OrganizationScopes, StoreScopes,
    Manage, Owners,     \* organization.owners.manage is not assignable
    FirstRoles, FirstBindings,  \* what bootstrapRoles and later requests left
    RoleRequests,       \* requests to roles.Service that are made in this instance
    Sessions,           \* ids of rows of auth_sessions
    ClientHandlers, RoleHandlers,   \* handlers of requests to auth and to roles
    Clients,            \* members who log in in this instance
    TTL,                \* AccessTokenTTL
    MaxTime, MaxVersion,    \* bounds on the clock and on the versions
    MaxTokens,          \* bound on the access tokens clients keep
    None

Scopes == OrganizationScopes \cup StoreScopes
Never == MaxTime + 1        \* expires_at IS NULL
Contexts == {"identity", "organization"} \cup Stores
Places == Stores \cup {None}
Handlers == ClientHandlers \cup RoleHandlers

ASSUME PowersAreScopes == {Manage, Owners} \subseteq OrganizationScopes
ASSUME ClientsAreMembers == Clients \subseteq Members
ASSUME BoundsNatural == {TTL, MaxTime, MaxVersion, MaxTokens} \subseteq Nat
ASSUME NoneIsNothing == None \notin Members \cup Roles \cup Stores \cup Sessions
ASSUME FirstTables ==
    /\ FirstRoles \in [Roles -> [there : BOOLEAN, level : {"ORGANIZATION", "STORE"},
                                 scopes : SUBSET Scopes, active : BOOLEAN, mutable : BOOLEAN]]
    /\ FirstBindings \in [Members -> [Roles \X Places -> Nat]]

VARIABLES
    now,
    organization,   \* active and authorization_version
    member,         \* status and authorization_version of each membership
    store,          \* whether each store is ACTIVE
    role,           \* level (assignment_scope), scopes, is_active, is_mutable
    binding,        \* expires_at of the binding of a member to <<role, place>>;
                    \* 0 when there is none
    session,        \* user, status and context
    tokens,         \* access tokens that clients hold
    req             \* what each handler is doing

tables == <<organization, member, store, role, binding, session>>
vars == <<now, tables, tokens, req>>

-----------------------------------------------------------------------------
(* Queries. *)

Bound(m, r, place, t) == binding[m][<<r, place>>] > t

(* Roles that count for m in a context: organization roles everywhere,     *)
(* store roles in their store.                                             *)
EffectiveRoles(m, ctx, t) ==
    {r \in Roles :
        /\ role[r].active
        /\ \/ role[r].level = "ORGANIZATION" /\ Bound(m, r, None, t)
           \/ role[r].level = "STORE" /\ ctx \in Stores /\ Bound(m, r, ctx, t)}

ScopesOf(S) == UNION {role[r].scopes : r \in S}

(* Whether valid_context has a row. *)
ValidContext(m, ctx) ==
    /\ organization.active
    /\ member[m].status = "ACTIVE"
    /\ ctx \in Stores => store[ctx]

ResolveEffectiveScopes(m, ctx, t) ==
    IF ValidContext(m, ctx)
      THEN ScopesOf(EffectiveRoles(m, ctx, t))
               \cap (IF ctx \in Stores THEN Scopes ELSE OrganizationScopes)
      ELSE {}

(* What m may pass on: scopes it has through organization bindings. *)
ResolveActorGrantScopes(m) ==
    IF member[m].status = "ACTIVE"
      THEN ScopesOf({r \in Roles : role[r].active /\ Bound(m, r, None, now)})
      ELSE {}

(* The stores where m has a role with a store-level scope. *)
ListStoresForMembership(m, t) ==
    {s \in Stores :
        /\ ValidContext(m, s)
        /\ ScopesOf(EffectiveRoles(m, s, t)) \cap StoreScopes # {}}

GetMembershipContextForUser(m) ==
    [active |-> organization.active /\ member[m].status = "ACTIVE",
     oav |-> organization.version, mav |-> member[m].version]

GetPermissionScopesByCodes(want) == want \cap Scopes
Assignable(want) == Owners \notin want

GetRoleWithScopesForOrganization(r) == role[r].there
ListMemberRoleBindings(m, r, place) == binding[m][<<r, place>>]
GetRoleBindingForOrganization(m, r, place) == binding[m][<<r, place>>] # 0

(* Mutant: a removed binding leaves the version of the membership alone. *)
SameMembershipVersion(m) == member

IncrementMembershipAuthorizationVersion(m) == [member EXCEPT ![m].version = @ + 1]
IncrementOrganizationAuthorizationVersion == [organization EXCEPT !.version = @ + 1]

ReplaceRoleScopes(r, want) == [role EXCEPT ![r].scopes = want]
CreateRole(r, level, want) ==
    [role EXCEPT ![r] = [there |-> TRUE, level |-> level, scopes |-> want,
                         active |-> TRUE, mutable |-> TRUE]]
UpdateRoleStatus(r, active) == [role EXCEPT ![r].active = active]
CreateRoleBinding(m, r, place, until) == [binding EXCEPT ![m][<<r, place>>] = until]
DeleteRoleBinding(m, r, place) == [binding EXCEPT ![m][<<r, place>>] = 0]

-----------------------------------------------------------------------------
(* Handlers.  op is what the handler runs, scopes those of its principal   *)
(* or of the token it makes, granted (history) what its actor could pass   *)
(* on when it was asked.                                                   *)

Idle ==
    [pc |-> "idle", op |-> "none", actor |-> None, target |-> None, role |-> None,
     place |-> None, level |-> "ORGANIZATION", want |-> {}, flag |-> FALSE, until |-> 0,
     granted |-> {}, session |-> None, tries |-> <<>>, strict |-> TRUE,
     oav |-> 0, mav |-> 0, scopes |-> {}, at |-> 0]

Goto(h, pc) == req' = [req EXCEPT ![h].pc = pc]
Done(h) == req' = [req EXCEPT ![h] = Idle]

-----------------------------------------------------------------------------
(* Locks. *)

SessionHeld(s) ==
    \E h \in Handlers : req[h].op = "switch" /\ req[h].session = s

(* LockOrganizationForOwnerChange: removing a binding locks it first. *)
OrganizationHeld(h) == \E o \in Handlers \ {h} : req[o].op = "unbind"

MemberHeld(m) ==
    \E h \in Handlers :
        req[h].op \in {"bind", "unbind"} /\ req[h].target = m /\ req[h].pc \in {"role", "write"}

(* Mutant: a binding is made without the lock on its role. *)
LockRoleForEditors(r) ==
    \E h \in Handlers : req[h].op \in {"update", "status"} /\ req[h].role = r /\ req[h].pc = "write"

LockRoleForScopeChange(r) ==
    \E h \in Handlers :
        /\ req[h].op \in {"update", "status", "bind"} /\ req[h].role = r
        /\ req[h].pc = "write"

(* The audit event refers to the organization and to the membership of the *)
(* actor, and waits while another transaction has locked one of them.      *)
AuditFree(h) ==
    /\ ~OrganizationHeld(h)
    /\ \A o \in Handlers \ {h} :
           ~(/\ req[o].op \in {"bind", "unbind"} /\ req[o].target = req[h].actor
             /\ req[o].pc \in {"role", "write"})

-----------------------------------------------------------------------------
(* resolveContext: what the context at the head of tries gives to actor.   *)

Target(h) == Head(req[h].tries)

(* What follows a context that cannot be resolved: a login goes on to its  *)
(* next candidate unless the client asked for this one, a refresh takes    *)
(* the session out of the context, a switch is refused.                    *)
Unresolved(h) ==
    IF req[h].op = "login" /\ ~req[h].strict
      THEN req' = [req EXCEPT ![h].pc = "membership", ![h].tries = Tail(@)]
    ELSE IF req[h].op = "load" /\ ~req[h].strict THEN Goto(h, "downgrade")
    ELSE Done(h)

(* What follows one that can. *)
AfterResolve(op) ==
    CASE op = "login" -> "open" [] op = "switch" -> "update" [] op = "load" -> "issue"

ResolveMembership(h) ==
    LET row == GetMembershipContextForUser(req[h].actor)
    IN  /\ req[h].pc = "membership"
        /\ IF Target(h) = "identity"
             THEN req' = [req EXCEPT ![h].pc = AfterResolve(req[h].op), ![h].scopes = {},
                                     ![h].oav = 0, ![h].mav = 0, ![h].at = now]
           ELSE IF ~row.active THEN Unresolved(h)
           ELSE req' = [req EXCEPT ![h].pc = IF Target(h) \in Stores THEN "store" ELSE "scopes",
                                   ![h].oav = row.oav, ![h].mav = row.mav, ![h].at = now]
        /\ UNCHANGED <<now, tables, tokens>>

GetStoreForOrganization(s) == store[s]

(* The list has only active stores: what is read first is implied. *)
ResolveStore(h) ==
    /\ req[h].pc = "store"
    /\ IF GetStoreForOrganization(Target(h)) /\ Target(h) \in ListStoresForMembership(req[h].actor, now)
         THEN Goto(h, "scopes") ELSE Unresolved(h)
    /\ UNCHANGED <<now, tables, tokens>>

ResolveScopes(h) ==
    /\ req[h].pc = "scopes"
    /\ IF ValidContext(req[h].actor, Target(h))
         THEN req' = [req EXCEPT ![h].pc = AfterResolve(req[h].op),
                                 ![h].scopes = ResolveEffectiveScopes(req[h].actor, Target(h), now)]
         ELSE Unresolved(h)
    /\ UNCHANGED <<now, tables, tokens>>

-----------------------------------------------------------------------------
(* Access tokens. *)

(* Mutant: the token gets the versions of the moment it is signed. *)
ClaimsAtSigning(h, s) ==
    [session |-> s, member |-> req[h].actor, ctx |-> Target(h), scopes |-> req[h].scopes,
     oav |-> IF Target(h) = "identity" THEN 0 ELSE organization.version,
     mav |-> IF Target(h) = "identity" THEN 0 ELSE member[req[h].actor].version,
     exp |-> now + TTL, at |-> req[h].at]

(* at is history: when its resolution began. *)
Claims(h, s) ==
    [session |-> s, member |-> req[h].actor, ctx |-> Target(h), scopes |-> req[h].scopes,
     oav |-> req[h].oav, mav |-> req[h].mav, exp |-> now + TTL, at |-> req[h].at]

(* Clients keep MaxTokens tokens and forget others. *)
issue(h, s) ==
    \E forgotten \in SUBSET tokens :
        /\ tokens' = (tokens \ forgotten) \cup {Claims(h, s)}
        /\ Cardinality(tokens') <= MaxTokens
        /\ forgotten # {} => Cardinality(tokens) = MaxTokens /\ Cardinality(forgotten) = 1

validateContext(t) == session[t.session].ctx = t.ctx

validateVersions(t) ==
    t.ctx # "identity" => t.oav = organization.version /\ t.mav = member[t.member].version

(* RequireAccessToken: the statuses are those of the context that the      *)
(* session has now.                                                        *)
Accepts(t) ==
    /\ now < t.exp
    /\ session[t.session].status = "ACTIVE"
    /\ session[t.session].ctx # "identity" => ValidContext(t.member, session[t.session].ctx)
    /\ validateContext(t)
    /\ validateVersions(t)

-----------------------------------------------------------------------------
(* auth.Service: login, refresh and change of context. *)

(* The contexts a login tries: the one it asks for, or else that of an     *)
(* active session of the same client, the default store, the organization  *)
(* and none.                                                               *)
StartLogin(h, m) ==
    /\ req[h].pc = "idle"
    /\ \E asked \in {"organization"} \cup Stores :
           req' = [req EXCEPT ![h] = [Idle EXCEPT !.pc = "membership", !.op = "login", !.actor = m,
                                                  !.tries = <<asked>>]]
    /\ UNCHANGED <<now, tables, tokens>>

GetLastActiveSessionContextForClient(m) ==
    {<<session[s].ctx>> : s \in {s \in Sessions : session[s].user = m /\ session[s].status = "ACTIVE"}}

(* What a membership gives to try; default_store_id may be any store.  The *)
(* query leaves out a membership that resolveContext would refuse.         *)
ListUserActiveMemberships ==
    {default \o <<"organization">> : default \in {<<>>} \cup {<<s>> : s \in Stores}}

resolveLoginContext(h, m) ==
    /\ req[h].pc = "idle"
    /\ \E last \in {<<>>} \cup GetLastActiveSessionContextForClient(m),
          memberships \in ListUserActiveMemberships :
           req' = [req EXCEPT ![h] =
                       [Idle EXCEPT !.pc = "membership", !.op = "login", !.actor = m, !.strict = FALSE,
                                    !.tries = last \o memberships \o <<"identity">>]]
    /\ UNCHANGED <<now, tables, tokens>>

(* CreateSessionInTx, the token and the COMMIT. *)
OpenSession(h, s) ==
    /\ req[h].pc = "open"
    /\ session[s].status = "NONE"
    /\ session' = [session EXCEPT ![s] = [user |-> req[h].actor, status |-> "ACTIVE", ctx |-> Target(h)]]
    /\ issue(h, s)
    /\ Done(h)
    /\ UNCHANGED <<now, organization, member, store, role, binding>>

(* SwitchContext: its transaction locks the session, tests the target and  *)
(* writes it down; the token is made from what is read afterwards.         *)
SwitchContext(h, s, ctx) ==
    /\ req[h].pc = "idle"
    /\ session[s].status = "ACTIVE" /\ ~SessionHeld(s)
    /\ req' = [req EXCEPT ![h] = [Idle EXCEPT !.pc = "membership", !.op = "switch", !.session = s,
                                              !.actor = session[s].user, !.tries = <<ctx>>]]
    /\ UNCHANGED <<now, tables, tokens>>

UpdateSessionContext(h) ==
    /\ req[h].pc = "update"
    /\ session' = [session EXCEPT ![req[h].session].ctx = Target(h)]
    /\ req' = [req EXCEPT ![h].pc = "view", ![h].op = "load"]
    /\ UNCHANGED <<now, organization, member, store, role, binding, tokens>>

(* Refresh, after the rotation of the refresh token. *)
Refresh(h, s) ==
    /\ req[h].pc = "idle"
    /\ session[s].status = "ACTIVE" /\ ~SessionHeld(s)
    /\ req' = [req EXCEPT ![h] = [Idle EXCEPT !.pc = "view", !.op = "load", !.session = s,
                                              !.actor = session[s].user, !.strict = FALSE]]
    /\ UNCHANGED <<now, tables, tokens>>

loadState(h) ==
    LET s == req[h].session
    IN  /\ req[h].pc = "view"
        /\ IF session[s].status = "ACTIVE"
             THEN req' = [req EXCEPT ![h].pc = "membership", ![h].tries = <<session[s].ctx>>]
             ELSE Done(h)
        /\ UNCHANGED <<now, tables, tokens>>

(* setContext to the identity of the user; loadState is tried once more. *)
Downgrade(h) ==
    LET s == req[h].session
    IN  /\ req[h].pc = "downgrade"
        /\ ~SessionHeld(s)
        /\ IF session[s].status = "ACTIVE"
             THEN /\ session' = [session EXCEPT ![s].ctx = "identity"]
                  /\ req' = [req EXCEPT ![h].pc = "view", ![h].strict = TRUE]
             ELSE Done(h) /\ UNCHANGED session
        /\ UNCHANGED <<now, organization, member, store, role, binding, tokens>>

IssueToken(h) ==
    /\ req[h].pc = "issue"
    /\ issue(h, req[h].session)
    /\ Done(h)
    /\ UNCHANGED <<now, tables>>

-----------------------------------------------------------------------------
(* roles.Service.  The principal of a request has the scopes of a token    *)
(* that was accepted: those of now, or those of a moment at most TTL ago   *)
(* when a binding has expired since.                                       *)

Principals(a) ==
    {ResolveEffectiveScopes(a, "organization", t) : t \in {t \in 0..now : t + TTL >= now}}

(* The five requests: op, who asks, and the fields of the input. *)
Creation(a, r, level, want) ==
    [Idle EXCEPT !.op = "create", !.actor = a, !.role = r, !.level = level, !.want = want]
Update(a, r, want, renamed) ==
    [Idle EXCEPT !.op = "update", !.actor = a, !.role = r, !.want = want, !.flag = renamed]
Status(a, r, active) ==
    [Idle EXCEPT !.op = "status", !.actor = a, !.role = r, !.flag = active]
Assignment(a, m, r, place, until) ==
    [Idle EXCEPT !.op = "bind", !.actor = a, !.target = m, !.role = r, !.place = place, !.until = until]
Removal(a, m, r, place) ==
    [Idle EXCEPT !.op = "unbind", !.actor = a, !.target = m, !.role = r, !.place = place]

(* Every request is one of these five, about members and roles there are. *)
ASSUME RequestsAreKnown ==
    \A q \in RoleRequests :
        /\ q.actor \in Members /\ q.role \in Roles
        /\ \/ /\ q = Creation(q.actor, q.role, q.level, q.want)
              /\ q.level \in {"ORGANIZATION", "STORE"}
           \/ q = Update(q.actor, q.role, q.want, q.flag) /\ q.flag \in BOOLEAN
           \/ q = Status(q.actor, q.role, q.flag) /\ q.flag \in BOOLEAN
           \/ /\ q = Assignment(q.actor, q.target, q.role, q.place, q.until)
              /\ q.target \in Members /\ q.place \in Places /\ q.until \in Nat
           \/ /\ q = Removal(q.actor, q.target, q.role, q.place)
              /\ q.target \in Members /\ q.place \in Places

(* requireActorScope, and the locks of the organization that a removal     *)
(* takes; an expires_at must be to come.                                   *)
Begin(h, q) ==
    /\ req[h].pc = "idle"
    /\ q.op = "bind" => q.until > now
    /\ q.op = "unbind" => ~OrganizationHeld(h)
    /\ \E scopes \in Principals(q.actor) :
           /\ Manage \in scopes
           /\ req' = [req EXCEPT ![h] =
                  [q EXCEPT !.pc = IF q.op \in {"bind", "unbind"} THEN "member" ELSE "role",
                            !.scopes = scopes]]
    /\ UNCHANGED <<now, tables, tokens>>

(* GetMembershipForUpdate.  The owner role is removed in Memberships. *)
LockMember(h) ==
    LET q == req[h]
    IN  /\ q.pc = "member"
        /\ ~MemberHeld(q.target)
        /\ IF q.op = "bind"
             THEN IF member[q.target].status = "ACTIVE" THEN Goto(h, "role") ELSE Done(h)
             ELSE IF GetRoleBindingForOrganization(q.target, q.role, q.place)
                       /\ Owners \notin role[q.role].scopes
                    THEN Goto(h, "write") ELSE Done(h)
        /\ UNCHANGED <<now, tables, tokens>>

ensureGrantSubset(h, requested) == requested \subseteq ResolveActorGrantScopes(req[h].actor)

validateRoleScopes(h, level, want) ==
    /\ GetPermissionScopesByCodes(want) = want
    /\ Assignable(want)
    /\ level = "STORE" => want \subseteq StoreScopes
    /\ ensureGrantSubset(h, want)

(* Whether the request goes on to write, from what it reads under lock. *)
RoleAccepted(h) ==
    LET q == req[h]
        r == role[q.role]
    IN  CASE q.op = "create" -> validateRoleScopes(h, q.level, q.want)
          [] q.op = "update" ->
                 /\ GetRoleWithScopesForOrganization(q.role) /\ r.mutable
                 /\ validateRoleScopes(h, r.level, q.want)
                 /\ q.flag \/ q.want # r.scopes
          [] q.op = "status" ->
                 /\ GetRoleWithScopesForOrganization(q.role) /\ r.mutable
                 /\ r.active # q.flag
                 /\ q.flag => ensureGrantSubset(h, r.scopes)
          [] q.op = "bind" ->
                 /\ GetRoleWithScopesForOrganization(q.role) /\ r.active
                 /\ Owners \in r.scopes => Owners \in q.scopes /\ q.until = Never
                 /\ (r.level = "STORE") = (q.place # None)
                 /\ ensureGrantSubset(h, r.scopes)
                 /\ ListMemberRoleBindings(q.target, q.role, q.place) # q.until

LockRole(h) ==
    LET q == req[h]
    IN  /\ q.pc = "role"
        /\ q.op # "create" /\ role[q.role].mutable => ~LockRoleForScopeChange(q.role)
        /\ IF RoleAccepted(h)
             THEN req' = [req EXCEPT ![h].pc = "write",
                                     ![h].granted = ResolveActorGrantScopes(q.actor)]
             ELSE Done(h)
        /\ UNCHANGED <<now, tables, tokens>>

(* The statements that write, the audit event and the COMMIT. *)
Write(h, op) == req[h].pc = "write" /\ req[h].op = op /\ AuditFree(h) /\ Done(h)

(* roles_organization_id_key_unique refuses a second role with a key. *)
CommitCreate(h) ==
    /\ Write(h, "create")
    /\ IF role[req[h].role].there
         THEN UNCHANGED <<role, organization>>
         ELSE /\ organization.version < MaxVersion
              /\ role' = CreateRole(req[h].role, req[h].level, req[h].want)
              /\ organization' = IncrementOrganizationAuthorizationVersion
    /\ UNCHANGED <<now, member, store, binding, session, tokens>>

UpdateRole(h) ==
    /\ Write(h, "update")
    /\ organization.version < MaxVersion
    /\ role' = ReplaceRoleScopes(req[h].role, req[h].want)
    /\ organization' = IncrementOrganizationAuthorizationVersion
    /\ UNCHANGED <<now, member, store, binding, session, tokens>>

setRoleActive(h) ==
    /\ Write(h, "status")
    /\ organization.version < MaxVersion
    /\ role' = UpdateRoleStatus(req[h].role, req[h].flag)
    /\ organization' = IncrementOrganizationAuthorizationVersion
    /\ UNCHANGED <<now, member, store, binding, session, tokens>>

CreateBinding(h) ==
    LET q == req[h]
    IN  /\ Write(h, "bind")
        /\ member[q.target].version < MaxVersion
        /\ binding' = CreateRoleBinding(q.target, q.role, q.place, q.until)
        /\ member' = IncrementMembershipAuthorizationVersion(q.target)
        /\ UNCHANGED <<now, organization, store, role, session, tokens>>

DeleteBinding(h) ==
    LET q == req[h]
    IN  /\ Write(h, "unbind")
        /\ member[q.target].version < MaxVersion
        /\ binding' = DeleteRoleBinding(q.target, q.role, q.place)
        /\ member' = IncrementMembershipAuthorizationVersion(q.target)
        /\ UNCHANGED <<now, organization, store, role, session, tokens>>

(* A handler dies, its connection breaks, it is refused for what it read   *)
(* before it waited for a lock, or it is the victim of a deadlock: two     *)
(* members who bind each other wait for each other's row.                  *)
Abort(h) ==
    /\ req[h].pc # "idle"
    /\ Done(h)
    /\ UNCHANGED <<now, tables, tokens>>

-----------------------------------------------------------------------------
(* Changes of status. *)

(* RevokeSession changes only an ACTIVE row. *)
EndSessions(S) ==
    session' = [s \in Sessions |-> IF s \in S /\ session[s].status = "ACTIVE" THEN [session[s] EXCEPT !.status = "REVOKED"] ELSE session[s]]

ListSessionIDsForMembership(m) ==
    {s \in Sessions : session[s].user = m /\ session[s].ctx # "identity"}

(* memberships.Service.UpdateStatus, for members who are not owners. *)
UpdateMembershipStatus(m) ==
    LET suspended == member[m].status = "ACTIVE"
    IN  /\ ~\E r \in Roles : Owners \in role[r].scopes /\ Bound(m, r, None, now)
        /\ member[m].version < MaxVersion
        /\ ~MemberHeld(m)
        /\ suspended => \A s \in ListSessionIDsForMembership(m) : ~SessionHeld(s)
        /\ member' = [member EXCEPT ![m] = [status |-> IF suspended THEN "SUSPENDED" ELSE "ACTIVE",
                                            version |-> @.version + 1]]
        /\ EndSessions(IF suspended THEN ListSessionIDsForMembership(m) ELSE {})
        /\ UNCHANGED <<now, organization, store, role, binding, tokens, req>>

(* stores.Service.setStoreStatus. *)
SetStoreStatus(s) ==
    /\ store' = [store EXCEPT ![s] = ~@]
    /\ UNCHANGED <<now, organization, member, role, binding, session, tokens, req>>

RevokeOrganizationSessions ==
    {s \in Sessions : session[s].status = "ACTIVE" /\ session[s].ctx # "identity"}

(* organizations.Service.Archive revokes every session that is in it. *)
ArchiveOrganization ==
    LET inside == RevokeOrganizationSessions
    IN  /\ organization.active /\ organization.version < MaxVersion
        /\ \A s \in inside : ~SessionHeld(s)
        /\ ~\E h \in Handlers : req[h].op = "unbind"
        /\ organization' = [active |-> FALSE, version |-> organization.version + 1]
        /\ EndSessions(inside)
        /\ UNCHANGED <<now, member, store, role, binding, tokens, req>>

Tick ==
    /\ now < MaxTime
    /\ now' = now + 1
    /\ UNCHANGED <<tables, tokens, req>>

-----------------------------------------------------------------------------
Init ==
    /\ now = 0
    /\ organization = [active |-> TRUE, version |-> 1]
    /\ member = [m \in Members |-> [status |-> "ACTIVE", version |-> 1]]
    /\ store = [s \in Stores |-> TRUE]
    /\ role = FirstRoles
    /\ binding = FirstBindings
    /\ session = [s \in Sessions |-> [user |-> None, status |-> "NONE", ctx |-> "identity"]]
    /\ tokens = {}
    /\ req = [h \in Handlers |-> Idle]

ClientRequest(h) ==
    \/ \E m \in Clients : StartLogin(h, m) \/ resolveLoginContext(h, m)
    \/ \E s \in Sessions :
          Refresh(h, s) \/ \E ctx \in Contexts : SwitchContext(h, s, ctx)

Progress(h) ==
    \/ ResolveMembership(h) \/ ResolveStore(h) \/ ResolveScopes(h)
    \/ \E s \in Sessions : OpenSession(h, s)
    \/ UpdateSessionContext(h) \/ loadState(h) \/ Downgrade(h) \/ IssueToken(h)
    \/ LockMember(h) \/ LockRole(h)
    \/ CommitCreate(h) \/ UpdateRole(h) \/ setRoleActive(h) \/ CreateBinding(h) \/ DeleteBinding(h)

Next ==
    \/ \E h \in ClientHandlers : ClientRequest(h)
    \/ \E h \in RoleHandlers, q \in RoleRequests : Begin(h, q)
    \/ \E h \in Handlers : Progress(h) \/ Abort(h)
    \/ \E m \in Members : UpdateMembershipStatus(m)
    \/ \E s \in Stores : SetStoreStatus(s)
    \/ ArchiveOrganization
    \/ Tick

Spec == Init /\ [][Next]_vars

-----------------------------------------------------------------------------
(* Properties. *)

(* resolveContext, roles.Service and RequireAccessToken: a token that is   *)
(* accepted carries no scope, and is for no store, that its member would   *)
(* not be given now.  Only the passing of a binding's expires_at goes      *)
(* unnoticed: the token may go on until its own exp, but it was made while *)
(* the binding was alive.                                                  *)
AcceptedTokensAreEarned ==
    \A t \in tokens : Accepts(t) =>
        IF t.ctx = "identity" THEN t.scopes = {}
        ELSE /\ t.scopes \subseteq ResolveEffectiveScopes(t.member, t.ctx, t.at)
             /\ t.ctx \in Stores => t.ctx \in ListStoresForMembership(t.member, t.at)

Powers(m) ==
    ScopesOf({r \in Roles : role[r].active /\ \E place \in Places : Bound(m, r, place, now)})

(* ensureGrantSubset: what a member gains in a step, its actor could pass  *)
(* on when it was asked, although roles are widened, made active and bound *)
(* at the same time by members with different powers.                      *)
NobodyGrantsMoreThanTheyHold ==
    [][\A m \in Members :
          Powers(m)' \ Powers(m) \subseteq
              UNION {req[h].granted : h \in {h \in Handlers : req[h].pc = "write" /\ req'[h].pc = "idle"}}]_vars
=============================================================================
