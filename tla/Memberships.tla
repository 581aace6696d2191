---------------------------- MODULE Memberships ----------------------------
(***************************************************************************)
(* Who belongs to an organization and who owns it: memberships and their   *)
(* status, the owner role binding, and the invitations through which       *)
(* members join.  One organization is modelled; no statement spans two.    *)
(*                                                                         *)
(* As in the other modules a request is one READ COMMITTED transaction cut *)
(* at its locking statements, and its writes appear with its COMMIT.  The  *)
(* organization row has two kinds of locks: FOR UPDATE, and the KEY SHARE  *)
(* lock every insert takes whose foreign key refers to the organization.   *)
(* The audit event of each handler is such an insert.  KEY SHARE locks on  *)
(* membership rows are left out, which only adds interleavings.            *)
(*                                                                         *)
(* The actor's scopes are those of its access token; what the token proves *)
(* is not the business of this module, and any actor is assumed.  Sessions *)
(* these handlers end and authorization versions they raise are left out,  *)
(* and so are requests that are refused without a trace.                   *)
(***************************************************************************)
EXTENDS Naturals, FiniteSets

CONSTANTS
    Members,        \* ids of rows of organization_memberships
    Users,          \* users, each with one email address
    Invitations,    \* ids of rows of organization_invitations
    Requests,       \* request handlers that run concurrently
    Crashes,        \* whether handlers may die or lose their connection
    None            \* no holder, no member, no user, no invitation

ASSUME MembersFinite == IsFiniteSet(Members)
ASSUME MembershipCrashesBoolean == Crashes \in BOOLEAN
ASSUME NoneIsNobody ==
    /\ None \notin Requests /\ None \notin Members
    /\ None \notin Users /\ None \notin Invitations

VARIABLES
    status, user,   \* organization_memberships: status and user_id
    owns,           \* whether a membership has the owner role binding
    istatus,        \* organization_invitations: status
    invitee,        \* the user with the invited email address
    grants,         \* whether the invitation carries the owner role
    overdue,        \* whether expires_at of the invitation has passed
    archived,       \* whether the organization is archived
    orgLock,        \* request that locked the organization FOR UPDATE
    orgShared,      \* requests with a KEY SHARE lock on the organization
    memberLock, invitationLock,     \* requests that hold the row locks
    joining,        \* uncommitted key of idx_..._memberships_active_user
    inviting,       \* uncommitted key of idx_..._invitations_pending_email
    req             \* what each request handler is doing

tables == <<status, user, owns, istatus, invitee, grants, overdue, archived>>
locks == <<orgLock, orgShared, memberLock, invitationLock, joining, inviting>>
vars == <<tables, locks, req>>

MemberStatuses == {"ABSENT", "ACTIVE", "SUSPENDED", "REMOVED"}
InvitationStatuses == {"NONE", "PENDING", "ACCEPTED", "REVOKED", "EXPIRED"}

ActiveOwners == {m \in Members : status[m] = "ACTIVE" /\ owns[m]}
Live(m) == status[m] \in {"ACTIVE", "SUSPENDED"}

-----------------------------------------------------------------------------
(* Requests. *)

Steps == {"idle", "bound", "count", "visit", "grant", "read", "lock", "join",
          "joined", "accepted", "invite", "bind", "invited", "manage"}
Kinds == {"none", "status", "unbind", "bind", "accept", "invite", "revoke", "resend"}

(* member is the membership acted on, for an invitation its inviter; to is *)
(* the requested status; pending are the owners a count has still to visit *)
(* and counted those it locked; user and owner are the invited user and    *)
(* whether it is to become an owner.                                       *)
Request ==
    [pc : Steps, kind : Kinds, member : Members \cup {None}, to : MemberStatuses,
     pending : SUBSET Members, counted : SUBSET Members,
     invitation : Invitations \cup {None}, user : Users \cup {None}, owner : BOOLEAN]

Counting(pc, kind, m, to, P, C) ==
    [pc |-> pc, kind |-> kind, member |-> m, to |-> to, pending |-> P, counted |-> C,
     invitation |-> None, user |-> None, owner |-> FALSE]

Handling(pc, kind, m, i, u, o) ==
    [pc |-> pc, kind |-> kind, member |-> m, to |-> "ABSENT", pending |-> {},
     counted |-> {}, invitation |-> i, user |-> u, owner |-> o]

Idle == Handling("idle", "none", None, None, None, FALSE)

Free(lock, m, r) == lock[m] \in {None, r}

(* An insert that refers to the organization waits for FOR UPDATE only. *)
OrgFree(r) == orgLock \in {None, r}

-----------------------------------------------------------------------------
(* The end of a transaction. *)

Without(lock, r) == [x \in DOMAIN lock |-> IF lock[x] = r THEN None ELSE lock[x]]

ReleaseLocks(r) ==
    /\ orgLock' = IF orgLock = r THEN None ELSE orgLock
    /\ orgShared' = orgShared \ {r}
    /\ memberLock' = Without(memberLock, r)
    /\ invitationLock' = Without(invitationLock, r)
    /\ joining' = Without(joining, r)
    /\ inviting' = Without(inviting, r)

Finish(r) == ReleaseLocks(r) /\ req' = [req EXCEPT ![r] = Idle]

Rollback(r) == Finish(r) /\ UNCHANGED tables

-----------------------------------------------------------------------------
(* memberships.Service.UpdateStatus and roles.Service.DeleteBinding, which *)
(* lock the organization, count its owners and keep the last one.          *)

(* Mutant: the organization is not locked. *)
LockForStatusUnserialized(r, m, to) ==
    /\ req[r].pc = "idle"
    /\ status[m] # "ABSENT"
    /\ req' = [req EXCEPT ![r] = Counting("count", "status", m, to, {}, {})]
    /\ UNCHANGED <<tables, locks>>

(* LockOrganizationForOwnerChange. *)
LockForStatus(r, m, to) ==
    /\ req[r].pc = "idle"
    /\ status[m] # "ABSENT"
    /\ orgLock = None /\ orgShared = {}
    /\ orgLock' = r
    /\ req' = [req EXCEPT ![r] = Counting("count", "status", m, to, {}, {})]
    /\ UNCHANGED <<tables, orgShared, memberLock, invitationLock, joining, inviting>>

LockForUnbind(r, m) ==
    /\ req[r].pc = "idle"
    /\ status[m] # "ABSENT"
    /\ orgLock = None /\ orgShared = {}
    /\ orgLock' = r
    /\ req' = [req EXCEPT ![r] = Counting("bound", "unbind", m, "ABSENT", {}, {})]
    /\ UNCHANGED <<tables, orgShared, memberLock, invitationLock, joining, inviting>>

(* DeleteBinding locks the membership and looks for the binding. *)
LockBound(r) ==
    LET m == req[r].member
    IN  /\ req[r].pc = "bound"
        /\ memberLock[m] = None
        /\ IF owns[m]
             THEN /\ memberLock' = [memberLock EXCEPT ![m] = r]
                  /\ req' = [req EXCEPT ![r] =
                                 Counting("count", "unbind", m, "ABSENT", {}, {})]
                  /\ UNCHANGED <<tables, orgLock, orgShared, invitationLock,
                                 joining, inviting>>
             ELSE Rollback(r)

(* CountActiveOwnersForUpdate takes its snapshot and then visits the rows. *)
CountOwners(r) ==
    /\ req[r].pc = "count"
    /\ req' = [req EXCEPT ![r] = Counting("visit", req[r].kind, req[r].member,
                                         req[r].to, ActiveOwners, {})]
    /\ UNCHANGED <<tables, locks>>

VisitOwner(r, m) ==
    LET hit == m \in ActiveOwners
    IN  /\ req[r].pc = "visit"
        /\ m \in req[r].pending
        /\ Free(memberLock, m, r)
        /\ memberLock' = IF hit THEN [memberLock EXCEPT ![m] = r] ELSE memberLock
        /\ req' = [req EXCEPT ![r] =
                       Counting("visit", req[r].kind, req[r].member, req[r].to,
                                req[r].pending \ {m},
                                req[r].counted \cup (IF hit THEN {m} ELSE {}))]
        /\ UNCHANGED <<tables, orgLock, orgShared, invitationLock, joining, inviting>>

ValidTransition(from, to) ==
    \/ from = "ACTIVE" /\ to \in {"SUSPENDED", "REMOVED"}
    \/ from = "SUSPENDED" /\ to \in {"ACTIVE", "REMOVED"}

(* Mutant: suspending the last owner is let through. *)
CommitStatusSuspendsLast(r) ==
    LET m == req[r].member
        to == req[r].to
    IN  /\ req[r].pc = "visit" /\ req[r].kind = "status" /\ req[r].pending = {}
        /\ Free(memberLock, m, r)
        /\ IF \/ ~ValidTransition(status[m], to)
              \/ m \in ActiveOwners /\ to = "REMOVED" /\ Cardinality(req[r].counted) <= 1
             THEN Rollback(r)
             ELSE /\ status' = [status EXCEPT ![m] = to]
                  /\ Finish(r)
                  /\ UNCHANGED <<user, owns, istatus, invitee, grants, overdue, archived>>

(* The target is locked and its status and bindings are read; an owner who *)
(* leaves ACTIVE must not be the last.  A change to the same status is no  *)
(* change.                                                                 *)
CommitStatus(r) ==
    LET m == req[r].member
        to == req[r].to
    IN  /\ req[r].pc = "visit" /\ req[r].kind = "status" /\ req[r].pending = {}
        /\ Free(memberLock, m, r)
        /\ IF \/ ~ValidTransition(status[m], to)
              \/ m \in ActiveOwners /\ to # "ACTIVE" /\ Cardinality(req[r].counted) <= 1
             THEN Rollback(r)
             ELSE /\ status' = [status EXCEPT ![m] = to]
                  /\ Finish(r)
                  /\ UNCHANGED <<user, owns, istatus, invitee, grants, overdue, archived>>

CommitUnbind(r) ==
    LET m == req[r].member
    IN  /\ req[r].pc = "visit" /\ req[r].kind = "unbind" /\ req[r].pending = {}
        /\ IF status[m] = "ACTIVE" /\ Cardinality(req[r].counted) <= 1
             THEN Rollback(r)
             ELSE /\ owns' = [owns EXCEPT ![m] = FALSE]
                  /\ Finish(r)
                  /\ UNCHANGED <<status, user, istatus, invitee, grants, overdue, archived>>

-----------------------------------------------------------------------------
(* roles.Service.CreateBinding for the owner role. *)

(* Only an active member can get the role, and only from an active owner   *)
(* (ensureGrantSubset); one who has it already gets nothing new.           *)
LockGranted(r, m) ==
    /\ req[r].pc = "idle"
    /\ memberLock[m] = None
    /\ status[m] = "ACTIVE" /\ ~owns[m]
    /\ ActiveOwners # {}
    /\ memberLock' = [memberLock EXCEPT ![m] = r]
    /\ req' = [req EXCEPT ![r] = Handling("grant", "bind", m, None, None, TRUE)]
    /\ UNCHANGED <<tables, orgLock, orgShared, invitationLock, joining, inviting>>

(* Mutant: the audit event is not written in the transaction. *)
CommitGrantUnaudited(r) ==
    /\ req[r].pc = "grant"
    /\ owns' = [owns EXCEPT ![req[r].member] = TRUE]
    /\ Finish(r)
    /\ UNCHANGED <<status, user, istatus, invitee, grants, overdue, archived>>

(* CreateRoleBinding, the audit event, which waits for the organization,   *)
(* and the COMMIT.                                                         *)
CommitGrant(r) ==
    /\ req[r].pc = "grant"
    /\ OrgFree(r)
    /\ owns' = [owns EXCEPT ![req[r].member] = TRUE]
    /\ Finish(r)
    /\ UNCHANGED <<status, user, istatus, invitee, grants, overdue, archived>>

-----------------------------------------------------------------------------
(* invitations.Service.Accept. *)

LockInvitation(r, i) ==
    /\ req[r].pc = "idle"
    /\ invitationLock[i] = None
    /\ istatus[i] = "PENDING" /\ ~overdue[i]
    /\ ~archived
    /\ invitationLock' = [invitationLock EXCEPT ![i] = r]
    /\ req' = [req EXCEPT ![r] = Handling("read", "accept", None, i, invitee[i], grants[i])]
    /\ UNCHANGED <<tables, orgLock, orgShared, memberLock, joining, inviting>>

(* The membership pc goes on with. *)
GoOn(r, pc, m) ==
    req' = [req EXCEPT ![r] =
                Handling(pc, req[r].kind, m, req[r].invitation, req[r].user, req[r].owner)]

(* ensureMembership reads the latest membership without a lock.  The       *)
(* creation time is the start of the transaction that inserted the row, so *)
(* a removed membership can hide a live one.                               *)
ReadMembership(r, m) ==
    /\ req[r].pc = "read"
    /\ user[m] = req[r].user /\ Live(m)
    /\ GoOn(r, "lock", m)
    /\ UNCHANGED <<tables, locks>>

ReadNoMembership(r) ==
    /\ req[r].pc = "read"
    /\ \/ \A m \in Members : user[m] = req[r].user => ~Live(m)
       \/ \E m \in Members : user[m] = req[r].user /\ status[m] = "REMOVED"
    /\ GoOn(r, "join", None)
    /\ UNCHANGED <<tables, locks>>

LockJoined(r) ==
    LET m == req[r].member
    IN  /\ req[r].pc = "lock"
        /\ memberLock[m] = None
        /\ memberLock' = [memberLock EXCEPT ![m] = r]
        /\ GoOn(r, "joined", m)
        /\ UNCHANGED <<tables, orgLock, orgShared, invitationLock, joining, inviting>>

(* CreateMembership: the unique index waits for another insert of the user *)
(* and refuses a second live membership.                                   *)
InsertMembership(r, m) ==
    LET u == req[r].user
    IN  /\ req[r].pc = "join"
        /\ status[m] = "ABSENT" /\ memberLock[m] = None
        /\ joining[u] = None
        /\ OrgFree(r)
        /\ IF \E n \in Members : user[n] = u /\ Live(n)
             THEN Rollback(r)
             ELSE /\ joining' = [joining EXCEPT ![u] = r]
                  /\ memberLock' = [memberLock EXCEPT ![m] = r]
                  /\ orgShared' = orgShared \cup {r}
                  /\ GoOn(r, "joined", m)
                  /\ UNCHANGED <<tables, orgLock, invitationLock, inviting>>

(* Mutant: the scopes of a membership that grants none are empty. *)
ResolveScopesUnchecked(r) ==
    /\ req[r].pc = "joined"
    /\ OrgFree(r)
    /\ orgShared' = orgShared \cup {r}
    /\ GoOn(r, "accepted", req[r].member)
    /\ UNCHANGED <<tables, orgLock, memberLock, invitationLock, joining, inviting>>

(* The audit event waits for the organization, and ResolveEffectiveScopes  *)
(* then finds no row if it is archived or the membership was removed before*)
(* it could be locked.                                                     *)
ResolveScopes(r) ==
    /\ req[r].pc = "joined"
    /\ OrgFree(r)
    /\ IF archived \/ status[req[r].member] = "REMOVED"
         THEN Rollback(r)
         ELSE /\ orgShared' = orgShared \cup {r}
              /\ GoOn(r, "accepted", req[r].member)
              /\ UNCHANGED <<tables, orgLock, memberLock, invitationLock, joining, inviting>>

(* A new membership is ACTIVE and a suspended one becomes ACTIVE, the      *)
(* latter without its former bindings; the bindings of the invitation are  *)
(* added to those that are left.                                           *)
CommitAccept(r) ==
    LET m == req[r].member
    IN  /\ req[r].pc = "accepted"
        /\ status' = [status EXCEPT ![m] =
                          IF status[m] = "REMOVED" THEN "REMOVED" ELSE "ACTIVE"]
        /\ user' = [user EXCEPT ![m] = req[r].user]
        /\ owns' = [owns EXCEPT ![m] =
                        req[r].owner \/ (owns[m] /\ status[m] # "SUSPENDED")]
        /\ istatus' = [istatus EXCEPT ![req[r].invitation] = "ACCEPTED"]
        /\ Finish(r)
        /\ UNCHANGED <<invitee, grants, overdue, archived>>

-----------------------------------------------------------------------------
(* invitations.Service.Create, Revoke and Resend. *)

Pending(u) == {i \in Invitations : istatus[i] = "PENDING" /\ invitee[i] = u}

(* The inviter must be an active member, and an owner to invite one.       *)
(* ExpirePendingInvitationsForEmail locks the overdue invitations.         *)
ExpirePending(r, a, u, o) ==
    LET stale == {i \in Pending(u) : overdue[i]}
    IN  /\ req[r].pc = "idle"
        /\ status[a] = "ACTIVE"
        /\ o => a \in ActiveOwners
        /\ \A i \in stale : invitationLock[i] = None
        /\ invitationLock' = [i \in Invitations |->
                                 IF i \in stale THEN r ELSE invitationLock[i]]
        /\ req' = [req EXCEPT ![r] = Handling("invite", "invite", a, None, u, o)]
        /\ UNCHANGED <<tables, orgLock, orgShared, memberLock, joining, inviting>>

(* The request goes on with the invitation it inserts. *)
GoOnWith(r, pc, i) ==
    req' = [req EXCEPT ![r] =
                Handling(pc, req[r].kind, req[r].member, i, req[r].user, req[r].owner)]

(* CreateInvitation: the unique index waits for another insert of the      *)
(* address and refuses a second pending invitation.                        *)
InsertInvitation(r, i) ==
    LET u == req[r].user
    IN  /\ req[r].pc = "invite"
        /\ istatus[i] = "NONE" /\ invitationLock[i] = None
        /\ inviting[u] = None
        /\ OrgFree(r)
        /\ IF \E j \in Pending(u) : invitationLock[j] # r
             THEN Rollback(r)
             ELSE /\ inviting' = [inviting EXCEPT ![u] = r]
                  /\ invitationLock' = [invitationLock EXCEPT ![i] = r]
                  /\ orgShared' = orgShared \cup {r}
                  /\ GoOnWith(r, "bind", i)
                  /\ UNCHANGED <<tables, orgLock, memberLock, joining>>

(* The trigger on invitation_role_bindings asks for an owner once more. *)
CheckInviter(r) ==
    /\ req[r].pc = "bind"
    /\ IF req[r].owner /\ req[r].member \notin ActiveOwners
         THEN Rollback(r)
         ELSE /\ GoOnWith(r, "invited", req[r].invitation)
              /\ UNCHANGED <<tables, locks>>

CommitInvite(r) ==
    LET i == req[r].invitation
    IN  /\ req[r].pc = "invited"
        /\ istatus' = [j \in Invitations |->
                          IF j = i THEN "PENDING"
                          ELSE IF invitationLock[j] = r THEN "EXPIRED" ELSE istatus[j]]
        /\ invitee' = [invitee EXCEPT ![i] = req[r].user]
        /\ grants' = [grants EXCEPT ![i] = req[r].owner]
        /\ overdue' = [overdue EXCEPT ![i] = FALSE]
        /\ Finish(r)
        /\ UNCHANGED <<status, user, owns, archived>>

(* Mutant: the invitation is read without FOR UPDATE. *)
LockManagedUnlocked(r, i, kind) ==
    /\ req[r].pc = "idle"
    /\ istatus[i] = "PENDING"
    /\ kind = "revoke" => ~overdue[i]
    /\ req' = [req EXCEPT ![r] = Handling("manage", kind, None, i, None, FALSE)]
    /\ UNCHANGED <<tables, locks>>

(* invitationStateError: only a resend takes an overdue invitation. *)
LockManaged(r, i, kind) ==
    /\ req[r].pc = "idle"
    /\ invitationLock[i] = None
    /\ istatus[i] = "PENDING"
    /\ kind = "revoke" => ~overdue[i]
    /\ invitationLock' = [invitationLock EXCEPT ![i] = r]
    /\ req' = [req EXCEPT ![r] = Handling("manage", kind, None, i, None, FALSE)]
    /\ UNCHANGED <<tables, orgLock, orgShared, memberLock, joining, inviting>>

CommitRevoke(r) ==
    /\ req[r].pc = "manage" /\ req[r].kind = "revoke"
    /\ OrgFree(r)
    /\ istatus' = [istatus EXCEPT ![req[r].invitation] = "REVOKED"]
    /\ Finish(r)
    /\ UNCHANGED <<status, user, owns, invitee, grants, overdue, archived>>

CommitResend(r) ==
    /\ req[r].pc = "manage" /\ req[r].kind = "resend"
    /\ OrgFree(r)
    /\ istatus' = [istatus EXCEPT ![req[r].invitation] = "PENDING"]
    /\ overdue' = [overdue EXCEPT ![req[r].invitation] = FALSE]
    /\ Finish(r)
    /\ UNCHANGED <<status, user, owns, invitee, grants, archived>>

-----------------------------------------------------------------------------
(* organizations.Service.Archive, and the clock. *)

Archive(r) ==
    /\ req[r].pc = "idle"
    /\ orgLock = None /\ orgShared = {}
    /\ ~archived
    /\ archived' = TRUE
    /\ UNCHANGED <<status, user, owns, istatus, invitee, grants, overdue, locks, req>>

Overdue(i) ==
    /\ istatus[i] = "PENDING" /\ ~overdue[i]
    /\ overdue' = [overdue EXCEPT ![i] = TRUE]
    /\ UNCHANGED <<status, user, owns, istatus, invitee, grants, archived, locks, req>>

-----------------------------------------------------------------------------
(* Lock waits.  A count of owners wants memberships while it has the       *)
(* organization; a grant and an acceptance want the organization while they*)
(* have a membership.                                                      *)

WaitsFor(r, q) ==
    /\ r # q
    /\ \/ req[r].pc \in {"bound", "lock"} /\ memberLock[req[r].member] = q
       \/ req[r].pc = "visit" /\ \E m \in req[r].pending : memberLock[m] = q
       \/ /\ req[r].pc = "visit" /\ req[r].pending = {}
          /\ memberLock[req[r].member] = q
       \/ req[r].pc \in {"grant", "join", "joined", "invite", "manage"} /\ orgLock = q
       \/ req[r].pc = "join" /\ joining[req[r].user] = q
       \/ req[r].pc = "invite" /\ inviting[req[r].user] = q

(* Each of S waits for one of S, and is waited for by one. *)
InCircle(S) == \A x \in S : \E y, z \in S : WaitsFor(x, y) /\ WaitsFor(z, x)

Deadlocked(r) == \E S \in SUBSET Requests : r \in S /\ InCircle(S)

(* The bounded model has no id left for the row to insert. *)
OutOfIds(r) ==
    \/ req[r].pc = "join" /\ \A m \in Members : status[m] # "ABSENT"
    \/ req[r].pc = "invite" /\ \A i \in Invitations : istatus[i] # "NONE"

Abort(r) == (Deadlocked(r) \/ OutOfIds(r)) /\ Rollback(r)

Crash(r) == Crashes /\ req[r].pc # "idle" /\ Rollback(r)

-----------------------------------------------------------------------------
(* The bootstrap of the organization leaves one member, its owner. *)
Init ==
    /\ \E m \in Members, u \in Users :
          /\ status = [n \in Members |-> IF n = m THEN "ACTIVE" ELSE "ABSENT"]
          /\ user = [n \in Members |-> IF n = m THEN u ELSE None]
          /\ owns = [n \in Members |-> n = m]
    /\ istatus = [i \in Invitations |-> "NONE"]
    /\ invitee = [i \in Invitations |-> None]
    /\ grants = [i \in Invitations |-> FALSE]
    /\ overdue = [i \in Invitations |-> FALSE]
    /\ archived = FALSE
    /\ orgLock = None
    /\ orgShared = {}
    /\ memberLock = [m \in Members |-> None]
    /\ invitationLock = [i \in Invitations |-> None]
    /\ joining = [u \in Users |-> None]
    /\ inviting = [u \in Users |-> None]
    /\ req = [r \in Requests |-> Idle]

Arrival(r) ==
    \/ \E m \in Members :
          \/ \E to \in {"ACTIVE", "SUSPENDED", "REMOVED"} : LockForStatus(r, m, to)
          \/ LockForUnbind(r, m)
          \/ LockGranted(r, m)
          \/ \E u \in Users, o \in BOOLEAN : ExpirePending(r, m, u, o)
    \/ \E i \in Invitations :
          LockInvitation(r, i) \/ \E kind \in {"revoke", "resend"} : LockManaged(r, i, kind)
    \/ Archive(r)

Progress(r) ==
    \/ LockBound(r)
    \/ CountOwners(r)
    \/ \E m \in Members :
          VisitOwner(r, m) \/ ReadMembership(r, m) \/ InsertMembership(r, m)
    \/ CommitStatus(r)
    \/ CommitUnbind(r)
    \/ CommitGrant(r)
    \/ ReadNoMembership(r)
    \/ LockJoined(r)
    \/ ResolveScopes(r)
    \/ CommitAccept(r)
    \/ \E i \in Invitations : InsertInvitation(r, i)
    \/ CheckInviter(r)
    \/ CommitInvite(r)
    \/ CommitRevoke(r)
    \/ CommitResend(r)

Next ==
    \/ \E r \in Requests : Arrival(r) \/ Progress(r) \/ Abort(r) \/ Crash(r)
    \/ \E i \in Invitations : Overdue(i)

Spec == Init /\ [][Next]_vars

-----------------------------------------------------------------------------
(* Properties. *)

(* Type correctness of the tables, locks and request records. *)
TypeOK ==
    /\ status \in [Members -> MemberStatuses]
    /\ user \in [Members -> Users \cup {None}]
    /\ owns \in [Members -> BOOLEAN]
    /\ istatus \in [Invitations -> InvitationStatuses]
    /\ invitee \in [Invitations -> Users \cup {None}]
    /\ grants \in [Invitations -> BOOLEAN]
    /\ overdue \in [Invitations -> BOOLEAN]
    /\ archived \in BOOLEAN
    /\ orgLock \in Requests \cup {None}
    /\ orgShared \in SUBSET Requests
    /\ memberLock \in [Members -> Requests \cup {None}]
    /\ invitationLock \in [Invitations -> Requests \cup {None}]
    /\ joining \in [Users -> Requests \cup {None}]
    /\ inviting \in [Users -> Requests \cup {None}]
    /\ req \in [Requests -> Request]

(* ErrLastOwnerRequired: an organization always has an active owner,       *)
(* however many suspensions, removals and unbindings of owners race.       *)
LastOwner == ActiveOwners # {}

(* A user has at most one membership that is not removed and at most one   *)
(* pending invitation, also when two of them are accepted or made at once. *)
OnePerUser ==
    /\ \A m, n \in Members : Live(m) /\ Live(n) /\ user[m] = user[n] => m = n
    /\ \A i, j \in Invitations :
           istatus[i] = "PENDING" /\ istatus[j] = "PENDING" /\ invitee[i] = invitee[j]
               => i = j

(* LockActiveOwnerMembershipsForUpdate "serializes all owner-changing      *)
(* operations on the organization row": while a request has that row, the  *)
(* set of active owners changes by its own hand only.  Grants and accepted *)
(* invitations keep to it although they never lock the row themselves.     *)
OwnersSerialized ==
    [][\A r \in Requests :
          orgLock = r /\ ActiveOwners' # ActiveOwners => req'[r] # req[r]]_vars

(* Accept: an invitation counts as accepted only once its user is an active*)
(* member, and an owner if it says so, of an organization that is not      *)
(* archived, although membership and organization were read without locks. *)
AcceptedJoins ==
    [][\A i \in Invitations :
          istatus[i] # "ACCEPTED" /\ istatus'[i] = "ACCEPTED" =>
              /\ ~archived'
              /\ \E m \in Members :
                     /\ user'[m] = invitee[i] /\ status'[m] = "ACTIVE"
                     /\ grants[i] => owns'[m]]_vars

(* "only an active owner can invite another owner": the inviter is one     *)
(* still when the transaction that makes an owner invitation commits.      *)
OwnersInviteOwners ==
    [][\A r \in Requests :
          CommitInvite(r) /\ req[r].owner => req[r].member \in ActiveOwners]_vars

(* Removed memberships and accepted, revoked or expired invitations stay   *)
(* so, whichever of two handlers of one invitation comes second.           *)
EndsStand ==
    [][/\ \A m \in Members : status[m] = "REMOVED" => status'[m] = "REMOVED"
       /\ \A i \in Invitations :
              istatus[i] \in {"ACCEPTED", "REVOKED", "EXPIRED"} =>
                  istatus'[i] = istatus[i]]_vars

(* What a transaction in progress may rely on.  A count has the            *)
(* organization, and what it has visited and has still to visit are the    *)
(* active owners, no more and no fewer.                                    *)
OwnersHeld(r) ==
    /\ req[r].pc \in {"bound", "count", "visit"} =>
           /\ orgLock = r
           /\ req[r].member \in Members /\ status[req[r].member] # "ABSENT"
           /\ req[r].kind \in {"status", "unbind"}
    /\ req[r].pc \in {"count", "visit"} /\ req[r].kind = "unbind" =>
           memberLock[req[r].member] = r /\ owns[req[r].member]
    /\ req[r].pc = "visit" => req[r].pending \cup req[r].counted = ActiveOwners
    /\ \A m \in req[r].counted : memberLock[m] = r

(* A grant has its active member; an acceptance has its invitation and then*)
(* the membership, which is a new one only if the user has no other.       *)
MemberHeld(r) ==
    /\ req[r].pc = "grant" =>
           /\ req[r].member \in Members /\ memberLock[req[r].member] = r
           /\ status[req[r].member] = "ACTIVE"
    /\ req[r].pc \in {"read", "lock", "join", "joined", "accepted"} =>
           /\ req[r].kind = "accept" /\ req[r].invitation \in Invitations
           /\ invitationLock[req[r].invitation] = r
           /\ istatus[req[r].invitation] = "PENDING"
           /\ req[r].user = invitee[req[r].invitation]
           /\ req[r].owner = grants[req[r].invitation]
    /\ req[r].pc \in {"lock", "joined", "accepted"} =>
           /\ req[r].member \in Members
           /\ status[req[r].member] # "ABSENT" => user[req[r].member] = req[r].user
    /\ req[r].pc = "lock" => status[req[r].member] # "ABSENT"
    /\ req[r].pc \in {"joined", "accepted"} =>
           /\ memberLock[req[r].member] = r
           /\ status[req[r].member] = "ABSENT" =>
                  /\ r \in orgShared /\ joining[req[r].user] = r
                  /\ \A n \in Members : user[n] = req[r].user => ~Live(n)
    /\ req[r].pc = "accepted" =>
           r \in orgShared /\ ~archived /\ status[req[r].member] # "REMOVED"

(* An invitation in the making has its address, and the organization, so   *)
(* that its inviter stays an owner.                                        *)
InvitationHeld(r) ==
    /\ req[r].pc = "idle" => \A j \in Invitations : invitationLock[j] # r
    /\ req[r].pc \in {"invite", "bind", "invited"} =>
           /\ req[r].kind = "invite" /\ req[r].member \in Members
           /\ req[r].user \in Users
           /\ \A j \in Invitations : invitationLock[j] = r /\ j # req[r].invitation =>
                  istatus[j] = "PENDING"
    /\ req[r].pc = "invite" => req[r].invitation = None
    /\ req[r].pc \in {"bind", "invited"} =>
           /\ req[r].invitation \in Invitations
           /\ invitationLock[req[r].invitation] = r
           /\ istatus[req[r].invitation] = "NONE"
           /\ r \in orgShared /\ inviting[req[r].user] = r
           /\ \A j \in Pending(req[r].user) : invitationLock[j] = r
    /\ req[r].pc = "invited" /\ req[r].owner => req[r].member \in ActiveOwners
    /\ req[r].pc = "manage" =>
           /\ req[r].kind \in {"revoke", "resend"}
           /\ req[r].invitation \in Invitations
           /\ invitationLock[req[r].invitation] = r
           /\ istatus[req[r].invitation] = "PENDING"

(* Nobody shares the organization with the one who locked it, and rows     *)
(* refer to users.                                                         *)
RowsInOrder ==
    /\ orgLock # None => orgShared \subseteq {orgLock}
    /\ \A m \in Members : status[m] # "ABSENT" => user[m] \in Users
    /\ \A i \in Invitations : istatus[i] # "NONE" => invitee[i] \in Users

(* Row locks, foreign keys and unique indexes together protect what every  *)
(* transaction in progress has read until it commits.                      *)
ReadsProtected ==
    /\ RowsInOrder
    /\ \A r \in Requests : OwnersHeld(r) /\ MemberHeld(r) /\ InvitationHeld(r)

(* A deadlock takes an owner count, which has the organization and wants   *)
(* memberships, and a grant or an acceptance, which has a membership and   *)
(* wants the organization for its audit event.  Two owner counts never     *)
(* lock each other out, whatever their owners and targets, and no other    *)
(* handler is ever a victim.                                               *)
DeadlocksCountAgainstGrant ==
    \A S \in (SUBSET Requests) \ {{}} : InCircle(S) =>
        /\ orgLock \in S /\ req[orgLock].kind \in {"status", "unbind"}
        /\ \A r \in S \ {orgLock} : req[r].kind \in {"bind", "accept"}
=============================================================================
