-------------------------- MODULE MembershipsProofs --------------------------
(***************************************************************************)
(* The safety properties of Memberships, for any number of memberships,    *)
(* users, invitations and concurrent requests, with and without crashes.   *)
(***************************************************************************)
EXTENDS Memberships, FiniteSetTheorems, TLAPS

Held(r) == OwnersHeld(r) /\ MemberHeld(r) /\ InvitationHeld(r)

(* What the committed tables and the locks on the organization satisfy. *)
Tables == RowsInOrder /\ LastOwner /\ OnePerUser

Inv == TypeOK /\ Tables /\ \A r \in Requests : Held(r)

Holders == Requests \cup {None}

-----------------------------------------------------------------------------
(* Request records. *)

LEMMA CountingIs ==
    ASSUME NEW pc \in Steps, NEW kind \in Kinds, NEW m \in Members,
           NEW to \in MemberStatuses, NEW P \in SUBSET Members,
           NEW C \in SUBSET Members
    PROVE  LET x == Counting(pc, kind, m, to, P, C)
           IN  /\ x \in Request
               /\ x.pc = pc /\ x.kind = kind /\ x.member = m /\ x.to = to
               /\ x.pending = P /\ x.counted = C
BY DEF Counting, Request

(* An idle request relies on nothing, and has no invitation locked. *)
LEMMA IdleRelies ==
    /\ Idle \in Request
    /\ \A r \in Requests :
          req'[r] = Idle /\ (\A i \in Invitations : invitationLock'[i] # r) => Held(r)'
<1>1. /\ Idle \in Request /\ Idle.pc = "idle" /\ Idle.kind = "none"
      /\ Idle.counted = {}
    BY DEF Idle, Handling, Request, Steps, Kinds, MemberStatuses
<1> QED
    BY <1>1 DEF Held, OwnersHeld, MemberHeld, InvitationHeld

-----------------------------------------------------------------------------
(* Memberships are never deleted and never change hands. *)
RowsKept ==
    \A m \in Members : status[m] # "ABSENT" =>
        status'[m] # "ABSENT" /\ user'[m] = user[m]

(* A step of another request leaves what q relies on alone if it respects  *)
(* the locks of q: on rows, which it does not write; on the organization,  *)
(* whose owners it does not touch, or only adds to if q has a share; and on*)
(* index keys, for which it adds no row.                                   *)
OrgUndisturbed(q) ==
    /\ orgLock = q => orgLock' = q /\ ActiveOwners' = ActiveOwners
    /\ q \in orgShared =>
           /\ q \in orgShared'
           /\ archived' = archived /\ ActiveOwners \subseteq ActiveOwners'

RowsUndisturbed(q) ==
    /\ \A m \in Members : memberLock[m] = q =>
           /\ memberLock'[m] = q
           /\ status'[m] = status[m] /\ owns'[m] = owns[m] /\ user'[m] = user[m]
    /\ \A i \in Invitations : invitationLock[i] = q =>
           /\ invitationLock'[i] = q /\ istatus'[i] = istatus[i]
           /\ invitee'[i] = invitee[i] /\ grants'[i] = grants[i]
    /\ \A i \in Invitations : invitationLock'[i] = q => invitationLock[i] = q

KeysUndisturbed(q) ==
    \A u \in Users :
        /\ joining[u] = q =>
               /\ joining'[u] = q
               /\ \A n \in Members : user'[n] = u /\ Live(n)' => user[n] = u /\ Live(n)
        /\ inviting[u] = q =>
               inviting'[u] = q /\ Pending(u)' \subseteq Pending(u)

Undisturbed(q) ==
    req'[q] = req[q] /\ OrgUndisturbed(q) /\ RowsUndisturbed(q) /\ KeysUndisturbed(q)

LEMMA Frame ==
    ASSUME Inv, RowsKept, NEW q \in Requests, Undisturbed(q)
    PROVE  Held(q)'
<1>1. req'[q] = req[q] /\ req[q] \in Request
    BY DEF Undisturbed, Inv, TypeOK
<1>2. Held(q) /\ RowsInOrder
    BY DEF Inv, Tables
<1>3. OwnersHeld(q)'
    <2>1. req[q].counted \subseteq Members
        BY <1>1 DEF Request
    <2> QED
        BY <1>1, <1>2, <2>1
           DEF OwnersHeld, Held, Undisturbed, OrgUndisturbed, RowsUndisturbed, RowsKept
<1>4. MemberHeld(q)'
    <2>1. req[q].pc \in {"joined", "accepted"} => req[q].user \in Users
        BY <1>2 DEF Held, MemberHeld, RowsInOrder
    <2>2. req[q].pc \in {"joined", "accepted"} /\ joining[req[q].user] = q =>
             /\ joining'[req[q].user] = q
             /\ \A n \in Members : user'[n] = req[q].user /\ Live(n)' =>
                   user[n] = req[q].user /\ Live(n)
        BY <2>1 DEF Undisturbed, KeysUndisturbed
    <2> QED
        BY <1>1, <1>2, <2>1, <2>2
           DEF MemberHeld, Held, Undisturbed, OrgUndisturbed, RowsUndisturbed, RowsKept
<1>5. InvitationHeld(q)'
    <2>1. req[q].pc \in {"bind", "invited"} =>
             /\ inviting'[req[q].user] = q
             /\ Pending(req[q].user)' \subseteq Pending(req[q].user)
        BY <1>2 DEF Held, InvitationHeld, Undisturbed, KeysUndisturbed
    <2>2. \A u : Pending(u) \subseteq Invitations
        BY DEF Pending
    <2> QED
        BY <1>1, <1>2, <2>1, <2>2
           DEF InvitationHeld, Held, Undisturbed, OrgUndisturbed, RowsUndisturbed
<1> QED
    BY <1>3, <1>4, <1>5 DEF Held

(* It is enough to look at the tables and the request that takes the step. *)
LEMMA Combine ==
    ASSUME Inv, NEW r \in Requests, TypeOK', Tables', RowsKept, Held(r)',
           \A q \in Requests \ {r} : Undisturbed(q)
    PROVE  Inv'
<1>1. \A q \in Requests \ {r} : Held(q)'
    BY Frame
<1> QED
    BY <1>1 DEF Inv

-----------------------------------------------------------------------------
(* Steps inside a transaction: they write no table and take free locks. *)

Took(old, new, r, S) ==
    /\ new \in [S -> Holders]
    /\ \A x \in S : new[x] = old[x] \/ (old[x] \in {None, r} /\ new[x] = r)

LEMMA TookOne ==
    ASSUME NEW S, NEW old \in [S -> Holders], NEW r \in Requests, NEW x \in S,
           old[x] \in {None, r}
    PROVE  LET new == [old EXCEPT ![x] = r]
           IN  Took(old, new, r, S) /\ new[x] = r
BY DEF Took, Holders

LEMMA TookNothing ==
    ASSUME NEW S, NEW old \in [S -> Holders], NEW r \in Requests
    PROVE  Took(old, old, r, S)
BY DEF Took

Within(r) ==
    /\ UNCHANGED tables
    /\ req' \in [Requests -> Request]
    /\ \A q \in Requests \ {r} : req'[q] = req[q]
    /\ orgLock' \in {orgLock, r} /\ (orgLock \in {None, r} \/ orgLock' = orgLock)
    /\ orgShared' \in {orgShared, orgShared \cup {r}}
    /\ orgLock' # None => orgShared' \subseteq {orgLock'}
    /\ Took(memberLock, memberLock', r, Members)
    /\ Took(invitationLock, invitationLock', r, Invitations)
    /\ Took(joining, joining', r, Users)
    /\ Took(inviting, inviting', r, Users)

LEMMA WithinInv ==
    ASSUME Inv, NEW r \in Requests, Within(r), Held(r)'
    PROVE  Inv'
<1>1. TypeOK'
    BY DEF Within, Inv, TypeOK, tables, Took, Holders
<1>2. Tables' /\ RowsKept
    BY DEF Within, Inv, Tables, RowsInOrder, LastOwner, OnePerUser, RowsKept,
           tables, ActiveOwners, Live
<1>3. ASSUME NEW q \in Requests \ {r}
      PROVE  Undisturbed(q)
    <2>1. OrgUndisturbed(q)
        BY NoneIsNobody DEF Within, OrgUndisturbed, tables, ActiveOwners
    <2>2. RowsUndisturbed(q)
        BY NoneIsNobody DEF Within, RowsUndisturbed, tables, Took
    <2>3. KeysUndisturbed(q)
        BY NoneIsNobody DEF Within, KeysUndisturbed, tables, Took, Live, Pending
    <2> QED
        BY <2>1, <2>2, <2>3 DEF Undisturbed, Within
<1> QED
    BY <1>1, <1>2, <1>3, Combine

LEMMA Types ==
    ASSUME Inv
    PROVE  /\ memberLock \in [Members -> Holders]
           /\ invitationLock \in [Invitations -> Holders]
           /\ joining \in [Users -> Holders] /\ inviting \in [Users -> Holders]
           /\ req \in [Requests -> Request]
           /\ orgLock \in Holders /\ orgShared \in SUBSET Requests
BY DEF Inv, TypeOK, Holders

-----------------------------------------------------------------------------
(* Counting owners. *)

LEMMA LockForStatusInv ==
    ASSUME Inv, NEW r \in Requests, NEW m \in Members,
           NEW to \in {"ACTIVE", "SUSPENDED", "REMOVED"}, LockForStatus(r, m, to)
    PROVE  Inv'
<1>. DEFINE x == Counting("count", "status", m, to, {}, {})
<1>1. /\ status[m] # "ABSENT" /\ orgLock = None /\ orgShared = {} /\ orgLock' = r
      /\ req' = [req EXCEPT ![r] = x]
      /\ UNCHANGED <<tables, orgShared, memberLock, invitationLock, joining, inviting>>
    BY DEF LockForStatus
<1>2. /\ x \in Request /\ x.pc = "count" /\ x.kind = "status" /\ x.member = m
      /\ x.pending = {} /\ x.counted = {}
    BY CountingIs DEF Steps, Kinds, MemberStatuses
<1> HIDE DEF x
<1>3. Within(r)
    BY <1>1, <1>2, Types, TookNothing DEF Within
<1>4. req'[r] = x /\ status' = status
    BY <1>1, Types DEF tables
<1>5. Held(r)'
    BY <1>1, <1>2, <1>4 DEF Held, OwnersHeld, MemberHeld, InvitationHeld
<1> QED
    BY <1>3, <1>5, WithinInv

LEMMA LockForUnbindInv ==
    ASSUME Inv, NEW r \in Requests, NEW m \in Members, LockForUnbind(r, m)
    PROVE  Inv'
<1>. DEFINE x == Counting("bound", "unbind", m, "ABSENT", {}, {})
<1>1. /\ status[m] # "ABSENT" /\ orgLock = None /\ orgShared = {} /\ orgLock' = r
      /\ req' = [req EXCEPT ![r] = x]
      /\ UNCHANGED <<tables, orgShared, memberLock, invitationLock, joining, inviting>>
    BY DEF LockForUnbind
<1>2. /\ x \in Request /\ x.pc = "bound" /\ x.kind = "unbind" /\ x.member = m
      /\ x.pending = {} /\ x.counted = {}
    BY CountingIs DEF Steps, Kinds, MemberStatuses
<1> HIDE DEF x
<1>3. Within(r)
    BY <1>1, <1>2, Types, TookNothing DEF Within
<1>4. req'[r] = x /\ status' = status
    BY <1>1, Types DEF tables
<1>5. Held(r)'
    BY <1>1, <1>2, <1>4 DEF Held, OwnersHeld, MemberHeld, InvitationHeld
<1> QED
    BY <1>3, <1>5, WithinInv

(* A transaction that ends gives back its own locks only. *)
LEMMA Finishing ==
    ASSUME Inv, NEW r \in Requests, Finish(r)
    PROVE  /\ req' \in [Requests -> Request] /\ req'[r] = Idle
           /\ orgLock' = IF orgLock = r THEN None ELSE orgLock
           /\ orgShared' = orgShared \ {r}
           /\ memberLock' \in [Members -> Holders]
           /\ invitationLock' \in [Invitations -> Holders]
           /\ joining' \in [Users -> Holders] /\ inviting' \in [Users -> Holders]
           /\ \A q \in Requests \ {r} :
                 /\ req'[q] = req[q]
                 /\ \A m \in Members : memberLock[m] = q => memberLock'[m] = q
                 /\ \A i \in Invitations : invitationLock[i] = q <=> invitationLock'[i] = q
                 /\ \A u \in Users :
                       /\ joining[u] = q => joining'[u] = q
                       /\ inviting[u] = q => inviting'[u] = q
           /\ \A i \in Invitations : invitationLock'[i] # r
<1>1. /\ memberLock' = [m \in Members |-> IF memberLock[m] = r THEN None ELSE memberLock[m]]
      /\ invitationLock' = [i \in Invitations |->
                               IF invitationLock[i] = r THEN None ELSE invitationLock[i]]
      /\ joining' = [u \in Users |-> IF joining[u] = r THEN None ELSE joining[u]]
      /\ inviting' = [u \in Users |-> IF inviting[u] = r THEN None ELSE inviting[u]]
    BY Types DEF Finish, ReleaseLocks, Without
<1> QED
    BY <1>1, Types, IdleRelies, NoneIsNobody DEF Finish, ReleaseLocks, Holders

(* What a COMMIT must show: it leaves the tables in order and disturbs     *)
(* nobody.                                                                 *)
LEMMA FinishInv ==
    ASSUME Inv, NEW r \in Requests, Finish(r), RowsKept, LastOwner', OnePerUser',
           status' \in [Members -> MemberStatuses],
           user' \in [Members -> Users \cup {None}],
           owns' \in [Members -> BOOLEAN],
           istatus' \in [Invitations -> InvitationStatuses],
           invitee' \in [Invitations -> Users \cup {None}],
           grants' \in [Invitations -> BOOLEAN],
           overdue' \in [Invitations -> BOOLEAN],
           archived' = archived,
           \A m \in Members : status'[m] # "ABSENT" => user'[m] \in Users,
           \A i \in Invitations : istatus'[i] # "NONE" => invitee'[i] \in Users,
           ActiveOwners' = ActiveOwners
              \/ (orgLock \in {None, r} /\ ActiveOwners \subseteq ActiveOwners')
              \/ orgLock = r,
           \A m \in Members : memberLock[m] \notin {None, r} =>
              status'[m] = status[m] /\ owns'[m] = owns[m] /\ user'[m] = user[m],
           \A i \in Invitations : invitationLock[i] \notin {None, r} =>
              istatus'[i] = istatus[i] /\ invitee'[i] = invitee[i] /\ grants'[i] = grants[i],
           \A u \in Users :
              /\ joining[u] # r => \A n \in Members :
                    user'[n] = u /\ Live(n)' => user[n] = u /\ Live(n)
              /\ inviting[u] # r => Pending(u)' \subseteq Pending(u)
    PROVE  Inv'
<1>1. TypeOK'
    BY Finishing DEF Inv, TypeOK, Holders
<1>2. Tables'
    BY Finishing DEF Inv, Tables, RowsInOrder
<1>3. Held(r)'
    BY Finishing, IdleRelies
<1>4. ASSUME NEW q \in Requests \ {r}
      PROVE  Undisturbed(q)
    <2>1. OrgUndisturbed(q)
        BY Finishing, NoneIsNobody DEF OrgUndisturbed, Inv, Tables, RowsInOrder
    <2>2. RowsUndisturbed(q)
        BY Finishing, NoneIsNobody DEF RowsUndisturbed
    <2>3. KeysUndisturbed(q)
        BY Finishing DEF KeysUndisturbed
    <2> QED
        BY <2>1, <2>2, <2>3, Finishing DEF Undisturbed
<1> QED
    BY <1>1, <1>2, <1>3, <1>4, Combine

LEMMA RollbackInv ==
    ASSUME Inv, NEW r \in Requests, Rollback(r)
    PROVE  Inv'
<1>1. Finish(r) /\ UNCHANGED tables
    BY DEF Rollback
<1>2. /\ RowsKept /\ LastOwner' /\ OnePerUser' /\ ActiveOwners' = ActiveOwners
      /\ \A u \in Users : Pending(u)' = Pending(u)
      /\ \A n \in Members : Live(n)' = Live(n)
    BY <1>1 DEF tables, Inv, Tables, RowsKept, LastOwner, OnePerUser, ActiveOwners,
                Pending, Live
<1> QED
    BY <1>1, <1>2, FinishInv DEF tables, Inv, TypeOK, Tables, RowsInOrder

LEMMA LockBoundInv ==
    ASSUME Inv, NEW r \in Requests, LockBound(r)
    PROVE  Inv'
<1>. DEFINE m == req[r].member
            x == Counting("count", "unbind", m, "ABSENT", {}, {})
<1>1. /\ m \in Members /\ memberLock[m] = None /\ orgLock = r /\ status[m] # "ABSENT"
    BY DEF LockBound, Inv, Held, OwnersHeld
<1>2. CASE owns[m]
    <2>1. /\ memberLock' = [memberLock EXCEPT ![m] = r]
          /\ req' = [req EXCEPT ![r] = x]
          /\ UNCHANGED <<tables, orgLock, orgShared, invitationLock, joining, inviting>>
        BY <1>2 DEF LockBound
    <2> HIDE DEF m
    <2>2. /\ x \in Request /\ x.pc = "count" /\ x.kind = "unbind" /\ x.member = m
          /\ x.pending = {} /\ x.counted = {}
        BY <1>1, CountingIs DEF Steps, Kinds, MemberStatuses
    <2> HIDE DEF x
    <2>3. Took(memberLock, memberLock', r, Members) /\ memberLock'[m] = r
        BY <1>1, <2>1, Types, TookOne
    <2>4. Within(r)
        BY <2>1, <2>2, <2>3, Types, TookNothing DEF Within, Inv, Tables, RowsInOrder
    <2>5. req'[r] = x /\ status' = status /\ owns' = owns /\ orgLock' = orgLock
        BY <2>1, Types DEF tables
    <2>6. Held(r)'
        BY <1>1, <1>2, <2>2, <2>3, <2>5 DEF Held, OwnersHeld, MemberHeld, InvitationHeld
    <2> QED
        BY <2>4, <2>6, WithinInv
<1>3. CASE ~owns[m]
    BY <1>3, RollbackInv DEF LockBound
<1> QED
    BY <1>2, <1>3

LEMMA CountOwnersInv ==
    ASSUME Inv, NEW r \in Requests, CountOwners(r)
    PROVE  Inv'
<1>. DEFINE m == req[r].member
            k == req[r].kind
            to == req[r].to
            x == Counting("visit", k, m, to, ActiveOwners, {})
<1>1. /\ m \in Members /\ orgLock = r /\ status[m] # "ABSENT"
      /\ k \in {"status", "unbind"} /\ to \in MemberStatuses
      /\ k = "unbind" => memberLock[m] = r /\ owns[m]
      /\ req' = [req EXCEPT ![r] = x] /\ UNCHANGED <<tables, locks>>
    BY Types DEF CountOwners, Inv, Held, OwnersHeld, Request
<1> HIDE DEF m, k, to
<1>2. ActiveOwners \subseteq Members /\ ActiveOwners' = ActiveOwners
    BY <1>1 DEF ActiveOwners, tables
<1>3. /\ x \in Request /\ x.pc = "visit" /\ x.kind = k /\ x.member = m
      /\ x.pending = ActiveOwners /\ x.counted = {}
    BY <1>1, <1>2, CountingIs DEF Steps, Kinds
<1> HIDE DEF x
<1>4. Within(r)
    BY <1>1, <1>3, Types, TookNothing DEF Within, locks, Inv, Tables, RowsInOrder
<1>5. req'[r] = x /\ status' = status /\ owns' = owns
    BY <1>1, Types DEF tables
<1>6. Held(r)'
    BY <1>1, <1>2, <1>3, <1>5 DEF Held, OwnersHeld, MemberHeld, InvitationHeld, locks
<1> QED
    BY <1>4, <1>6, WithinInv

LEMMA VisitOwnerInv ==
    ASSUME Inv, NEW r \in Requests, NEW o \in Members, VisitOwner(r, o)
    PROVE  Inv'
<1>. DEFINE m == req[r].member
            k == req[r].kind
            to == req[r].to
            P == req[r].pending
            C == req[r].counted
            x == Counting("visit", k, m, to, P \ {o}, C \cup {o})
<1>1. /\ m \in Members /\ orgLock = r /\ status[m] # "ABSENT"
      /\ k \in {"status", "unbind"} /\ to \in MemberStatuses
      /\ k = "unbind" => memberLock[m] = r /\ owns[m]
      /\ P \subseteq Members /\ C \subseteq Members /\ o \in P
      /\ P \cup C = ActiveOwners /\ \A c \in C : memberLock[c] = r
      /\ memberLock[o] \in {None, r}
    BY Types DEF VisitOwner, Inv, Held, OwnersHeld, Request, Free
<1>2. /\ memberLock' = [memberLock EXCEPT ![o] = r]
      /\ req' = [req EXCEPT ![r] = x]
      /\ UNCHANGED <<tables, orgLock, orgShared, invitationLock, joining, inviting>>
    BY <1>1 DEF VisitOwner
<1> HIDE DEF m, k, to, P, C
<1>3. ActiveOwners' = ActiveOwners
    BY <1>2 DEF ActiveOwners, tables
<1>4. /\ x \in Request /\ x.pc = "visit" /\ x.kind = k /\ x.member = m
      /\ x.pending = P \ {o} /\ x.counted = C \cup {o}
    BY <1>1, CountingIs DEF Steps, Kinds
<1> HIDE DEF x
<1>5. Took(memberLock, memberLock', r, Members) /\ memberLock'[o] = r
    BY <1>1, <1>2, Types, TookOne
<1>6. Within(r)
    BY <1>2, <1>4, <1>5, Types, TookNothing DEF Within, Inv, Tables, RowsInOrder
<1>7. /\ req'[r] = x /\ status' = status /\ owns' = owns /\ orgLock' = orgLock
      /\ \A c \in Members : memberLock[c] = r => memberLock'[c] = r
    BY <1>2, Types DEF tables
<1>8. Held(r)'
    BY <1>1, <1>3, <1>4, <1>5, <1>7 DEF Held, OwnersHeld, MemberHeld, InvitationHeld
<1> QED
    BY <1>6, <1>8, WithinInv

(* More than one owner has been counted: another stays. *)
LEMMA AnotherOwner ==
    ASSUME NEW C \in SUBSET Members, NEW m, ~(Cardinality(C) <= 1)
    PROVE  C \ {m} # {}
<1>. SUFFICES ASSUME C \subseteq {m} PROVE FALSE
    OBVIOUS
<1>1. IsFiniteSet({m}) /\ Cardinality({m}) = 1
    BY FS_Singleton
<1>2. Cardinality(C) <= Cardinality({m})
    BY <1>1, FS_Subset
<1> QED
    BY <1>1, <1>2

LEMMA CommitStatusInv ==
    ASSUME Inv, NEW r \in Requests, CommitStatus(r)
    PROVE  Inv'
<1>. DEFINE m == req[r].member
            to == req[r].to
            C == req[r].counted
<1>0. /\ req[r] \in Request /\ req[r].pc = "visit" /\ OwnersHeld(r)
      /\ req[r].pending = {} /\ memberLock[m] \in {None, r}
    BY Types DEF CommitStatus, Inv, Held, Free
<1>1. /\ m \in Members /\ orgLock = r /\ to \in MemberStatuses
      /\ C \subseteq Members /\ C = ActiveOwners
      /\ memberLock[m] \in {None, r}
    <2>1. req[r].pending \cup C = ActiveOwners
        BY <1>0 DEF OwnersHeld
    <2> QED
        BY <1>0, <2>1 DEF OwnersHeld, Request
<1>2. CASE /\ ValidTransition(status[m], to)
           /\ ~(m \in ActiveOwners /\ to # "ACTIVE" /\ Cardinality(C) <= 1)
    <2>1. /\ status' = [status EXCEPT ![m] = to] /\ Finish(r)
          /\ UNCHANGED <<user, owns, istatus, invitee, grants, overdue, archived>>
        BY <1>2 DEF CommitStatus
    <2>2. to \in {"ACTIVE", "SUSPENDED", "REMOVED"} /\ status[m] \in {"ACTIVE", "SUSPENDED"}
        BY <1>2 DEF ValidTransition
    <2> HIDE DEF m, to, C
    <2>3. \A n \in Members : status'[n] = IF n = m THEN to ELSE status[n]
        BY <1>1, <2>1 DEF Inv, TypeOK
    <2>4. LastOwner'
        <3>1. CASE m \in ActiveOwners /\ to # "ACTIVE"
            <4>1. C \ {m} # {}
                BY <1>1, <1>2, <3>1, AnotherOwner
            <4> QED
                BY <1>1, <2>1, <2>3, <4>1 DEF LastOwner, ActiveOwners
        <3>2. CASE m \notin ActiveOwners \/ to = "ACTIVE"
            BY <2>1, <2>3, <3>2 DEF LastOwner, ActiveOwners, Inv, Tables
        <3> QED
            BY <3>1, <3>2
    <2>5. \A n \in Members : Live(n)' => Live(n)
        BY <2>2, <2>3 DEF Live
    <2>6. OnePerUser'
        BY <2>1, <2>5 DEF OnePerUser, Inv, Tables
    <2>7. RowsKept /\ \A u \in Users : Pending(u)' = Pending(u)
        BY <2>1, <2>2, <2>3 DEF RowsKept, Pending
    <2> QED
        BY <1>1, <2>1, <2>2, <2>3, <2>4, <2>5, <2>6, <2>7, FinishInv
           DEF Inv, TypeOK, Tables, RowsInOrder
<1>3. CASE ~(/\ ValidTransition(status[m], to)
             /\ ~(m \in ActiveOwners /\ to # "ACTIVE" /\ Cardinality(C) <= 1))
    BY <1>3, RollbackInv DEF CommitStatus
<1> QED
    BY <1>2, <1>3

LEMMA CommitUnbindInv ==
    ASSUME Inv, NEW r \in Requests, CommitUnbind(r)
    PROVE  Inv'
<1>. DEFINE m == req[r].member
            C == req[r].counted
<1>0. /\ req[r] \in Request /\ req[r].pc = "visit" /\ req[r].kind = "unbind"
      /\ req[r].pending = {} /\ OwnersHeld(r)
    BY Types DEF CommitUnbind, Inv, Held
<1>1. /\ m \in Members /\ orgLock = r /\ memberLock[m] = r
      /\ C \subseteq Members /\ C = ActiveOwners
    <2>1. req[r].pending \cup C = ActiveOwners
        BY <1>0 DEF OwnersHeld
    <2> QED
        BY <1>0, <2>1 DEF OwnersHeld, Request
<1>2. CASE ~(status[m] = "ACTIVE" /\ Cardinality(C) <= 1)
    <2>1. /\ owns' = [owns EXCEPT ![m] = FALSE] /\ Finish(r)
          /\ UNCHANGED <<status, user, istatus, invitee, grants, overdue, archived>>
        BY <1>2 DEF CommitUnbind
    <2> HIDE DEF m, C
    <2>2. LastOwner'
        <3>1. CASE status[m] = "ACTIVE"
            <4>1. C \ {m} # {}
                BY <1>1, <1>2, <3>1, AnotherOwner
            <4> QED
                BY <1>1, <2>1, <4>1 DEF LastOwner, ActiveOwners, Inv, TypeOK
        <3>2. CASE status[m] # "ACTIVE"
            BY <1>1, <2>1, <3>2 DEF LastOwner, ActiveOwners, Inv, Tables, TypeOK
        <3> QED
            BY <3>1, <3>2
    <2>3. \A n \in Members : Live(n)' = Live(n)
        BY <2>1 DEF Live
    <2>4. OnePerUser' /\ RowsKept /\ \A u \in Users : Pending(u)' = Pending(u)
        BY <2>1, <2>3 DEF OnePerUser, RowsKept, Pending, Inv, Tables
    <2>5. owns' \in [Members -> BOOLEAN] /\ \A n \in Members \ {m} : owns'[n] = owns[n]
        BY <1>1, <2>1 DEF Inv, TypeOK
    <2> QED
        BY <1>1, <2>1, <2>2, <2>3, <2>4, <2>5, FinishInv
           DEF Inv, TypeOK, Tables, RowsInOrder
<1>3. CASE status[m] = "ACTIVE" /\ Cardinality(C) <= 1
    BY <1>3, RollbackInv DEF CommitUnbind
<1> QED
    BY <1>2, <1>3

-----------------------------------------------------------------------------
(* Granting ownership. *)

LEMMA LockGrantedInv ==
    ASSUME Inv, NEW r \in Requests, NEW m \in Members, LockGranted(r, m)
    PROVE  Inv'
<1>. DEFINE x == Handling("grant", "bind", m, None, None, TRUE)
<1>1. /\ memberLock[m] = None /\ status[m] = "ACTIVE"
      /\ memberLock' = [memberLock EXCEPT ![m] = r]
      /\ req' = [req EXCEPT ![r] = x]
      /\ UNCHANGED <<tables, orgLock, orgShared, invitationLock, joining, inviting>>
    BY DEF LockGranted
<1>2. /\ x \in Request /\ x.pc = "grant" /\ x.kind = "bind" /\ x.member = m
      /\ x.counted = {}
    BY DEF Handling, Request, Steps, Kinds, MemberStatuses
<1> HIDE DEF x
<1>3. Took(memberLock, memberLock', r, Members) /\ memberLock'[m] = r
    BY <1>1, Types, TookOne
<1>4. Within(r)
    BY <1>1, <1>2, <1>3, Types, TookNothing DEF Within, Inv, Tables, RowsInOrder
<1>5. req'[r] = x /\ status' = status
    BY <1>1, Types DEF tables
<1>6. Held(r)'
    BY <1>1, <1>2, <1>3, <1>5 DEF Held, OwnersHeld, MemberHeld, InvitationHeld
<1> QED
    BY <1>4, <1>6, WithinInv

LEMMA CommitGrantInv ==
    ASSUME Inv, NEW r \in Requests, CommitGrant(r)
    PROVE  Inv'
<1>. DEFINE m == req[r].member
<1>1. m \in Members /\ memberLock[m] = r /\ orgLock \in {None, r}
    BY DEF CommitGrant, OrgFree, Inv, Held, MemberHeld
<1>2. /\ owns' = [owns EXCEPT ![m] = TRUE] /\ Finish(r)
      /\ UNCHANGED <<status, user, istatus, invitee, grants, overdue, archived>>
    BY DEF CommitGrant
<1> HIDE DEF m
<1>3. owns' \in [Members -> BOOLEAN] /\ \A n \in Members \ {m} : owns'[n] = owns[n]
    BY <1>1, <1>2 DEF Inv, TypeOK
<1>4. ActiveOwners \subseteq ActiveOwners'
    BY <1>1, <1>2 DEF ActiveOwners, Inv, TypeOK
<1>5. LastOwner'
    BY <1>4 DEF LastOwner, Inv, Tables
<1>6. \A n \in Members : Live(n)' = Live(n)
    BY <1>2 DEF Live
<1>7. OnePerUser' /\ RowsKept /\ \A u \in Users : Pending(u)' = Pending(u)
    BY <1>2, <1>6 DEF OnePerUser, RowsKept, Pending, Inv, Tables
<1> QED
    BY <1>1, <1>2, <1>3, <1>4, <1>5, <1>6, <1>7, FinishInv
       DEF Inv, TypeOK, Tables, RowsInOrder

-----------------------------------------------------------------------------
(* Accepting an invitation. *)

LEMMA LockInvitationInv ==
    ASSUME Inv, NEW r \in Requests, NEW i \in Invitations, LockInvitation(r, i)
    PROVE  Inv'
<1>. DEFINE x == Handling("read", "accept", None, i, invitee[i], grants[i])
<1>1. /\ invitationLock[i] = None /\ istatus[i] = "PENDING"
      /\ invitationLock' = [invitationLock EXCEPT ![i] = r]
      /\ req' = [req EXCEPT ![r] = x]
      /\ UNCHANGED <<tables, orgLock, orgShared, memberLock, joining, inviting>>
    BY DEF LockInvitation
<1>2. invitee[i] \in Users \cup {None} /\ grants[i] \in BOOLEAN
    BY DEF Inv, TypeOK
<1>3. /\ x \in Request /\ x.pc = "read" /\ x.kind = "accept" /\ x.invitation = i
      /\ x.user = invitee[i] /\ x.owner = grants[i] /\ x.counted = {}
    BY <1>2 DEF Handling, Request, Steps, Kinds, MemberStatuses
<1> HIDE DEF x
<1>4. Took(invitationLock, invitationLock', r, Invitations) /\ invitationLock'[i] = r
    BY <1>1, Types, TookOne
<1>5. Within(r)
    BY <1>1, <1>3, <1>4, Types, TookNothing DEF Within, Inv, Tables, RowsInOrder
<1>6. req'[r] = x /\ istatus' = istatus /\ invitee' = invitee /\ grants' = grants
    BY <1>1, Types DEF tables
<1>7. Held(r)'
    BY <1>1, <1>3, <1>4, <1>6 DEF Held, OwnersHeld, MemberHeld, InvitationHeld
<1> QED
    BY <1>5, <1>7, WithinInv

(* What an acceptance has from its first step on. *)
Accepting(r) ==
    /\ req[r].kind = "accept" /\ req[r].invitation \in Invitations
    /\ invitationLock[req[r].invitation] = r
    /\ istatus[req[r].invitation] = "PENDING"
    /\ req[r].user = invitee[req[r].invitation]
    /\ req[r].owner = grants[req[r].invitation]
    /\ req[r].user \in Users /\ req[r].owner \in BOOLEAN

LEMMA AcceptingHolds ==
    ASSUME Inv, NEW r \in Requests,
           req[r].pc \in {"read", "lock", "join", "joined", "accepted"}
    PROVE  Accepting(r)
<1>1. MemberHeld(r) /\ RowsInOrder /\ grants \in [Invitations -> BOOLEAN]
    BY DEF Inv, Tables, Held, TypeOK
<1> QED
    BY <1>1 DEF MemberHeld, RowsInOrder, Accepting

(* Its next step, which keeps the invitation and goes on with m. *)
LEMMA GoneOn ==
    ASSUME Inv, NEW r \in Requests, Accepting(r), NEW m \in Members \cup {None},
           NEW pc \in Steps, GoOn(r, pc, m), UNCHANGED tables,
           Took(invitationLock, invitationLock', r, Invitations)
    PROVE  /\ req' \in [Requests -> Request]
           /\ \A q \in Requests \ {r} : req'[q] = req[q]
           /\ req'[r].pc = pc /\ req'[r].member = m /\ req'[r].counted = {}
           /\ req'[r].user = req[r].user
           /\ Accepting(r)'
<1>. DEFINE x == Handling(pc, "accept", m, req[r].invitation, req[r].user, req[r].owner)
<1>1. req' = [req EXCEPT ![r] = x]
    BY DEF GoOn, Accepting
<1>2. /\ x \in Request /\ x.pc = pc /\ x.kind = "accept" /\ x.member = m
      /\ x.invitation = req[r].invitation /\ x.user = req[r].user
      /\ x.owner = req[r].owner /\ x.counted = {}
    <2>1. /\ req[r].invitation \in Invitations \cup {None}
          /\ req[r].user \in Users \cup {None} /\ req[r].owner \in BOOLEAN
        BY DEF Accepting
    <2>2. "accept" \in Kinds
        BY DEF Kinds
    <2> QED
        BY <2>1, <2>2 DEF Handling, Request, MemberStatuses
<1> HIDE DEF x
<1>3. req' \in [Requests -> Request] /\ req'[r] = x
    BY <1>1, <1>2, Types
<1>4. Accepting(r)'
    BY <1>2, <1>3 DEF Accepting, tables, Took
<1> QED
    BY <1>1, <1>2, <1>3, <1>4, Types

LEMMA ReadMembershipInv ==
    ASSUME Inv, NEW r \in Requests, NEW m \in Members, ReadMembership(r, m)
    PROVE  Inv'
<1>1. /\ req[r].pc = "read" /\ user[m] = req[r].user /\ status[m] # "ABSENT"
      /\ GoOn(r, "lock", m) /\ UNCHANGED <<tables, locks>>
    BY DEF ReadMembership, Live
<1>2. Accepting(r)
    BY <1>1, AcceptingHolds
<1>3. /\ req' \in [Requests -> Request]
      /\ \A q \in Requests \ {r} : req'[q] = req[q]
      /\ req'[r].pc = "lock" /\ req'[r].member = m /\ req'[r].counted = {}
      /\ req'[r].user = req[r].user /\ Accepting(r)'
    BY <1>1, <1>2, GoneOn, TookNothing, Types DEF Steps, locks
<1>4. Within(r)
    BY <1>1, <1>3, Types, TookNothing DEF Within, locks, Inv, Tables, RowsInOrder
<1>5. Held(r)'
    BY <1>1, <1>3 DEF Held, OwnersHeld, MemberHeld, InvitationHeld, Accepting, tables
<1> QED
    BY <1>4, <1>5, WithinInv

LEMMA ReadNoMembershipInv ==
    ASSUME Inv, NEW r \in Requests, ReadNoMembership(r)
    PROVE  Inv'
<1>1. req[r].pc = "read" /\ GoOn(r, "join", None) /\ UNCHANGED <<tables, locks>>
    BY DEF ReadNoMembership
<1>2. Accepting(r)
    BY <1>1, AcceptingHolds
<1>3. /\ req' \in [Requests -> Request]
      /\ \A q \in Requests \ {r} : req'[q] = req[q]
      /\ req'[r].pc = "join" /\ req'[r].counted = {} /\ Accepting(r)'
    BY <1>1, <1>2, GoneOn, TookNothing, Types DEF Steps, locks
<1>4. Within(r)
    BY <1>1, <1>3, Types, TookNothing DEF Within, locks, Inv, Tables, RowsInOrder
<1>5. Held(r)'
    BY <1>1, <1>3 DEF Held, OwnersHeld, MemberHeld, InvitationHeld, Accepting
<1> QED
    BY <1>4, <1>5, WithinInv

LEMMA LockJoinedInv ==
    ASSUME Inv, NEW r \in Requests, LockJoined(r)
    PROVE  Inv'
<1>. DEFINE m == req[r].member
<1>1. /\ req[r].pc = "lock" /\ memberLock[m] = None /\ GoOn(r, "joined", m)
      /\ memberLock' = [memberLock EXCEPT ![m] = r]
      /\ UNCHANGED <<tables, orgLock, orgShared, invitationLock, joining, inviting>>
    BY DEF LockJoined
<1>2. m \in Members /\ status[m] # "ABSENT" /\ user[m] = req[r].user
    BY <1>1 DEF Inv, Held, MemberHeld
<1>3. Accepting(r)
    BY <1>1, AcceptingHolds
<1> HIDE DEF m
<1>4. /\ req' \in [Requests -> Request]
      /\ \A q \in Requests \ {r} : req'[q] = req[q]
      /\ req'[r].pc = "joined" /\ req'[r].member = m /\ req'[r].counted = {}
      /\ req'[r].user = req[r].user /\ Accepting(r)'
    BY <1>1, <1>2, <1>3, GoneOn, TookNothing, Types DEF Steps
<1>5. Took(memberLock, memberLock', r, Members) /\ memberLock'[m] = r
    BY <1>1, <1>2, Types, TookOne
<1>6. Within(r)
    BY <1>1, <1>4, <1>5, Types, TookNothing DEF Within, Inv, Tables, RowsInOrder
<1>7. Held(r)'
    BY <1>1, <1>2, <1>4, <1>5
       DEF Held, OwnersHeld, MemberHeld, InvitationHeld, Accepting, tables
<1> QED
    BY <1>6, <1>7, WithinInv

LEMMA InsertMembershipInv ==
    ASSUME Inv, NEW r \in Requests, NEW m \in Members, InsertMembership(r, m)
    PROVE  Inv'
<1>. DEFINE u == req[r].user
<1>1. /\ req[r].pc = "join" /\ status[m] = "ABSENT" /\ memberLock[m] = None
      /\ joining[u] = None /\ orgLock \in {None, r}
    BY DEF InsertMembership, OrgFree
<1>2. Accepting(r) /\ u \in Users
    BY <1>1, AcceptingHolds DEF Accepting
<1>3. CASE \E n \in Members : user[n] = u /\ Live(n)
    BY <1>3, RollbackInv DEF InsertMembership
<1>4. CASE ~\E n \in Members : user[n] = u /\ Live(n)
    <2>1. /\ joining' = [joining EXCEPT ![u] = r]
          /\ memberLock' = [memberLock EXCEPT ![m] = r]
          /\ orgShared' = orgShared \cup {r} /\ GoOn(r, "joined", m)
          /\ UNCHANGED <<tables, orgLock, invitationLock, inviting>>
        BY <1>4 DEF InsertMembership
    <2>2. orgLock # None => orgShared \subseteq {orgLock}
        BY DEF Inv, Tables, RowsInOrder
    <2> HIDE DEF u
    <2>3. /\ req' \in [Requests -> Request]
          /\ \A q \in Requests \ {r} : req'[q] = req[q]
          /\ req'[r].pc = "joined" /\ req'[r].member = m /\ req'[r].counted = {}
          /\ req'[r].user = u /\ Accepting(r)'
        BY <1>2, <2>1, GoneOn, TookNothing, Types DEF Steps, u
    <2>4. Took(memberLock, memberLock', r, Members) /\ memberLock'[m] = r
        BY <1>1, <2>1, Types, TookOne
    <2>5. Took(joining, joining', r, Users) /\ joining'[u] = r
        BY <1>1, <1>2, <2>1, Types, TookOne
    <2>6. Within(r)
        BY <1>1, <2>1, <2>2, <2>3, <2>4, <2>5, Types, TookNothing DEF Within
    <2>7. \A n \in Members : user'[n] = u => ~Live(n)'
        BY <1>4, <2>1 DEF tables, Live
    <2>8. r \in orgShared' /\ status' = status
        BY <2>1 DEF tables
    <2>9. Held(r)'
        BY <1>1, <2>3, <2>4, <2>5, <2>7, <2>8
           DEF Held, OwnersHeld, MemberHeld, InvitationHeld, Accepting
    <2> QED
        BY <2>6, <2>9, WithinInv
<1> QED
    BY <1>3, <1>4

LEMMA ResolveScopesInv ==
    ASSUME Inv, NEW r \in Requests, ResolveScopes(r)
    PROVE  Inv'
<1>. DEFINE m == req[r].member
<1>1. req[r].pc = "joined" /\ orgLock \in {None, r}
    BY DEF ResolveScopes, OrgFree
<1>2. MemberHeld(r) /\ Accepting(r) /\ m \in Members
    BY <1>1, AcceptingHolds DEF Inv, Held, MemberHeld
<1>3. CASE archived \/ status[m] = "REMOVED"
    BY <1>3, RollbackInv DEF ResolveScopes
<1>4. CASE ~(archived \/ status[m] = "REMOVED")
    <2>1. /\ orgShared' = orgShared \cup {r} /\ GoOn(r, "accepted", m)
          /\ UNCHANGED <<tables, orgLock, memberLock, invitationLock, joining, inviting>>
        BY <1>4 DEF ResolveScopes
    <2>2. orgLock # None => orgShared \subseteq {orgLock}
        BY DEF Inv, Tables, RowsInOrder
    <2>3. /\ req' \in [Requests -> Request]
          /\ \A q \in Requests \ {r} : req'[q] = req[q]
          /\ req'[r].pc = "accepted" /\ req'[r].member = m /\ req'[r].counted = {}
          /\ req'[r].user = req[r].user /\ Accepting(r)'
        BY <1>2, <2>1, GoneOn, TookNothing, Types DEF Steps
    <2>4. Within(r)
        BY <1>1, <2>1, <2>2, <2>3, Types, TookNothing DEF Within
    <2>5. /\ status' = status /\ user' = user /\ archived' = archived
          /\ \A n \in Members : Live(n)' = Live(n)
          /\ r \in orgShared'
        BY <2>1 DEF tables, Live
    <2>6. MemberHeld(r)'
        BY <1>1, <1>2, <1>4, <2>1, <2>3, <2>5 DEF MemberHeld, Accepting
    <2>7. Held(r)'
        BY <2>3, <2>6 DEF Held, OwnersHeld, InvitationHeld
    <2> QED
        BY <2>4, <2>7, WithinInv
<1> QED
    BY <1>3, <1>4

LEMMA CommitAcceptInv ==
    ASSUME Inv, NEW r \in Requests, CommitAccept(r)
    PROVE  Inv'
<1>. DEFINE m == req[r].member
            u == req[r].user
            i == req[r].invitation
            o == req[r].owner \/ (owns[m] /\ status[m] # "SUSPENDED")
<1>1. /\ req[r].pc = "accepted" /\ Finish(r)
      /\ status' = [status EXCEPT ![m] = IF status[m] = "REMOVED" THEN "REMOVED" ELSE "ACTIVE"]
      /\ user' = [user EXCEPT ![m] = u]
      /\ owns' = [owns EXCEPT ![m] = o]
      /\ istatus' = [istatus EXCEPT ![i] = "ACCEPTED"]
      /\ UNCHANGED <<invitee, grants, overdue, archived>>
    BY DEF CommitAccept
<1>2. MemberHeld(r) /\ Accepting(r) /\ RowsInOrder /\ OnePerUser /\ LastOwner /\ TypeOK
    BY <1>1, AcceptingHolds DEF Inv, Held, Tables
<1>3. /\ m \in Members /\ memberLock[m] = r /\ status[m] # "REMOVED"
      /\ status[m] # "ABSENT" => user[m] = u
      /\ status[m] = "ABSENT" =>
            joining[u] = r /\ \A n \in Members : user[n] = u => ~Live(n)
      /\ r \in orgShared
    BY <1>1, <1>2 DEF MemberHeld
<1>4. /\ i \in Invitations /\ invitationLock[i] = r /\ istatus[i] = "PENDING"
      /\ u \in Users
    BY <1>2 DEF Accepting
<1>5. orgLock \in {None, r}
    BY <1>2, <1>3 DEF RowsInOrder
<1>6. o \in BOOLEAN /\ (owns[m] /\ status[m] # "SUSPENDED" => o)
    OBVIOUS
<1>7. status[m] # "ABSENT" => Live(m)
    BY <1>2, <1>3 DEF TypeOK, MemberStatuses, Live
<1> HIDE DEF m, u, i, o
<1>8. /\ \A n \in Members \ {m} : /\ status'[n] = status[n] /\ user'[n] = user[n]
                                 /\ owns'[n] = owns[n]
      /\ status'[m] = "ACTIVE" /\ user'[m] = u /\ owns'[m] = o
      /\ \A j \in Invitations \ {i} : istatus'[j] = istatus[j]
      /\ istatus'[i] = "ACCEPTED"
    BY <1>1, <1>2, <1>3, <1>4, <1>6 DEF TypeOK
<1>9. /\ status' \in [Members -> MemberStatuses]
      /\ user' \in [Members -> Users \cup {None}]
      /\ istatus' \in [Invitations -> InvitationStatuses]
    BY <1>1, <1>2, <1>3, <1>4 DEF TypeOK, MemberStatuses, InvitationStatuses
<1>10. owns' \in [Members -> BOOLEAN]
    BY <1>1, <1>2, <1>6 DEF TypeOK
<1>11. ActiveOwners \subseteq ActiveOwners' /\ LastOwner'
    <2>1. ActiveOwners \subseteq ActiveOwners'
        BY <1>6, <1>8 DEF ActiveOwners
    <2> QED
        BY <1>2, <2>1 DEF LastOwner
<1>12. \A n \in Members \ {m} : Live(n)' = Live(n)
    BY <1>8 DEF Live
<1>13. \A j \in Invitations : istatus'[j] = "PENDING" => istatus[j] = "PENDING"
    BY <1>8
<1>14. OnePerUser'
    <2>1. \A n \in Members \ {m} : Live(n)' => user'[n] # u
        BY <1>2, <1>3, <1>7, <1>8, <1>12 DEF OnePerUser
    <2>2. \A p, q \in Members : Live(p)' /\ Live(q)' /\ user'[p] = user'[q] => p = q
        BY <1>2, <1>8, <1>12, <2>1 DEF OnePerUser
    <2> QED
        BY <1>1, <1>2, <1>13, <2>2 DEF OnePerUser
<1>15. RowsKept
    BY <1>3, <1>8 DEF RowsKept
<1>16. \A v \in Users : Pending(v)' \subseteq Pending(v)
    BY <1>1, <1>13 DEF Pending
<1>17. \A v \in Users : joining[v] # r => \A n \in Members :
          user'[n] = v /\ Live(n)' => user[n] = v /\ Live(n)
    BY <1>3, <1>7, <1>8, <1>12
<1>18. /\ \A n \in Members : status'[n] # "ABSENT" => user'[n] \in Users
       /\ \A j \in Invitations : istatus'[j] # "NONE" => invitee'[j] \in Users
    BY <1>1, <1>2, <1>4, <1>8 DEF RowsInOrder
<1>19. /\ \A n \in Members : memberLock[n] \notin {None, r} => n # m
       /\ \A j \in Invitations : invitationLock[j] \notin {None, r} => j # i
    BY <1>3, <1>4
<1> QED
    BY <1>1, <1>2, <1>5, <1>8, <1>9, <1>10, <1>11, <1>14, <1>15, <1>16, <1>17, <1>18,
       <1>19, FinishInv DEF TypeOK

-----------------------------------------------------------------------------
(* Making, revoking and resending invitations. *)

LEMMA ExpirePendingInv ==
    ASSUME Inv, NEW r \in Requests, NEW a \in Members, NEW u \in Users,
           NEW o \in BOOLEAN, ExpirePending(r, a, u, o)
    PROVE  Inv'
<1>. DEFINE x == Handling("invite", "invite", a, None, u, o)
            stale == {i \in Pending(u) : overdue[i]}
<1>1. /\ req[r].pc = "idle" /\ \A i \in stale : invitationLock[i] = None
      /\ invitationLock' = [i \in Invitations |-> IF i \in stale THEN r ELSE invitationLock[i]]
      /\ req' = [req EXCEPT ![r] = x]
      /\ UNCHANGED <<tables, orgLock, orgShared, memberLock, joining, inviting>>
    BY DEF ExpirePending
<1>2. /\ x \in Request /\ x.pc = "invite" /\ x.kind = "invite" /\ x.member = a
      /\ x.user = u /\ x.counted = {} /\ x.invitation = None
    BY DEF Handling, Request, Steps, Kinds, MemberStatuses
<1>3. \A i \in stale : istatus[i] = "PENDING"
    BY DEF Pending
<1>4. \A i \in Invitations : invitationLock[i] # r
    BY <1>1 DEF Inv, Held, InvitationHeld
<1> HIDE DEF x, stale
<1>5. Took(invitationLock, invitationLock', r, Invitations)
    BY <1>1, Types DEF Took, Holders
<1>6. Within(r)
    BY <1>1, <1>2, <1>5, Types, TookNothing DEF Within, Inv, Tables, RowsInOrder
<1>7. req'[r] = x /\ istatus' = istatus
    BY <1>1, Types DEF tables
<1>8. \A i \in Invitations : invitationLock'[i] = r => istatus'[i] = "PENDING"
    BY <1>1, <1>3, <1>4, <1>7
<1>9. Held(r)'
    BY <1>2, <1>7, <1>8 DEF Held, OwnersHeld, MemberHeld, InvitationHeld
<1> QED
    BY <1>6, <1>9, WithinInv

(* Going on with invitation i changes nothing else in the request. *)
LEMMA GoneOnWith ==
    ASSUME Inv, NEW r \in Requests, req[r].kind = "invite",
           NEW i \in Invitations, NEW pc \in Steps, GoOnWith(r, pc, i)
    PROVE  /\ req' \in [Requests -> Request]
           /\ \A q \in Requests \ {r} : req'[q] = req[q]
           /\ req'[r].pc = pc /\ req'[r].kind = "invite" /\ req'[r].invitation = i
           /\ req'[r].member = req[r].member /\ req'[r].user = req[r].user
           /\ req'[r].owner = req[r].owner /\ req'[r].counted = {}
<1>. DEFINE x == Handling(pc, "invite", req[r].member, i, req[r].user, req[r].owner)
<1>1. req' = [req EXCEPT ![r] = x]
    BY DEF GoOnWith
<1>2. /\ x \in Request /\ x.pc = pc /\ x.kind = "invite" /\ x.member = req[r].member
      /\ x.invitation = i /\ x.user = req[r].user
      /\ x.owner = req[r].owner /\ x.counted = {}
    <2>1. /\ req[r].member \in Members \cup {None}
          /\ req[r].user \in Users \cup {None} /\ req[r].owner \in BOOLEAN
        BY Types DEF Request
    <2>2. "invite" \in Kinds
        BY DEF Kinds
    <2> QED
        BY <2>1, <2>2 DEF Handling, Request, MemberStatuses
<1> HIDE DEF x
<1> QED
    BY <1>1, <1>2, Types

LEMMA InsertInvitationInv ==
    ASSUME Inv, NEW r \in Requests, NEW i \in Invitations, InsertInvitation(r, i)
    PROVE  Inv'
<1>. DEFINE u == req[r].user
<1>1. /\ req[r].pc = "invite" /\ istatus[i] = "NONE" /\ invitationLock[i] = None
      /\ inviting[u] = None /\ orgLock \in {None, r}
    BY DEF InsertInvitation, OrgFree
<1>2. /\ u \in Users /\ req[r].kind = "invite" /\ req[r].member \in Members
      /\ \A j \in Invitations : invitationLock[j] = r /\ j # req[r].invitation =>
            istatus[j] = "PENDING"
      /\ req[r].invitation = None
    BY <1>1 DEF Inv, Held, InvitationHeld
<1>3. CASE \E j \in Pending(u) : invitationLock[j] # r
    BY <1>3, RollbackInv DEF InsertInvitation
<1>4. CASE ~\E j \in Pending(u) : invitationLock[j] # r
    <2>1. /\ inviting' = [inviting EXCEPT ![u] = r]
          /\ invitationLock' = [invitationLock EXCEPT ![i] = r]
          /\ orgShared' = orgShared \cup {r} /\ GoOnWith(r, "bind", i)
          /\ UNCHANGED <<tables, orgLock, memberLock, joining>>
        BY <1>4 DEF InsertInvitation
    <2>2. orgLock # None => orgShared \subseteq {orgLock}
        BY DEF Inv, Tables, RowsInOrder
    <2>3. /\ req' \in [Requests -> Request]
          /\ \A q \in Requests \ {r} : req'[q] = req[q]
          /\ req'[r].pc = "bind" /\ req'[r].kind = "invite" /\ req'[r].invitation = i
          /\ req'[r].member = req[r].member /\ req'[r].user = u /\ req'[r].counted = {}
        BY <1>2, <2>1, GoneOnWith DEF Steps
    <2> HIDE DEF u
    <2>4. Took(invitationLock, invitationLock', r, Invitations) /\ invitationLock'[i] = r
        BY <1>1, <2>1, Types, TookOne
    <2>5. Took(inviting, inviting', r, Users) /\ inviting'[u] = r
        BY <1>1, <1>2, <2>1, Types, TookOne
    <2>6. Within(r)
        BY <1>1, <2>1, <2>2, <2>3, <2>4, <2>5, Types, TookNothing DEF Within
    <2>7. /\ r \in orgShared' /\ istatus' = istatus /\ invitee' = invitee
        BY <2>1 DEF tables
    <2>8. \A j \in Invitations : j # i => invitationLock'[j] = invitationLock[j]
        BY <2>1, Types
    <2>9. \A j \in Invitations : istatus'[j] = "PENDING" /\ invitee'[j] = u =>
             invitationLock'[j] = r
        BY <1>4, <2>4, <2>7, <2>8 DEF Pending
    <2>10. \A j \in Invitations : invitationLock'[j] = r /\ j # i => istatus'[j] = "PENDING"
        BY <1>2, <2>7, <2>8, NoneIsNobody
    <2>11. Held(r)'
        BY <1>1, <1>2, <2>3, <2>4, <2>5, <2>7, <2>9, <2>10
           DEF Held, OwnersHeld, MemberHeld, InvitationHeld, Pending
    <2> QED
        BY <2>6, <2>11, WithinInv
<1> QED
    BY <1>3, <1>4

LEMMA CheckInviterInv ==
    ASSUME Inv, NEW r \in Requests, CheckInviter(r)
    PROVE  Inv'
<1>1. req[r].pc = "bind" /\ InvitationHeld(r)
    BY DEF CheckInviter, Inv, Held
<1>2. CASE req[r].owner /\ req[r].member \notin ActiveOwners
    BY <1>2, RollbackInv DEF CheckInviter
<1>3. CASE ~(req[r].owner /\ req[r].member \notin ActiveOwners)
    <2>1. GoOnWith(r, "invited", req[r].invitation) /\ UNCHANGED <<tables, locks>>
        BY <1>3 DEF CheckInviter
    <2>2. /\ req' \in [Requests -> Request]
          /\ \A q \in Requests \ {r} : req'[q] = req[q]
          /\ req'[r].pc = "invited" /\ req'[r].kind = "invite"
          /\ req'[r].invitation = req[r].invitation /\ req'[r].owner = req[r].owner
          /\ req'[r].member = req[r].member /\ req'[r].user = req[r].user
          /\ req'[r].counted = {}
        BY <1>1, <2>1, GoneOnWith DEF Steps, InvitationHeld
    <2>3. Within(r)
        BY <2>1, <2>2, Types, TookNothing DEF Within, locks, Inv, Tables, RowsInOrder
    <2>4. /\ ActiveOwners' = ActiveOwners /\ istatus' = istatus
          /\ \A v \in Users : Pending(v)' = Pending(v)
        BY <2>1 DEF tables, ActiveOwners, Pending
    <2>5. InvitationHeld(r)'
        BY <1>1, <1>3, <2>1, <2>2, <2>4 DEF InvitationHeld, locks
    <2>6. Held(r)'
        BY <2>2, <2>5 DEF Held, OwnersHeld, MemberHeld
    <2> QED
        BY <2>3, <2>6, WithinInv
<1> QED
    BY <1>2, <1>3

LEMMA CommitInviteInv ==
    ASSUME Inv, NEW r \in Requests, CommitInvite(r)
    PROVE  Inv'
<1>. DEFINE i == req[r].invitation
            u == req[r].user
            o == req[r].owner
<1>1. /\ req[r].pc = "invited" /\ Finish(r)
      /\ istatus' = [j \in Invitations |->
                        IF j = i THEN "PENDING"
                        ELSE IF invitationLock[j] = r THEN "EXPIRED" ELSE istatus[j]]
      /\ invitee' = [invitee EXCEPT ![i] = u]
      /\ grants' = [grants EXCEPT ![i] = o]
      /\ overdue' = [overdue EXCEPT ![i] = FALSE]
      /\ UNCHANGED <<status, user, owns, archived>>
    BY DEF CommitInvite
<1>2. InvitationHeld(r) /\ RowsInOrder /\ OnePerUser /\ LastOwner /\ TypeOK
    BY DEF Inv, Held, Tables
<1>3. /\ i \in Invitations /\ invitationLock[i] = r /\ istatus[i] = "NONE"
      /\ u \in Users /\ inviting[u] = r
      /\ \A j \in Pending(u) : invitationLock[j] = r
      /\ \A j \in Invitations : invitationLock[j] = r /\ j # i => istatus[j] = "PENDING"
    BY <1>1, <1>2 DEF InvitationHeld
<1>4. o \in BOOLEAN
    BY Types DEF Request
<1> HIDE DEF i, u, o
<1>5. /\ \A j \in Invitations : j # i =>
            invitee'[j] = invitee[j] /\ grants'[j] = grants[j]
      /\ \A j \in Invitations : invitationLock[j] # r => istatus'[j] = istatus[j]
      /\ \A j \in Invitations : invitationLock[j] = r /\ j # i =>
            istatus[j] = "PENDING" /\ istatus'[j] = "EXPIRED"
      /\ istatus'[i] = "PENDING" /\ invitee'[i] = u
    BY <1>1, <1>2, <1>3 DEF TypeOK
<1>6. /\ istatus' \in [Invitations -> InvitationStatuses]
      /\ invitee' \in [Invitations -> Users \cup {None}]
    BY <1>1, <1>2, <1>3 DEF TypeOK, InvitationStatuses
<1>7. grants' \in [Invitations -> BOOLEAN] /\ overdue' \in [Invitations -> BOOLEAN]
    BY <1>1, <1>2, <1>4 DEF TypeOK
<1>8. LastOwner' /\ ActiveOwners' = ActiveOwners /\ RowsKept
      /\ \A n \in Members : Live(n)' = Live(n)
    BY <1>1, <1>2 DEF LastOwner, ActiveOwners, RowsKept, Live
<1>9. \A j \in Invitations \ {i} : istatus'[j] = "PENDING" =>
         istatus[j] = "PENDING" /\ invitee'[j] # u
    BY <1>3, <1>5 DEF Pending
<1>10. OnePerUser'
    <2>1. \A j, k \in Invitations :
             istatus'[j] = "PENDING" /\ istatus'[k] = "PENDING" /\ invitee'[j] = invitee'[k]
                => j = k
        BY <1>2, <1>5, <1>9 DEF OnePerUser
    <2>2. \A m, n \in Members : Live(m)' /\ Live(n)' /\ user'[m] = user'[n] => m = n
        BY <1>1, <1>2, <1>8 DEF OnePerUser
    <2> QED
        BY <2>1, <2>2 DEF OnePerUser
<1>11. \A v \in Users : inviting[v] # r => Pending(v)' \subseteq Pending(v)
    BY <1>3, <1>5, <1>9 DEF Pending
<1>12. \A j \in Invitations : istatus'[j] # "NONE" => invitee'[j] \in Users
    BY <1>2, <1>3, <1>5 DEF RowsInOrder
<1>13. \A j \in Invitations : invitationLock[j] \notin {None, r} =>
          istatus'[j] = istatus[j] /\ invitee'[j] = invitee[j] /\ grants'[j] = grants[j]
    BY <1>3, <1>5
<1> QED
    BY <1>1, <1>2, <1>6, <1>7, <1>8, <1>10, <1>11, <1>12, <1>13, FinishInv
       DEF TypeOK, RowsInOrder

LEMMA LockManagedInv ==
    ASSUME Inv, NEW r \in Requests, NEW i \in Invitations,
           NEW kind \in {"revoke", "resend"}, LockManaged(r, i, kind)
    PROVE  Inv'
<1>. DEFINE x == Handling("manage", kind, None, i, None, FALSE)
<1>1. /\ invitationLock[i] = None /\ istatus[i] = "PENDING"
      /\ invitationLock' = [invitationLock EXCEPT ![i] = r]
      /\ req' = [req EXCEPT ![r] = x]
      /\ UNCHANGED <<tables, orgLock, orgShared, memberLock, joining, inviting>>
    BY DEF LockManaged
<1>2. /\ x \in Request /\ x.pc = "manage" /\ x.kind = kind /\ x.invitation = i
      /\ x.counted = {}
    BY DEF Handling, Request, Steps, Kinds, MemberStatuses
<1> HIDE DEF x
<1>3. Took(invitationLock, invitationLock', r, Invitations) /\ invitationLock'[i] = r
    BY <1>1, Types, TookOne
<1>4. Within(r)
    BY <1>1, <1>2, <1>3, Types, TookNothing DEF Within, Inv, Tables, RowsInOrder
<1>5. req'[r] = x /\ istatus' = istatus
    BY <1>1, Types DEF tables
<1>6. Held(r)'
    BY <1>1, <1>2, <1>3, <1>5 DEF Held, OwnersHeld, MemberHeld, InvitationHeld
<1> QED
    BY <1>4, <1>6, WithinInv

(* Revoke and Resend write the status of a pending invitation they hold. *)
LEMMA ManagedInv ==
    ASSUME Inv, NEW r \in Requests, req[r].pc = "manage", Finish(r),
           NEW s \in {"PENDING", "REVOKED"},
           istatus' = [istatus EXCEPT ![req[r].invitation] = s],
           overdue' \in [Invitations -> BOOLEAN],
           UNCHANGED <<status, user, owns, invitee, grants, archived>>
    PROVE  Inv'
<1>. DEFINE i == req[r].invitation
<1>1. i \in Invitations /\ invitationLock[i] = r /\ istatus[i] = "PENDING"
    BY DEF Inv, Held, InvitationHeld
<1>2. RowsInOrder /\ OnePerUser /\ LastOwner /\ TypeOK
    BY DEF Inv, Tables
<1>3. istatus' = [istatus EXCEPT ![i] = s]
    OBVIOUS
<1> HIDE DEF i
<1>4. \A j \in Invitations : istatus'[j] = IF j = i THEN s ELSE istatus[j]
    BY <1>1, <1>2, <1>3 DEF TypeOK
<1>5. istatus' \in [Invitations -> InvitationStatuses]
    BY <1>1, <1>2, <1>3 DEF TypeOK, InvitationStatuses
<1>6. LastOwner' /\ ActiveOwners' = ActiveOwners /\ RowsKept
      /\ \A n \in Members : Live(n)' = Live(n)
    BY <1>2 DEF LastOwner, ActiveOwners, RowsKept, Live
<1>7. OnePerUser'
    BY <1>1, <1>2, <1>4, <1>6 DEF OnePerUser
<1>8. \A v \in Users : Pending(v)' \subseteq Pending(v)
    BY <1>1, <1>4 DEF Pending
<1>9. \A j \in Invitations : istatus'[j] # "NONE" => invitee'[j] \in Users
    BY <1>1, <1>2, <1>4 DEF RowsInOrder
<1> QED
    BY <1>1, <1>2, <1>4, <1>5, <1>6, <1>7, <1>8, <1>9, FinishInv DEF TypeOK, RowsInOrder

LEMMA CommitRevokeInv ==
    ASSUME Inv, NEW r \in Requests, CommitRevoke(r)
    PROVE  Inv'
BY ManagedInv DEF CommitRevoke, Inv, TypeOK

LEMMA CommitResendInv ==
    ASSUME Inv, NEW r \in Requests, CommitResend(r)
    PROVE  Inv'
<1>1. overdue' \in [Invitations -> BOOLEAN]
    BY DEF CommitResend, Inv, TypeOK
<1> QED
    BY <1>1, ManagedInv DEF CommitResend

-----------------------------------------------------------------------------
(* Steps outside transactions. *)

LEMMA ArchiveInv ==
    ASSUME Inv, NEW r \in Requests, Archive(r)
    PROVE  Inv'
<1>1. /\ orgShared = {} /\ archived' = TRUE
      /\ UNCHANGED <<status, user, owns, istatus, invitee, grants, overdue, locks, req>>
    BY DEF Archive
<1>2. TypeOK' /\ Tables' /\ RowsKept
    BY <1>1 DEF Inv, TypeOK, Tables, RowsInOrder, LastOwner, OnePerUser, RowsKept,
                ActiveOwners, Live, locks
<1>3. ASSUME NEW q \in Requests
      PROVE  Undisturbed(q)
    BY <1>1 DEF Undisturbed, OrgUndisturbed, RowsUndisturbed, KeysUndisturbed, locks,
                ActiveOwners, Live, Pending
<1> QED
    BY <1>2, <1>3, Frame DEF Inv

LEMMA OverdueInv ==
    ASSUME Inv, NEW i \in Invitations, Overdue(i)
    PROVE  Inv'
<1>1. /\ overdue' \in [Invitations -> BOOLEAN]
      /\ UNCHANGED <<status, user, owns, istatus, invitee, grants, archived, locks, req>>
    BY DEF Overdue, Inv, TypeOK
<1>2. TypeOK' /\ Tables' /\ RowsKept
    BY <1>1 DEF Inv, TypeOK, Tables, RowsInOrder, LastOwner, OnePerUser, RowsKept,
                ActiveOwners, Live, locks
<1>3. ASSUME NEW q \in Requests
      PROVE  Undisturbed(q)
    BY <1>1 DEF Undisturbed, OrgUndisturbed, RowsUndisturbed, KeysUndisturbed, locks,
                ActiveOwners, Live, Pending
<1> QED
    BY <1>2, <1>3, Frame DEF Inv

LEMMA StutterInv ==
    ASSUME Inv, UNCHANGED vars
    PROVE  Inv'
<1>1. UNCHANGED <<status, user, owns, istatus, invitee, grants, overdue, archived,
                  orgLock, orgShared, memberLock, invitationLock, joining, inviting, req>>
    BY DEF vars, tables, locks
<1>2. TypeOK' /\ Tables' /\ RowsKept
    BY <1>1 DEF Inv, TypeOK, Tables, RowsInOrder, LastOwner, OnePerUser, RowsKept,
                ActiveOwners, Live
<1>3. ASSUME NEW q \in Requests
      PROVE  Undisturbed(q)
    BY <1>1 DEF Undisturbed, OrgUndisturbed, RowsUndisturbed, KeysUndisturbed,
                ActiveOwners, Live, Pending
<1> QED
    BY <1>2, <1>3, Frame DEF Inv

LEMMA InitInv ==
    ASSUME Init
    PROVE  Inv
<1>1. Idle \in Request /\ Idle.pc = "idle" /\ Idle.kind = "none" /\ Idle.counted = {}
    BY DEF Idle, Handling, Request, Steps, Kinds, MemberStatuses
<1>2. PICK m \in Members, u \in Users :
          /\ status = [n \in Members |-> IF n = m THEN "ACTIVE" ELSE "ABSENT"]
          /\ user = [n \in Members |-> IF n = m THEN u ELSE None]
          /\ owns = [n \in Members |-> n = m]
    BY DEF Init
<1>3. TypeOK
    <2>1. owns \in [Members -> BOOLEAN]
        BY <1>2
    <2>2. /\ status \in [Members -> MemberStatuses]
          /\ user \in [Members -> Users \cup {None}]
        BY <1>2 DEF MemberStatuses
    <2> QED
        BY <1>1, <2>1, <2>2 DEF Init, TypeOK, InvitationStatuses
<1>4. Tables
    <2>1. status[m] = "ACTIVE" /\ owns[m]
        BY <1>2
    <2>2. LastOwner
        BY <2>1 DEF LastOwner, ActiveOwners
    <2>3. \A n \in Members : status[n] # "ABSENT" => n = m
        BY <1>2
    <2>4. OnePerUser
        BY <2>3 DEF Init, OnePerUser, Live
    <2>5. RowsInOrder
        BY <1>2, <2>3 DEF Init, RowsInOrder
    <2> QED
        BY <2>2, <2>4, <2>5 DEF Tables
<1>5. ASSUME NEW r \in Requests
      PROVE  Held(r)
    BY <1>1, NoneIsNobody DEF Init, Held, OwnersHeld, MemberHeld, InvitationHeld
<1> QED
    BY <1>3, <1>4, <1>5 DEF Inv

LEMMA ArrivalInv ==
    ASSUME Inv, NEW r \in Requests, Arrival(r)
    PROVE  Inv'
BY LockForStatusInv, LockForUnbindInv, LockGrantedInv, ExpirePendingInv,
   LockInvitationInv, LockManagedInv, ArchiveInv
   DEF Arrival

LEMMA ProgressInv ==
    ASSUME Inv, NEW r \in Requests, Progress(r)
    PROVE  Inv'
BY LockBoundInv, CountOwnersInv, VisitOwnerInv, ReadMembershipInv, InsertMembershipInv,
   CommitStatusInv, CommitUnbindInv, CommitGrantInv, ReadNoMembershipInv, LockJoinedInv,
   ResolveScopesInv, CommitAcceptInv, InsertInvitationInv, CheckInviterInv,
   CommitInviteInv, CommitRevokeInv, CommitResendInv
   DEF Progress

LEMMA StepInv ==
    ASSUME Inv, [Next]_vars
    PROVE  Inv'
BY ArrivalInv, ProgressInv, RollbackInv, OverdueInv, StutterInv DEF Next, Abort, Crash

(* Every reachable state satisfies the inductive invariant: the tables are *)
(* in order, and what each transaction in progress has read is true.       *)
THEOREM MembersInvariance == Spec => []Inv
<1>1. Init => Inv
    BY InitInv
<1>2. Inv /\ [Next]_vars => Inv'
    BY StepInv
<1> QED
    BY <1>1, <1>2, PTL DEF Spec

(* Type correctness of the tables, locks and request records. *)
THEOREM MembersTypeCorrect == Spec => []TypeOK
<1>1. Inv => TypeOK
    BY DEF Inv
<1> QED
    BY <1>1, MembersInvariance, PTL

(* ErrLastOwnerRequired: an organization never loses its last active owner,*)
(* whatever number of handlers suspend, remove, unbind, grant and accept.  *)
THEOREM OwnerRemains == Spec => []LastOwner
<1>1. Inv => LastOwner
    BY DEF Inv, Tables
<1> QED
    BY <1>1, MembersInvariance, PTL

(* The partial unique indexes, with ensureMembership's unlocked read above *)
(* them, leave a user one live membership and one pending invitation.      *)
THEOREM OneMembershipPerUser == Spec => []OnePerUser
<1>1. Inv => OnePerUser
    BY DEF Inv, Tables
<1> QED
    BY <1>1, MembersInvariance, PTL

(* What a handler read under its locks is still so when it commits. *)
THEOREM ReadsStayTrue == Spec => []ReadsProtected
<1>1. Inv => ReadsProtected
    BY DEF Inv, Tables, Held, ReadsProtected
<1> QED
    BY <1>1, MembersInvariance, PTL

-----------------------------------------------------------------------------
(* Deadlocks. *)

(* Where a transaction is that has locked the organization, a membership or*)
(* a key of a unique index.                                                *)
Placed(r) ==
    /\ orgLock = r => req[r].pc \in {"bound", "count", "visit"}
    /\ \A m \in Members : memberLock[m] = r =>
           req[r].pc \in {"count", "visit", "grant", "joined", "accepted"}
    /\ \A u \in Users :
           /\ joining[u] = r => req[r].pc \in {"joined", "accepted"}
           /\ inviting[u] = r => req[r].pc \in {"bind", "invited"}
    /\ req[r].pc = "grant" => req[r].kind = "bind"

AllPlaced == \A r \in Requests : Placed(r)

(* A transaction that ends has nothing locked. *)
LEMMA FinishPlaced ==
    ASSUME Inv, AllPlaced, NEW r \in Requests, Finish(r)
    PROVE  AllPlaced'
<1>1. /\ req' = [req EXCEPT ![r] = Idle]
      /\ orgLock' = IF orgLock = r THEN None ELSE orgLock
      /\ memberLock' = [m \in Members |-> IF memberLock[m] = r THEN None ELSE memberLock[m]]
      /\ joining' = [u \in Users |-> IF joining[u] = r THEN None ELSE joining[u]]
      /\ inviting' = [u \in Users |-> IF inviting[u] = r THEN None ELSE inviting[u]]
    BY Types DEF Finish, ReleaseLocks, Without
<1>2. req'[r] = Idle /\ Idle.pc = "idle" /\ \A q \in Requests \ {r} : req'[q] = req[q]
    BY <1>1, Types DEF Idle, Handling
<1>3. Placed(r)'
    BY <1>1, <1>2, NoneIsNobody DEF Placed
<1>4. ASSUME NEW q \in Requests \ {r} PROVE Placed(q)'
    BY <1>1, <1>2, NoneIsNobody DEF AllPlaced, Placed
<1> QED
    BY <1>3, <1>4 DEF AllPlaced

LEMMA CountsPlaced ==
    ASSUME Inv, AllPlaced, NEW r \in Requests,
           \/ \E m \in Members, to \in MemberStatuses : LockForStatus(r, m, to)
           \/ \E m \in Members : LockForUnbind(r, m)
           \/ LockBound(r)
           \/ CountOwners(r)
           \/ \E m \in Members : VisitOwner(r, m)
    PROVE  AllPlaced'
<1>1. ASSUME NEW m \in Members, NEW to, LockForStatus(r, m, to) PROVE AllPlaced'
    BY <1>1, Types, NoneIsNobody DEF LockForStatus, Counting, AllPlaced, Placed
<1>2. ASSUME NEW m \in Members, LockForUnbind(r, m) PROVE AllPlaced'
    BY <1>2, Types, NoneIsNobody DEF LockForUnbind, Counting, AllPlaced, Placed
<1>3. CASE LockBound(r)
    <2>1. CASE ~owns[req[r].member]
        BY <1>3, <2>1, FinishPlaced DEF LockBound, Rollback
    <2>2. CASE owns[req[r].member]
        BY <1>3, <2>2, Types, NoneIsNobody DEF LockBound, Counting, AllPlaced, Placed
    <2> QED
        BY <2>1, <2>2
<1>4. CASE CountOwners(r)
    BY <1>4, Types DEF CountOwners, Counting, AllPlaced, Placed, locks
<1>5. ASSUME NEW m \in Members, VisitOwner(r, m) PROVE AllPlaced'
    BY <1>5, Types, NoneIsNobody DEF VisitOwner, Counting, AllPlaced, Placed
<1> QED
    BY <1>1, <1>2, <1>3, <1>4, <1>5

LEMMA JoinsPlaced ==
    ASSUME Inv, AllPlaced, NEW r \in Requests,
           \/ \E m \in Members : \/ LockGranted(r, m)
                                \/ ReadMembership(r, m)
                                \/ InsertMembership(r, m)
           \/ \E i \in Invitations : LockInvitation(r, i)
           \/ ReadNoMembership(r)
           \/ LockJoined(r)
           \/ ResolveScopes(r)
    PROVE  AllPlaced'
<1>1. ASSUME NEW m \in Members, LockGranted(r, m) PROVE AllPlaced'
    BY <1>1, Types, NoneIsNobody DEF LockGranted, Handling, AllPlaced, Placed
<1>2. ASSUME NEW m \in Members, ReadMembership(r, m) PROVE AllPlaced'
    BY <1>2, Types, NoneIsNobody DEF ReadMembership, GoOn, Handling, AllPlaced, Placed, locks
<1>3. ASSUME NEW m \in Members, InsertMembership(r, m) PROVE AllPlaced'
    <2>1. CASE \E n \in Members : user[n] = req[r].user /\ Live(n)
        BY <1>3, <2>1, FinishPlaced DEF InsertMembership, Rollback
    <2>2. CASE ~\E n \in Members : user[n] = req[r].user /\ Live(n)
        BY <1>3, <2>2, Types, NoneIsNobody DEF InsertMembership, GoOn, Handling, AllPlaced, Placed
    <2> QED
        BY <2>1, <2>2
<1>4. ASSUME NEW i \in Invitations, LockInvitation(r, i) PROVE AllPlaced'
    BY <1>4, Types, NoneIsNobody DEF LockInvitation, Handling, AllPlaced, Placed
<1>5. CASE ReadNoMembership(r)
    BY <1>5, Types, NoneIsNobody DEF ReadNoMembership, GoOn, Handling, AllPlaced, Placed, locks
<1>6. CASE LockJoined(r)
    BY <1>6, Types, NoneIsNobody DEF LockJoined, GoOn, Handling, AllPlaced, Placed
<1>7. CASE ResolveScopes(r)
    <2>1. CASE archived \/ status[req[r].member] = "REMOVED"
        BY <1>7, <2>1, FinishPlaced DEF ResolveScopes, Rollback
    <2>2. CASE ~(archived \/ status[req[r].member] = "REMOVED")
        BY <1>7, <2>2, Types, NoneIsNobody DEF ResolveScopes, GoOn, Handling, AllPlaced, Placed
    <2> QED
        BY <2>1, <2>2
<1> QED
    BY <1>1, <1>2, <1>3, <1>4, <1>5, <1>6, <1>7

LEMMA InvitesPlaced ==
    ASSUME Inv, AllPlaced, NEW r \in Requests,
           \/ \E m \in Members, u \in Users, o \in BOOLEAN : ExpirePending(r, m, u, o)
           \/ \E i \in Invitations : InsertInvitation(r, i)
           \/ CheckInviter(r)
           \/ \E i \in Invitations, kind \in {"revoke", "resend"} : LockManaged(r, i, kind)
    PROVE  AllPlaced'
<1>1. ASSUME NEW m \in Members, NEW u \in Users, NEW o \in BOOLEAN, ExpirePending(r, m, u, o)
      PROVE  AllPlaced'
    BY <1>1, Types, NoneIsNobody DEF ExpirePending, Handling, AllPlaced, Placed
<1>2. ASSUME NEW i \in Invitations, InsertInvitation(r, i) PROVE AllPlaced'
    <2>1. CASE \E j \in Pending(req[r].user) : invitationLock[j] # r
        BY <1>2, <2>1, FinishPlaced DEF InsertInvitation, Rollback
    <2>2. CASE ~\E j \in Pending(req[r].user) : invitationLock[j] # r
        BY <1>2, <2>2, Types, NoneIsNobody
           DEF InsertInvitation, GoOnWith, Handling, AllPlaced, Placed
    <2> QED
        BY <2>1, <2>2
<1>3. CASE CheckInviter(r)
    <2>1. CASE req[r].owner /\ req[r].member \notin ActiveOwners
        BY <1>3, <2>1, FinishPlaced DEF CheckInviter, Rollback
    <2>2. CASE ~(req[r].owner /\ req[r].member \notin ActiveOwners)
        BY <1>3, <2>2, Types, NoneIsNobody
           DEF CheckInviter, GoOnWith, Handling, AllPlaced, Placed, locks
    <2> QED
        BY <2>1, <2>2
<1>4. ASSUME NEW i \in Invitations, NEW kind \in {"revoke", "resend"}, LockManaged(r, i, kind)
      PROVE  AllPlaced'
    BY <1>4, Types, NoneIsNobody DEF LockManaged, Handling, AllPlaced, Placed
<1> QED
    BY <1>1, <1>2, <1>3, <1>4

LEMMA StepPlaced ==
    ASSUME Inv, AllPlaced, [Next]_vars
    PROVE  AllPlaced'
<1>1. ASSUME NEW r \in Requests, Finish(r) PROVE AllPlaced'
    BY <1>1, FinishPlaced
<1>2. ASSUME UNCHANGED <<locks, req>> PROVE AllPlaced'
    BY <1>2 DEF AllPlaced, Placed, locks
<1>3. ASSUME NEW r \in Requests, Arrival(r) PROVE AllPlaced'
    BY <1>2, <1>3, CountsPlaced, JoinsPlaced, InvitesPlaced DEF Arrival, Archive, MemberStatuses, locks
<1>4. ASSUME NEW r \in Requests, Progress(r) PROVE AllPlaced'
    <2>1. CASE Finish(r)
        BY <1>1, <2>1
    <2>2. CASE ~Finish(r)
        BY <1>4, <2>2, CountsPlaced, JoinsPlaced, InvitesPlaced
           DEF Progress, CommitStatus, CommitUnbind, CommitGrant, CommitAccept,
               CommitInvite, CommitRevoke, CommitResend, Rollback
    <2> QED
        BY <2>1, <2>2
<1>5. ASSUME NEW i \in Invitations, Overdue(i) PROVE AllPlaced'
    BY <1>2, <1>5 DEF Overdue
<1>6. ASSUME UNCHANGED vars PROVE AllPlaced'
    BY <1>2, <1>6 DEF vars
<1> QED
    BY <1>1, <1>3, <1>4, <1>5, <1>6 DEF Next, Abort, Crash, Rollback

LEMMA InitPlaced == Init => AllPlaced
BY NoneIsNobody DEF Init, AllPlaced, Placed, Idle, Handling

(* Whoever waits for another in a circle is in a state in which it both has*)
(* something and wants something.                                          *)
LEMMA CircleMember ==
    ASSUME Inv, AllPlaced, NEW S \in SUBSET Requests, InCircle(S), NEW r \in S
    PROVE  /\ req[r].pc \in {"bound", "visit", "grant", "joined"}
           /\ req[r].pc \in {"grant", "joined"} => orgLock \in S
<1>1. PICK y \in S, z \in S : WaitsFor(r, y) /\ WaitsFor(z, r)
    BY DEF InCircle
<1>2. req[r].pc \in {"bound", "lock", "visit", "grant", "join", "joined", "invite", "manage"}
      /\ (req[r].pc \in {"grant", "joined"} => orgLock = y)
    BY <1>1 DEF WaitsFor
<1>3. Held(z) /\ req[z].pending \subseteq Members
    BY DEF Inv, TypeOK, Request
<1>4. \/ orgLock = r
      \/ \E m \in Members : memberLock[m] = r
      \/ \E u \in Users : joining[u] = r \/ inviting[u] = r
    <2>1. req[z].pc \in {"bound", "lock", "visit"} => req[z].member \in Members
        BY <1>3 DEF Held, OwnersHeld, MemberHeld
    <2>2. req[z].pc = "join" => req[z].user \in Users
        BY <1>3 DEF Held, MemberHeld, Inv, Tables, RowsInOrder
    <2>3. req[z].pc = "invite" => req[z].user \in Users
        BY <1>3 DEF Held, InvitationHeld
    <2> QED
        BY <1>1, <1>3, <2>1, <2>2, <2>3 DEF WaitsFor
<1>5. req[r].pc \in {"bound", "count", "visit", "grant", "joined", "accepted", "bind", "invited"}
    BY <1>4 DEF AllPlaced, Placed
<1> QED
    BY <1>1, <1>2, <1>5

LEMMA CirclesAreCountAgainstGrant == Inv /\ AllPlaced => DeadlocksCountAgainstGrant
<1> SUFFICES ASSUME Inv, AllPlaced, NEW S \in (SUBSET Requests) \ {{}}, InCircle(S)
             PROVE  /\ orgLock \in S /\ req[orgLock].kind \in {"status", "unbind"}
                    /\ \A r \in S \ {orgLock} : req[r].kind \in {"bind", "accept"}
    BY DEF DeadlocksCountAgainstGrant
<1>1. ASSUME NEW r \in S, req[r].pc \in {"bound", "visit"}
      PROVE  orgLock = r /\ req[r].kind \in {"status", "unbind"}
    BY <1>1 DEF Inv, Held, OwnersHeld
<1>2. ASSUME NEW r \in S, req[r].pc \in {"grant", "joined"}
      PROVE  req[r].kind \in {"bind", "accept"}
    BY <1>2 DEF Inv, Held, MemberHeld, AllPlaced, Placed
<1>3. orgLock \in S
    <2>1. PICK r \in S : TRUE
        OBVIOUS
    <2>2. /\ req[r].pc \in {"bound", "visit", "grant", "joined"}
          /\ req[r].pc \in {"grant", "joined"} => orgLock \in S
        BY <2>1, CircleMember
    <2> QED
        BY <1>1, <2>1, <2>2
<1>4. req[orgLock].pc \in {"bound", "visit"}
    <2>1. req[orgLock].pc \in {"bound", "count", "visit"}
        BY <1>3 DEF AllPlaced, Placed
    <2> QED
        BY <1>3, <2>1, CircleMember
<1> QED
    BY <1>1, <1>2, <1>3, <1>4, CircleMember

(* Whatever counts, grants, acceptances and invitations run, a deadlock is *)
(* one owner count against a grant or an acceptance: counts are serialized *)
(* by the organization row, and other handlers hold nothing while they wait*)
(* that anybody wants.                                                     *)
THEOREM DeadlocksFound == Spec => []DeadlocksCountAgainstGrant
<1>1. Init => AllPlaced
    BY InitPlaced
<1>2. Inv /\ AllPlaced /\ [Next]_vars => AllPlaced'
    BY StepPlaced
<1>3. Inv /\ AllPlaced => DeadlocksCountAgainstGrant
    BY CirclesAreCountAgainstGrant
<1> QED
    BY <1>1, <1>2, <1>3, MembersInvariance, PTL DEF Spec

-----------------------------------------------------------------------------
(* Action properties.  Only commits write the tables they speak of. *)

Writes(r) ==
    \/ CommitStatus(r) /\ ~UNCHANGED tables
    \/ CommitUnbind(r) /\ ~UNCHANGED tables
    \/ CommitGrant(r)
    \/ CommitAccept(r)
    \/ CommitInvite(r)
    \/ CommitRevoke(r)
    \/ CommitResend(r)

Quiet == UNCHANGED <<status, user, owns, istatus>>

LEMMA OnlyCommitsWrite ==
    ASSUME [Next]_vars
    PROVE  Quiet \/ \E r \in Requests : Writes(r)
<1>1. ASSUME NEW r \in Requests, Arrival(r)
      PROVE  Quiet
    BY <1>1 DEF Arrival, LockForStatus, LockForUnbind, LockGranted, ExpirePending,
                LockInvitation, LockManaged, Archive, Quiet, tables
<1>2. ASSUME NEW r \in Requests, Rollback(r)
      PROVE  Quiet
    BY <1>2 DEF Rollback, Quiet, tables
<1>3. ASSUME NEW r \in Requests, Progress(r)
      PROVE  Quiet \/ Writes(r)
    <2>1. CASE CommitStatus(r) \/ CommitUnbind(r)
        BY <2>1 DEF Writes, Quiet, tables
    <2>2. CASE LockBound(r) \/ \E m \in Members : InsertMembership(r, m)
        BY <2>2, <1>2 DEF LockBound, InsertMembership, Quiet, tables
    <2>3. CASE ResolveScopes(r) \/ CheckInviter(r) \/ \E i \in Invitations : InsertInvitation(r, i)
        BY <2>3, <1>2 DEF ResolveScopes, CheckInviter, InsertInvitation, Quiet, tables
    <2>4. CASE \/ CountOwners(r) \/ ReadNoMembership(r) \/ LockJoined(r)
               \/ \E m \in Members : VisitOwner(r, m) \/ ReadMembership(r, m)
        BY <2>4 DEF CountOwners, ReadNoMembership, LockJoined, VisitOwner, ReadMembership,
                    Quiet, tables
    <2>5. CASE \/ CommitGrant(r) \/ CommitAccept(r) \/ CommitInvite(r)
               \/ CommitRevoke(r) \/ CommitResend(r)
        BY <2>5 DEF Writes
    <2> QED
        BY <1>3, <2>1, <2>2, <2>3, <2>4, <2>5 DEF Progress
<1>4. ASSUME NEW i \in Invitations, Overdue(i)
      PROVE  Quiet
    BY <1>4 DEF Overdue, Quiet
<1>5. ASSUME UNCHANGED vars
      PROVE  Quiet
    BY <1>5 DEF vars, tables, Quiet
<1> QED
    BY <1>1, <1>2, <1>3, <1>4, <1>5 DEF Next, Abort, Crash

(* A commit ends its request. *)
LEMMA WritesEnd ==
    ASSUME Inv, NEW r \in Requests, Writes(r)
    PROVE  req'[r] # req[r]
<1>1. Idle.pc = "idle"
    BY DEF Idle, Handling
<1>2. req[r].pc # "idle"
    BY DEF Writes, CommitStatus, CommitUnbind, CommitGrant, CommitAccept, CommitInvite,
           CommitRevoke, CommitResend
<1>3. Finish(r)
    BY DEF Writes, CommitStatus, CommitUnbind, CommitGrant, CommitAccept, CommitInvite,
           CommitRevoke, CommitResend, Rollback
<1>4. req'[r] = Idle
    BY <1>3, Finishing
<1> QED
    BY <1>1, <1>2, <1>4

(* A commit that changes the owners has the organization, or at least      *)
(* nobody else has it.                                                     *)
LEMMA OwnersOrg ==
    ASSUME Inv, NEW r \in Requests, Writes(r), ActiveOwners' # ActiveOwners
    PROVE  orgLock \in {None, r}
<1>1. CASE CommitStatus(r) \/ CommitUnbind(r)
    BY <1>1 DEF CommitStatus, CommitUnbind, Inv, Held, OwnersHeld
<1>2. CASE CommitGrant(r)
    BY <1>2 DEF CommitGrant, OrgFree
<1>3. CASE CommitAccept(r)
    BY <1>3 DEF CommitAccept, Inv, Tables, Held, MemberHeld, RowsInOrder
<1>4. CASE CommitInvite(r) \/ CommitRevoke(r) \/ CommitResend(r)
    <2>1. status' = status /\ owns' = owns
        BY <1>4 DEF CommitInvite, CommitRevoke, CommitResend
    <2> QED
        BY <2>1 DEF ActiveOwners
<1> QED
    BY <1>1, <1>2, <1>3, <1>4 DEF Writes

(* "Serializes all owner-changing operations on the organization row":     *)
(* while a handler has that row nobody else changes the owners, although   *)
(* CreateBinding and Accept do not ask for the lock.                       *)
THEOREM OwnerChangesSerialized == Spec => OwnersSerialized
<1>. DEFINE Act == \A r \in Requests :
                      orgLock = r /\ ActiveOwners' # ActiveOwners => req'[r] # req[r]
<1>1. Inv /\ [Next]_vars => [Act]_vars
    <2>. SUFFICES ASSUME Inv, [Next]_vars, NEW r \in Requests,
                         orgLock = r, ActiveOwners' # ActiveOwners
                  PROVE  req'[r] # req[r]
        OBVIOUS
    <2>1. ~Quiet
        BY DEF Quiet, ActiveOwners
    <2>2. PICK q \in Requests : Writes(q)
        BY <2>1, OnlyCommitsWrite
    <2>3. q = r
        BY <2>2, OwnersOrg, NoneIsNobody
    <2> QED
        BY <2>2, <2>3, WritesEnd
<1> QED
    BY <1>1, MembersInvariance, PTL DEF Spec, OwnersSerialized

(* "Only an active owner can invite another owner", at the commit. *)
THEOREM OwnerInvitesByOwners == Spec => OwnersInviteOwners
<1>. DEFINE Act == \A r \in Requests :
                      CommitInvite(r) /\ req[r].owner => req[r].member \in ActiveOwners
<1>1. Inv => Act
    BY DEF Inv, Held, InvitationHeld, CommitInvite
<1> QED
    BY <1>1, MembersInvariance, PTL DEF Spec, OwnersInviteOwners

(* Removed memberships and ended invitations stay as they are. *)
THEOREM EndsAreKept == Spec => EndsStand
<1>. DEFINE Act == /\ \A m \in Members : status[m] = "REMOVED" => status'[m] = "REMOVED"
                   /\ \A i \in Invitations :
                         istatus[i] \in {"ACCEPTED", "REVOKED", "EXPIRED"} =>
                             istatus'[i] = istatus[i]
<1>1. ASSUME Inv, NEW r \in Requests, Writes(r)
      PROVE  Act
    <2>0. /\ status \in [Members -> MemberStatuses]
          /\ istatus \in [Invitations -> InvitationStatuses]
          /\ MemberHeld(r) /\ InvitationHeld(r)
        BY <1>1 DEF Inv, TypeOK, Held
    <2>1. CASE CommitStatus(r) /\ ~UNCHANGED tables
        <3>1. /\ status' = [status EXCEPT ![req[r].member] = req[r].to]
              /\ ValidTransition(status[req[r].member], req[r].to)
              /\ UNCHANGED istatus
            BY <2>1 DEF CommitStatus, Rollback
        <3> QED
            BY <2>0, <3>1 DEF ValidTransition
    <2>2. CASE CommitUnbind(r) \/ CommitGrant(r)
        BY <2>2 DEF CommitUnbind, CommitGrant, Rollback, tables
    <2>3. CASE CommitAccept(r)
        BY <2>0, <2>3 DEF CommitAccept, MemberHeld
    <2>4. CASE CommitInvite(r)
        BY <2>0, <2>4 DEF CommitInvite, InvitationHeld
    <2>5. CASE CommitRevoke(r) \/ CommitResend(r)
        BY <2>0, <2>5 DEF CommitRevoke, CommitResend, InvitationHeld
    <2> QED
        BY <1>1, <2>1, <2>2, <2>3, <2>4, <2>5 DEF Writes
<1>2. Inv /\ [Next]_vars => [Act]_vars
    BY <1>1, OnlyCommitsWrite DEF Quiet
<1> QED
    BY <1>2, MembersInvariance, PTL DEF Spec, EndsStand

(* Accept: the step that marks an invitation as accepted leaves its user an*)
(* active member, and an owner if it says so, of a live organization.      *)
THEOREM AcceptanceJoins == Spec => AcceptedJoins
<1>. DEFINE Act == \A i \in Invitations :
                      istatus[i] # "ACCEPTED" /\ istatus'[i] = "ACCEPTED" =>
                          /\ ~archived'
                          /\ \E m \in Members :
                                 /\ user'[m] = invitee[i] /\ status'[m] = "ACTIVE"
                                 /\ grants[i] => owns'[m]
<1>1. ASSUME Inv, NEW r \in Requests, CommitAccept(r)
      PROVE  Act
    <2>. DEFINE m == req[r].member
    <2>1. Accepting(r) /\ m \in Members /\ ~archived /\ status[m] # "REMOVED"
        BY <1>1, AcceptingHolds DEF CommitAccept, Inv, Held, MemberHeld
    <2>2. /\ status'[m] = "ACTIVE" /\ user'[m] = req[r].user
          /\ req[r].owner => owns'[m]
          /\ ~archived'
        BY <1>1, <2>1 DEF CommitAccept, Inv, TypeOK
    <2>3. \A i \in Invitations : i # req[r].invitation => istatus'[i] = istatus[i]
        BY <1>1 DEF CommitAccept, Inv, TypeOK
    <2> QED
        BY <2>1, <2>2, <2>3 DEF Accepting
<1>2. ASSUME Inv, NEW r \in Requests, Writes(r), ~CommitAccept(r), NEW i \in Invitations,
             istatus'[i] = "ACCEPTED"
      PROVE  istatus[i] = "ACCEPTED"
    <2>1. istatus \in [Invitations -> InvitationStatuses]
        BY <1>2 DEF Inv, TypeOK
    <2>2. CASE CommitStatus(r) \/ CommitUnbind(r) \/ CommitGrant(r)
        BY <1>2, <2>2 DEF CommitStatus, CommitUnbind, CommitGrant, Rollback, tables
    <2>3. CASE CommitInvite(r)
        BY <1>2, <2>1, <2>3 DEF CommitInvite
    <2>4. CASE CommitRevoke(r) \/ CommitResend(r)
        BY <1>2, <2>1, <2>4 DEF CommitRevoke, CommitResend
    <2> QED
        BY <1>2, <2>2, <2>3, <2>4 DEF Writes
<1>3. Inv /\ [Next]_vars => [Act]_vars
    BY <1>1, <1>2, OnlyCommitsWrite DEF Quiet
<1> QED
    BY <1>3, MembersInvariance, PTL DEF Spec, AcceptedJoins

=============================================================================
