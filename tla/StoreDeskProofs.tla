-------------------------- MODULE StoreDeskProofs --------------------------
(***************************************************************************)
(* The properties of StoreDesk for any stores, methods, codes and keys and *)
(* any finite number of requests at a time.                                *)
(***************************************************************************)
EXTENDS StoreDesk, FiniteSetTheorems, TLAPS

Modes == {"-", "S", "X"}

Request ==
    [op : {"none", "status", "update", "create", "method", "replace", "bind", "sale"},
     pc : {"idle", "org", "row", "check", "commit", "copy", "number", "insert"},
     store : Stores \cup {None}, method : Methods \cup {None}, target : StoreStatus \cup Flag,
     code : Codes \cup {None}, key : Keys \cup {None}, number : Nat,
     desired : [Methods -> Flag], org : Modes, row : Modes, counter : BOOLEAN]

Sale == [store : Stores, key : Keys, number : Nat \ {0}, open : BOOLEAN]

TypeOK ==
    /\ store \in [Stores -> StoreStatus \cup {"NONE"}]
    /\ code \in [Stores -> Codes \cup {None}]
    /\ method \in [Methods -> Flag]
    /\ binding \in [Stores -> [Methods -> Flag]]
    /\ sales \subseteq Sale
    /\ counter \in [Stores -> Nat \ {0}]
    /\ req \in [Requests -> Request]

-----------------------------------------------------------------------------
(* Which statements a handler goes through, and what it holds there. *)

Stage(op, pc) ==
    \/ op = "none" /\ pc = "idle"
    \/ op \in {"status", "replace", "bind"} /\ pc \in {"org", "row", "check", "commit"}
    \/ op = "method" /\ pc \in {"org", "check", "commit"}
    \/ op = "update" /\ pc \in {"row", "check"}
    \/ op = "create" /\ pc \in {"copy", "commit"}
    \/ op = "sale" /\ pc \in {"check", "number", "insert", "commit"}

Holds(op, pc) ==
    IF op \in {"status", "replace", "bind", "method"} /\ pc # "org" THEN "X"
    ELSE IF op = "create" THEN "S" ELSE "-"

Fits(x) ==
    /\ Stage(x.op, x.pc)
    /\ x.org = Holds(x.op, x.pc)
    /\ x.counter <=> x.op = "sale" /\ x.pc \in {"insert", "commit"}
    /\ x.op \notin {"none", "method"} => x.store \in Stores
    /\ x.op \in {"method", "bind"} => x.method \in Methods /\ x.target \in {"ON", "OFF"}
    /\ x.op = "status" => x.target \in StoreStatus
    /\ x.op \in {"update", "create"} => x.code \in Codes
    /\ x.op = "sale" => x.key \in Keys

RequestsFit == \A r \in Requests : Fits(req[r])

(* The organization has one writer, or readers. *)
OrganizationLocked ==
    \A r, q \in Requests : r # q /\ req[r].org = "X" => req[q].org = "-"

StoresCreatedOnce ==
    \A r, q \in Requests :
        req[r].op = "create" /\ req[q].op = "create" /\ req[r].store = req[q].store => r = q

CountersLocked ==
    \A r, q \in Requests :
        req[r].counter /\ req[q].counter /\ req[r].store = req[q].store => r = q

Payable(rows) == \E m \in Methods : rows[m] = "ON" /\ method[m] = "ON"

(* What a request has checked is still so when it commits. *)
Relies(r) ==
    /\ req[r].op = "status" /\ req[r].pc \in {"check", "commit"} => store[req[r].store] # "NONE"
    /\ req[r].op = "status" /\ req[r].pc = "commit" /\ req[r].target # "ACTIVE" =>
           \E t \in Stores \ {req[r].store} : store[t] = "ACTIVE"
    /\ req[r].op = "method" /\ req[r].pc = "commit" /\ req[r].target = "OFF" =>
           /\ \E m \in Methods \ {req[r].method} : method[m] = "ON"
           /\ \A s \in Stores : store[s] = "ACTIVE" /\ binding[s][req[r].method] = "ON" =>
                  \E m \in Methods \ {req[r].method} : m \in Operational(s)
    /\ req[r].op = "replace" => \E m \in Methods : req[r].desired[m] = "ON"
    /\ req[r].op = "replace" /\ req[r].pc = "commit" => Payable(req[r].desired)
    /\ req[r].op = "bind" /\ req[r].pc = "commit" /\ Operational(req[r].store) # {} =>
           Payable(req[r].desired)
    /\ req[r].op = "create" => store[req[r].store] = "NONE"
    /\ req[r].op = "create" /\ req[r].pc = "commit" /\ req[r].target = "ON" =>
           Payable(req[r].desired)
    /\ req[r].counter => req[r].number = counter[req[r].store]

RequestsRely == \A r \in Requests : Relies(r)

(* Every number that was given is behind the counter. *)
SalesNumbered ==
    \A sale \in sales : sale.number < counter[sale.store] /\ sale.number <= MaxNumber

(* The bound of CreateSale leaves a number for each request at work. *)
AtWork(s) == {r \in Requests : req[r].op = "sale" /\ req[r].store = s}
NumbersLeft ==
    \A s \in Stores :
        AtWork(s) # {} => counter[s] + Cardinality(AtWork(s)) <= MaxNumber + 1

Inv ==
    /\ TypeOK /\ RequestsFit
    /\ OrganizationLocked /\ StoresCreatedOnce /\ CountersLocked
    /\ RequestsRely /\ SalesNumbered /\ NumbersLeft
    /\ OrganizationRetains

-----------------------------------------------------------------------------
(* Steps. *)

(* What others may do while q is at work. *)
Undisturbed(q) ==
    /\ \A s \in Stores : store[s] # "NONE" => store'[s] # "NONE"
    /\ req[q].org = "X" => UNCHANGED <<store, method, binding>>
    /\ req[q].org = "S" => \A m \in Methods : method[m] = "ON" => method'[m] = "ON"
    /\ req[q].op = "create" => store'[req[q].store] = store[req[q].store]
    /\ req[q].counter => counter'[req[q].store] = counter[req[q].store]

(* A request that did not move still relies on what is true. *)
LEMMA Frame ==
    ASSUME Inv, NEW q \in Requests, req'[q] = req[q], Undisturbed(q)
    PROVE  Relies(q)'
<1>1. Fits(req[q]) /\ Relies(q) /\ req[q] \in Request
    BY DEF Inv, RequestsFit, RequestsRely, TypeOK
<1>2. CASE req[q].op \in {"status", "replace", "bind", "method"} /\ req[q].pc # "org"
    <2>1. req[q].org = "X" /\ UNCHANGED <<store, method, binding>> /\ ~req[q].counter
        BY <1>1, <1>2 DEF Fits, Holds, Undisturbed
    <2> QED
        BY <1>1, <1>2, <2>1 DEF Relies, Payable, Operational
<1>3. CASE req[q].op = "create"
    <2>1. req[q].org = "S" /\ ~req[q].counter
        BY <1>1, <1>3 DEF Fits, Holds
    <2>2. Payable(req[q].desired) => \E m \in Methods : req[q].desired[m] = "ON" /\ method'[m] = "ON"
        BY <2>1 DEF Payable, Undisturbed
    <2> QED
        BY <1>1, <1>3, <2>1, <2>2 DEF Relies, Undisturbed, Payable
<1>4. CASE req[q].op \in {"none", "update"}
    BY <1>1, <1>4 DEF Relies, Fits
<1>5. CASE req[q].op = "sale"
    BY <1>1, <1>5 DEF Relies, Undisturbed
<1>6. CASE req[q].op \in {"status", "replace", "bind", "method"} /\ req[q].pc = "org"
    BY <1>1, <1>6 DEF Relies, Fits
<1> QED
    BY <1>1, <1>2, <1>3, <1>4, <1>5, <1>6 DEF Request

(* It is enough to look at the tables and the request that takes the step. *)
LEMMA Combine ==
    ASSUME Inv, TypeOK', NEW r \in Requests,
           \A q \in Requests \ {r} : req'[q] = req[q] /\ Undisturbed(q),
           Fits(req'[r]), Relies(r)',
           req'[r].org = "X" => \A q \in Requests \ {r} : req[q].org = "-",
           req'[r].org = "S" => \A q \in Requests \ {r} : req[q].org # "X",
           req'[r].op = "create" =>
               \A q \in Requests \ {r} : ~(req[q].op = "create" /\ req[q].store = req'[r].store),
           req'[r].counter =>
               \A q \in Requests \ {r} : ~(req[q].counter /\ req[q].store = req'[r].store),
           SalesNumbered', NumbersLeft', OrganizationRetains'
    PROVE  Inv'
<1>1. RequestsRely'
    BY Frame DEF RequestsRely
<1>2. RequestsFit'
    BY DEF RequestsFit, Inv
<1>3. OrganizationLocked'
    <2>1. \A q \in Requests : req'[q].org \in Modes
        BY DEF TypeOK, Request
    <2> QED
        BY <2>1 DEF OrganizationLocked, Inv, Modes
<1>4. StoresCreatedOnce' /\ CountersLocked'
    BY DEF StoresCreatedOnce, CountersLocked, Inv
<1> QED
    BY <1>1, <1>2, <1>3, <1>4 DEF Inv

(* Fewer requests at work need fewer numbers. *)
LEMMA FewerAtWork ==
    ASSUME Inv, counter' = counter, \A s \in Stores : AtWork(s)' \subseteq AtWork(s)
    PROVE  NumbersLeft'
<1> SUFFICES ASSUME NEW s \in Stores, AtWork(s)' # {}
             PROVE  counter[s] + Cardinality(AtWork(s)') <= MaxNumber + 1
    BY DEF NumbersLeft
<1>1. IsFiniteSet(AtWork(s)) /\ Cardinality(AtWork(s)) \in Nat
    BY RequestsFinite, FS_Subset, FS_CardinalityType DEF AtWork
<1>2. /\ Cardinality(AtWork(s)') \in Nat
      /\ Cardinality(AtWork(s)') <= Cardinality(AtWork(s))
    BY <1>1, FS_Subset, FS_CardinalityType
<1>3. counter[s] \in Nat /\ MaxNumber \in Nat
    BY NumbersBounded DEF Inv, TypeOK
<1>4. counter[s] + Cardinality(AtWork(s)) <= MaxNumber + 1
    BY DEF Inv, NumbersLeft
<1> QED
    BY <1>1, <1>2, <1>3, <1>4

LEMMA IdleType ==
    /\ Idle \in Request /\ Fits(Idle)
    /\ Idle.op = "none" /\ Idle.org = "-" /\ Idle.number = 0 /\ ~Idle.counter /\ Idle.row = "-"
<1>1. NoMethods \in [Methods -> Flag]
    BY DEF NoMethods, Flag
<1>2. Idle.op = "none" /\ Idle.pc = "idle" /\ Idle.org = "-" /\ Idle.number = 0 /\ ~Idle.counter /\ Idle.row = "-"
    BY DEF Idle
<1>3. Idle \in Request
    BY <1>1 DEF Idle, Request, Modes, Flag
<1> QED
    BY <1>2, <1>3 DEF Fits, Stage, Holds

(* A request that is over holds nothing. *)
LEMMA EndFits ==
    ASSUME Inv, NEW r \in Requests, End(r)
    PROVE  /\ req' \in [Requests -> Request]
           /\ req'[r] = Idle /\ \A q \in Requests \ {r} : req'[q] = req[q]
           /\ Relies(r)' /\ \A s \in Stores : AtWork(s)' = AtWork(s) \ {r}
<1>1. /\ req' \in [Requests -> Request]
      /\ req'[r] = Idle /\ \A q \in Requests \ {r} : req'[q] = req[q]
    BY IdleType DEF End, Inv, TypeOK
<1>2. Relies(r)'
    BY <1>1, IdleType DEF Relies
<1>3. \A s \in Stores : AtWork(s)' = AtWork(s) \ {r}
    BY <1>1, IdleType DEF AtWork
<1> QED
    BY <1>1, <1>2, <1>3

(* The last step of a transaction. *)
LEMMA CommitInv ==
    ASSUME Inv, NEW r \in Requests, End(r), TypeOK',
           \A q \in Requests \ {r} : Undisturbed(q),
           SalesNumbered', NumbersLeft', OrganizationRetains'
    PROVE  Inv'
<1>1. /\ req'[r] = Idle /\ \A q \in Requests \ {r} : req'[q] = req[q]
      /\ Relies(r)'
    BY EndFits
<1>2. Fits(req'[r]) /\ req'[r].org = "-" /\ req'[r].op = "none" /\ ~req'[r].counter
    BY <1>1, IdleType
<1> QED
    BY <1>1, <1>2, Combine

(* Steps that change no table. *)
LEMMA TablesFrame ==
    ASSUME Inv, UNCHANGED tables
    PROVE  /\ \A q \in Requests : Undisturbed(q)
           /\ SalesNumbered' /\ OrganizationRetains' /\ counter' = counter
           /\ req' \in [Requests -> Request] => TypeOK'
BY DEF Inv, TypeOK, tables, Undisturbed, SalesNumbered, OrganizationRetains

LEMMA RejectInv ==
    ASSUME Inv, NEW r \in Requests, End(r), UNCHANGED tables
    PROVE  Inv'
<1>1. req' \in [Requests -> Request] /\ \A s \in Stores : AtWork(s)' \subseteq AtWork(s)
    BY EndFits
<1>2. NumbersLeft'
    BY <1>1, TablesFrame, FewerAtWork
<1> QED
    BY <1>1, <1>2, TablesFrame, CommitInv

(* A step of r to x; sales are counted elsewhere. *)
LEMMA MoveInv ==
    ASSUME Inv, NEW r \in Requests, NEW x \in Request, UNCHANGED tables,
           req' = [req EXCEPT ![r] = x], Fits(x), Relies(r)',
           x.org = "X" => req[r].org = "X" \/ \A q \in Requests \ {r} : req[q].org = "-",
           x.org = "S" => req[r].org = "S" \/ \A q \in Requests \ {r} : req[q].org # "X",
           x.op = "create" =>
               \A q \in Requests \ {r} : ~(req[q].op = "create" /\ req[q].store = x.store),
           x.counter =>
               \A q \in Requests \ {r} : ~(req[q].counter /\ req[q].store = x.store),
           x.op = "sale" => (req[r].op = "sale" /\ req[r].store = x.store) \/ NumbersLeft'
    PROVE  Inv'
<1>1. /\ req' \in [Requests -> Request] /\ req'[r] = x
      /\ \A q \in Requests \ {r} : req'[q] = req[q]
    BY DEF Inv, TypeOK
<1>2. NumbersLeft'
    <2>1. CASE x.op = "sale" /\ ~(req[r].op = "sale" /\ req[r].store = x.store)
        BY <2>1
    <2>2. CASE x.op = "sale" => (req[r].op = "sale" /\ req[r].store = x.store)
        <3>1. \A s \in Stores : AtWork(s)' \subseteq AtWork(s)
            BY <1>1, <2>2 DEF AtWork
        <3> QED
            BY <3>1, TablesFrame, FewerAtWork
    <2> QED
        BY <2>1, <2>2
<1>3. /\ x.org = "X" => \A q \in Requests \ {r} : req[q].org = "-"
      /\ x.org = "S" => \A q \in Requests \ {r} : req[q].org # "X"
    BY DEF Inv, OrganizationLocked
<1> QED
    BY <1>1, <1>2, <1>3, TablesFrame, Combine

-----------------------------------------------------------------------------
(* Locks. *)

LEMMA Holding ==
    ASSUME Inv, NEW r \in Requests
    PROVE  req[r] \in Request /\ Fits(req[r]) /\ Relies(r)
BY DEF Inv, TypeOK, RequestsFit, RequestsRely

AfterLock(old, x, next) ==
    /\ x \in Request
    /\ x.op = old.op /\ x.pc = next /\ x.org = "X"
    /\ x.store = old.store /\ x.method = old.method /\ x.target = old.target
    /\ x.code = old.code /\ x.key = old.key /\ x.desired = old.desired
    /\ x.counter = old.counter

LEMMA Locked ==
    ASSUME NEW old \in Request, NEW next \in {"check", "row"}, NEW x,
           x = [old EXCEPT !.org = "X", !.pc = next]
    PROVE  AfterLock(old, x, next)
<1>1. "X" \in Modes
    BY DEF Modes
<1>2. x \in Request
    BY <1>1 DEF Request
<1> QED
    BY <1>2 DEF Request, AfterLock

LEMMA LockOrganizationInv ==
    ASSUME Inv, NEW r \in Requests, LockOrganizationForOwnerChange(r)
    PROVE  Inv'
<1> PICK next : next = IF req[r].op = "method" THEN "check" ELSE "row"
    OBVIOUS
<1> PICK old : old = req[r]
    OBVIOUS
<1> PICK x : x = [old EXCEPT !.org = "X", !.pc = next]
    OBVIOUS
<1>1. req[r].pc = "org" /\ req' = [req EXCEPT ![r] = x] /\ UNCHANGED tables
    BY DEF LockOrganizationForOwnerChange
<1>2. /\ req[r] \in Request /\ Fits(req[r]) /\ Relies(r)
    BY Holding
<1>3. req[r].op \in {"status", "replace", "bind", "method"}
    BY <1>1, <1>2 DEF Fits, Stage
<1>4. /\ x \in Request /\ x.op = req[r].op /\ x.pc = next /\ x.org = "X"
      /\ x.store = req[r].store /\ x.method = req[r].method /\ x.target = req[r].target
      /\ x.code = req[r].code /\ x.key = req[r].key /\ x.desired = req[r].desired
      /\ x.counter = req[r].counter
    <2>1. next \in {"check", "row"} /\ old \in Request
        BY <1>2
    <2>2. AfterLock(old, x, next)
        BY <2>1, Locked
    <2> QED
        BY <2>2 DEF AfterLock
<1>5. Fits(x) /\ ~x.counter
    BY <1>1, <1>2, <1>3, <1>4 DEF Fits, Stage, Holds
<1>6. req'[r] = x
    BY <1>1 DEF Inv, TypeOK
<1>7. Relies(r)'
    BY <1>2, <1>3, <1>4, <1>5, <1>6 DEF Relies
<1>8. \A q \in Requests \ {r} : req[q].org = "-"
    <2> SUFFICES ASSUME NEW q \in Requests \ {r}
                 PROVE  req[q].org = "-"
        OBVIOUS
    <2>1. req[q].org \in Modes
        BY Holding DEF Request
    <2> QED
        BY <2>1 DEF LockOrganizationForOwnerChange, OrganizationBlockers, Conflict, Modes
<1>9. x.op \notin {"create", "sale"}
    BY <1>3, <1>4
<1> QED
    BY <1>1, <1>4, <1>5, <1>7, <1>8, <1>9, MoveInv

LEMMA LockStoreInv ==
    ASSUME Inv, NEW r \in Requests, LockStoreForStatusChange(r)
    PROVE  Inv'
<1>1. req[r].pc = "row" /\ UNCHANGED tables
    BY DEF LockStoreForStatusChange
<1>2. CASE store[req[r].store] = "NONE"
    BY <1>1, <1>2, RejectInv DEF LockStoreForStatusChange
<1>3. CASE store[req[r].store] # "NONE"
    <2> PICK x : x = [req[r] EXCEPT !.row = "X", !.pc = "check"]
        OBVIOUS
    <2>1. req' = [req EXCEPT ![r] = x]
        BY <1>3 DEF LockStoreForStatusChange
    <2>2. /\ req[r] \in Request /\ Fits(req[r]) /\ Relies(r)
        BY Holding
    <2>3. req[r].op \in {"status", "replace", "bind", "update"}
        BY <1>1, <2>2 DEF Fits, Stage
    <2>4. /\ x \in Request /\ x.op = req[r].op /\ x.pc = "check" /\ x.org = req[r].org
          /\ x.store = req[r].store /\ x.method = req[r].method /\ x.target = req[r].target
          /\ x.code = req[r].code /\ x.key = req[r].key /\ x.desired = req[r].desired
          /\ x.counter = req[r].counter
        BY <2>2 DEF Request, Modes
    <2>5. Fits(x) /\ ~x.counter
        BY <1>1, <2>2, <2>3, <2>4 DEF Fits, Stage, Holds
    <2>6. req'[r] = x
        BY <2>1 DEF Inv, TypeOK
    <2>7. Relies(r)'
        BY <1>1, <1>3, <2>2, <2>3, <2>4, <2>5, <2>6 DEF Relies, tables
    <2>8. x.op \notin {"create", "sale"}
        BY <2>3, <2>4
    <2> QED
        BY <1>1, <2>1, <2>4, <2>5, <2>7, <2>8, MoveInv
<1> QED
    BY <1>2, <1>3

-----------------------------------------------------------------------------
(* Handlers begin. *)

LEMMA BeginInv ==
    ASSUME Inv, NEW r \in Requests, NEW x \in Request, Begin(r, x), Fits(x),
           x.op \in {"status", "update", "method", "replace", "bind"}, x.pc \in {"org", "row"},
           x.pc = "org" \/ x.op = "update",
           x.op = "replace" => \E m \in Methods : x.desired[m] = "ON"
    PROVE  Inv'
<1>1. req' = [req EXCEPT ![r] = x] /\ UNCHANGED tables
    BY DEF Begin
<1>2. x.org = "-" /\ ~x.counter /\ x.op \notin {"create", "sale"}
    BY DEF Fits, Holds
<1>3. req'[r] = x
    BY <1>1 DEF Inv, TypeOK
<1>4. Relies(r)'
    BY <1>2, <1>3 DEF Relies
<1> QED
    BY <1>1, <1>2, <1>4, MoveInv

LEMMA SetStoreStatusInv ==
    ASSUME Inv, NEW r \in Requests, NEW s \in Stores, NEW target \in StoreStatus,
           SetStoreStatus(r, s, target)
    PROVE  Inv'
<1> PICK x : x = [Idle EXCEPT !.op = "status", !.pc = "org", !.store = s, !.target = target]
    OBVIOUS
<1>1. /\ x \in Request /\ x.op = "status" /\ x.pc = "org" /\ x.store = s /\ x.target = target
      /\ x.org = "-" /\ ~x.counter
    BY IdleType DEF Request
<1>2. Fits(x)
    BY <1>1 DEF Fits, Stage, Holds
<1> QED
    BY <1>1, <1>2, BeginInv DEF SetStoreStatus

LEMMA UpdateStoreInv ==
    ASSUME Inv, NEW r \in Requests, NEW s \in Stores, NEW c \in Codes,
           UpdateStore(r, s, c)
    PROVE  Inv'
<1> PICK x : x = [Idle EXCEPT !.op = "update", !.pc = "row", !.store = s, !.code = c]
    OBVIOUS
<1>1. /\ x \in Request /\ x.op = "update" /\ x.pc = "row" /\ x.store = s /\ x.code = c
      /\ x.org = "-" /\ ~x.counter
    BY IdleType DEF Request
<1>2. Fits(x)
    BY <1>1 DEF Fits, Stage, Holds
<1> QED
    BY <1>1, <1>2, BeginInv DEF UpdateStore

LEMMA SetOrganizationPaymentMethodStatusInv ==
    ASSUME Inv, NEW r \in Requests, NEW m \in Methods, NEW active \in {"ON", "OFF"},
           SetOrganizationPaymentMethodStatus(r, m, active)
    PROVE  Inv'
<1> PICK x : x = [Idle EXCEPT !.op = "method", !.pc = "org", !.method = m, !.target = active]
    OBVIOUS
<1>1. /\ x \in Request /\ x.op = "method" /\ x.pc = "org" /\ x.method = m /\ x.target = active
      /\ x.org = "-" /\ ~x.counter
    BY IdleType DEF Request, Flag
<1>2. Fits(x)
    BY <1>1 DEF Fits, Stage, Holds
<1> QED
    BY <1>1, <1>2, BeginInv DEF SetOrganizationPaymentMethodStatus

LEMMA UpdateStorePaymentMethodInv ==
    ASSUME Inv, NEW r \in Requests, NEW s \in Stores, NEW m \in Methods,
           NEW active \in {"ON", "OFF"},
           UpdateStorePaymentMethod(r, s, m, active)
    PROVE  Inv'
<1> PICK x : x = [Idle EXCEPT !.op = "bind", !.pc = "org", !.store = s, !.method = m,
                              !.target = active]
    OBVIOUS
<1>1. /\ x \in Request /\ x.op = "bind" /\ x.pc = "org" /\ x.store = s /\ x.method = m
      /\ x.target = active /\ x.org = "-" /\ ~x.counter
    BY IdleType DEF Request, Flag
<1>2. Fits(x)
    BY <1>1 DEF Fits, Stage, Holds
<1> QED
    BY <1>1, <1>2, BeginInv DEF UpdateStorePaymentMethod

LEMMA ReplaceStorePaymentMethodsInv ==
    ASSUME Inv, NEW r \in Requests, NEW s \in Stores, NEW desired \in [Methods -> Flag],
           ReplaceStorePaymentMethods(r, s, desired)
    PROVE  Inv'
<1> PICK x : x = [Idle EXCEPT !.op = "replace", !.pc = "org", !.store = s, !.desired = desired]
    OBVIOUS
<1>1. /\ x \in Request /\ x.op = "replace" /\ x.pc = "org" /\ x.store = s /\ x.desired = desired
      /\ x.org = "-" /\ ~x.counter
    BY IdleType DEF Request
<1>2. Fits(x)
    BY <1>1 DEF Fits, Stage, Holds
<1>3. \E p \in Methods : x.desired[p] = "ON"
    BY <1>1 DEF ReplaceStorePaymentMethods
<1> QED
    BY <1>1, <1>2, <1>3, BeginInv DEF ReplaceStorePaymentMethods

LEMMA CreateStoreInv ==
    ASSUME Inv, NEW r \in Requests, NEW s \in Stores, NEW c \in Codes, NEW copy \in BOOLEAN,
           CreateStore(r, s, c, copy)
    PROVE  Inv'
<1> PICK wanted : wanted = IF copy THEN "ON" ELSE "OFF"
    OBVIOUS
<1> PICK x : x = [Idle EXCEPT !.op = "create", !.pc = "copy", !.store = s, !.code = c, !.org = "S",
                              !.target = wanted]
    OBVIOUS
<1>1. wanted \in {"ON", "OFF"}
    OBVIOUS
<1>2. /\ x \in Request /\ x.op = "create" /\ x.pc = "copy" /\ x.store = s /\ x.code = c
      /\ x.org = "S" /\ ~x.counter
    BY <1>1, IdleType DEF Request, Flag, Modes
<1>3. Fits(x)
    BY <1>2 DEF Fits, Stage, Holds
<1>4. req' = [req EXCEPT ![r] = x] /\ UNCHANGED tables
    BY DEF CreateStore
<1>5. req'[r] = x
    BY <1>4 DEF Inv, TypeOK
<1>6. Relies(r)'
    BY <1>2, <1>4, <1>5 DEF Relies, CreateStore, tables
<1>7. \A q \in Requests \ {r} : req[q].org # "X"
    BY DEF CreateStore, OrganizationBlockers, Conflict
<1>8. \A q \in Requests \ {r} : ~(req[q].op = "create" /\ req[q].store = x.store)
    BY <1>2 DEF CreateStore
<1> QED
    BY <1>2, <1>3, <1>4, <1>6, <1>7, <1>8, MoveInv

(* One more at work. *)
LEMMA CreateSaleInv ==
    ASSUME Inv, NEW r \in Requests, NEW s \in Stores, NEW k \in Keys, CreateSale(r, s, k)
    PROVE  Inv'
<1> PICK x : x = [Idle EXCEPT !.op = "sale", !.pc = "check", !.store = s, !.key = k]
    OBVIOUS
<1>1. /\ x \in Request /\ x.op = "sale" /\ x.pc = "check" /\ x.store = s /\ x.key = k
      /\ x.org = "-" /\ ~x.counter
    BY IdleType DEF Request
<1>2. Fits(x)
    BY <1>1 DEF Fits, Stage, Holds
<1>3. /\ req' = [req EXCEPT ![r] = x] /\ UNCHANGED tables /\ req[r].op = "none"
      /\ counter[s] + Cardinality(Requests) <= MaxNumber + 1
    BY IdleType DEF CreateSale, Begin
<1>4. req'[r] = x /\ \A q \in Requests \ {r} : req'[q] = req[q]
    BY <1>3 DEF Inv, TypeOK
<1>5. Relies(r)'
    BY <1>1, <1>4 DEF Relies
<1>6. NumbersLeft'
    <2> SUFFICES ASSUME NEW z \in Stores, AtWork(z)' # {}
                 PROVE  counter[z] + Cardinality(AtWork(z)') <= MaxNumber + 1
        BY <1>3 DEF NumbersLeft, tables
    <2>1. CASE z = s
        <3>1. AtWork(z)' \subseteq Requests
            BY DEF AtWork
        <3>2. /\ Cardinality(AtWork(z)') \in Nat /\ Cardinality(Requests) \in Nat
              /\ Cardinality(AtWork(z)') <= Cardinality(Requests)
            BY <3>1, RequestsFinite, FS_Subset, FS_CardinalityType
        <3>3. counter[z] \in Nat /\ MaxNumber \in Nat
            BY NumbersBounded DEF Inv, TypeOK
        <3> QED
            BY <1>3, <2>1, <3>2, <3>3
    <2>2. CASE z # s
        <3>1. AtWork(z)' = AtWork(z)
            BY <1>1, <1>3, <1>4, <2>2 DEF AtWork
        <3> QED
            BY <3>1 DEF Inv, NumbersLeft
    <2> QED
        BY <2>1, <2>2
<1> QED
    BY <1>1, <1>2, <1>3, <1>5, <1>6, MoveInv

-----------------------------------------------------------------------------
(* What the handlers check. *)

LEMMA AnotherOne ==
    ASSUME NEW S, NEW a, ~(Cardinality(S) <= 1)
    PROVE  \E b \in S : b # a
<1> SUFFICES ASSUME \A b \in S : b = a
             PROVE  FALSE
    OBVIOUS
<1>1. S = {} \/ S = {a}
    OBVIOUS
<1>2. Cardinality({}) = 0 /\ Cardinality({a}) = 1
    BY FS_EmptySet, FS_Singleton
<1> QED
    BY <1>1, <1>2

LEMMA AnotherMethod ==
    ASSUME NEW s, NEW m, Cardinality(Operational(s)) > 1 \/ ~(Cardinality(Operational(s)) <= 1)
    PROVE  \E p \in Operational(s) : p # m
<1> SUFFICES ASSUME \A p \in Operational(s) : p = m
             PROVE  FALSE
    OBVIOUS
<1>1. Operational(s) = {} \/ Operational(s) = {m}
    OBVIOUS
<1>2. Cardinality({}) = 0 /\ Cardinality({m}) = 1
    BY FS_EmptySet, FS_Singleton
<1>3. Cardinality(Operational(s)) \in {0, 1}
    BY <1>1, <1>2
<1> QED
    BY <1>3

(* A handler that has passed its check goes on to commit. *)
AfterCheck(old, x, desired) ==
    /\ x \in Request /\ x.op = old.op /\ x.pc = "commit" /\ x.org = old.org
    /\ x.store = old.store /\ x.method = old.method /\ x.target = old.target
    /\ x.code = old.code /\ x.key = old.key /\ x.counter = old.counter
    /\ x.desired = desired

LEMMA Checked ==
    ASSUME NEW old \in Request, NEW desired \in [Methods -> Flag], NEW x,
           x = [old EXCEPT !.pc = "commit", !.desired = desired]
    PROVE  AfterCheck(old, x, desired)
<1>1. x \in Request
    BY DEF Request
<1>2. /\ x.op = old.op /\ x.pc = "commit" /\ x.org = old.org
      /\ x.store = old.store /\ x.method = old.method /\ x.target = old.target
      /\ x.code = old.code /\ x.key = old.key /\ x.counter = old.counter
      /\ x.desired = desired
    BY DEF Request
<1> QED
    BY <1>1, <1>2 DEF AfterCheck

LEMMA CheckedInv ==
    ASSUME Inv, NEW r \in Requests, req[r].op \in {"status", "method", "replace", "bind"},
           req[r].pc = "check", UNCHANGED tables, NEW desired, NEW x,
           AfterCheck(req[r], x, desired), req' = [req EXCEPT ![r] = x], Relies(r)'
    PROVE  Inv'
<1>1. req[r] \in Request /\ Fits(req[r])
    BY Holding
<1>2. /\ x \in Request /\ x.op = req[r].op /\ x.pc = "commit" /\ x.org = req[r].org
      /\ x.store = req[r].store /\ x.method = req[r].method /\ x.target = req[r].target
      /\ x.code = req[r].code /\ x.key = req[r].key /\ x.counter = req[r].counter
    BY DEF AfterCheck
<1>3. Fits(x) /\ ~x.counter /\ x.org = "X" /\ req[r].org = "X"
    BY <1>1, <1>2 DEF Fits, Stage, Holds
<1>4. x.op \notin {"create", "sale"}
    BY <1>2
<1> QED
    BY <1>2, <1>3, <1>4, MoveInv

LEMMA CheckStoreStatusInv ==
    ASSUME Inv, NEW r \in Requests, CheckStoreStatus(r)
    PROVE  Inv'
<1>1. req[r].op = "status" /\ req[r].pc = "check" /\ UNCHANGED tables
    BY DEF CheckStoreStatus, At
<1>2. req[r] \in Request /\ Fits(req[r]) /\ Relies(r)
    BY Holding
<1>3. CASE End(r)
    BY <1>1, <1>3, RejectInv
<1>4. CASE ~End(r)
    <2> PICK desired : desired = req[r].desired
        OBVIOUS
    <2>1. desired \in [Methods -> Flag]
        BY <1>2 DEF Request
    <2>2. /\ Goto(r, "commit")
          /\ store[req[r].store] = "ACTIVE" /\ req[r].target # "ACTIVE" => ~(CountActiveStores <= 1)
        BY <1>4 DEF CheckStoreStatus
    <2> PICK old : old = req[r]
        OBVIOUS
    <2> PICK x : x = [old EXCEPT !.pc = "commit", !.desired = desired]
        OBVIOUS
    <2>3. req' = [req EXCEPT ![r] = x] /\ req'[r] = x /\ AfterCheck(old, x, desired)
        <3>1. x = [old EXCEPT !.pc = "commit"]
            BY <1>2 DEF Request
        <3>2. req' = [req EXCEPT ![r] = x]
            BY <2>2, <3>1 DEF Goto
        <3>3. req'[r] = x
            BY <3>2 DEF Inv, TypeOK
        <3> QED
            BY <1>2, <2>1, <3>2, <3>3, Checked
    <2>4. /\ req'[r].op = "status" /\ req'[r].pc = "commit" /\ req'[r].store = req[r].store
          /\ req'[r].target = req[r].target /\ ~req'[r].counter
        BY <1>1, <1>2, <2>3 DEF Fits, AfterCheck
    <2>5. req[r].target # "ACTIVE" => \E t \in Stores \ {req[r].store} : store[t] = "ACTIVE"
        <3> SUFFICES ASSUME req[r].target # "ACTIVE"
                     PROVE  \E t \in Stores \ {req[r].store} : store[t] = "ACTIVE"
            OBVIOUS
        <3> PICK t \in Stores : store[t] = "ACTIVE"
            BY DEF Inv, OrganizationRetains
        <3>1. CASE t # req[r].store
            BY <3>1
        <3>2. CASE t = req[r].store
            <4> PICK S, a : S = {s \in Stores : store[s] = "ACTIVE"} /\ a = req[r].store
                OBVIOUS
            <4>1. ~(Cardinality(S) <= 1)
                BY <2>2, <3>2 DEF CountActiveStores
            <4>2. \E b \in S : b # a
                BY <4>1, AnotherOne
            <4> QED
                BY <4>2
        <3> QED
            BY <3>1, <3>2
    <2>6. Relies(r)'
        BY <1>1, <1>2, <2>4, <2>5 DEF Relies, tables
    <2> QED
        BY <1>1, <2>3, <2>6, CheckedInv
<1> QED
    BY <1>3, <1>4

LEMMA CheckMethodStatusInv ==
    ASSUME Inv, NEW r \in Requests, CheckMethodStatus(r)
    PROVE  Inv'
<1>1. req[r].op = "method" /\ req[r].pc = "check" /\ UNCHANGED tables
    BY DEF CheckMethodStatus, At
<1>2. req[r] \in Request /\ Fits(req[r]) /\ Relies(r)
    BY Holding
<1>3. CASE End(r)
    BY <1>1, <1>3, RejectInv
<1>4. CASE ~End(r)
    <2> PICK desired, m : desired = req[r].desired /\ m = req[r].method
        OBVIOUS
    <2>1. desired \in [Methods -> Flag] /\ m \in Methods
        BY <1>1, <1>2 DEF Request, Fits
    <2>2. /\ Goto(r, "commit")
          /\ req[r].target = "OFF" =>
                 ensurePaymentMethodCanBeDeactivated(m) /\ ~(CountActivePaymentMethods <= 1)
        BY <1>4 DEF CheckMethodStatus
    <2> PICK old : old = req[r]
        OBVIOUS
    <2> PICK x : x = [old EXCEPT !.pc = "commit", !.desired = desired]
        OBVIOUS
    <2>3. req' = [req EXCEPT ![r] = x] /\ req'[r] = x /\ AfterCheck(old, x, desired)
        <3>1. x = [old EXCEPT !.pc = "commit"]
            BY <1>2 DEF Request
        <3>2. req' = [req EXCEPT ![r] = x]
            BY <2>2, <3>1 DEF Goto
        <3>3. req'[r] = x
            BY <3>2 DEF Inv, TypeOK
        <3> QED
            BY <1>2, <2>1, <3>2, <3>3, Checked
    <2>4. /\ req'[r].op = "method" /\ req'[r].pc = "commit" /\ req'[r].method = m
          /\ req'[r].target = req[r].target /\ ~req'[r].counter
        BY <1>1, <1>2, <2>3 DEF Fits, AfterCheck
    <2>5. ASSUME req[r].target = "OFF"
          PROVE  /\ \E p \in Methods \ {m} : method[p] = "ON"
                 /\ \A s \in Stores : store[s] = "ACTIVE" /\ binding[s][m] = "ON" =>
                        \E p \in Methods \ {m} : p \in Operational(s)
        <3> PICK S : S = {p \in Methods : method[p] = "ON"}
            OBVIOUS
        <3>3. ~(Cardinality(S) <= 1)
            BY <2>2, <2>5 DEF CountActivePaymentMethods
        <3>1. \E p \in S : p # m
            BY <3>3, AnotherOne
        <3>2. ASSUME NEW s \in Stores, store[s] = "ACTIVE", binding[s][m] = "ON"
              PROVE  \E p \in Operational(s) : p # m
            <4>1. Cardinality(Operational(s)) > 1
                BY <2>2, <2>5, <3>2 DEF ensurePaymentMethodCanBeDeactivated, ListActiveStores,
                          GetStorePaymentMethod, CountOperationalPaymentMethodsForStore
            <4> QED
                BY <4>1, AnotherMethod
        <3> QED
            BY <3>1, <3>2 DEF Operational
    <2>6. Relies(r)'
        BY <1>1, <2>4, <2>5 DEF Relies, tables, Operational
    <2> QED
        BY <1>1, <2>3, <2>6, CheckedInv
<1> QED
    BY <1>3, <1>4

LEMMA CheckReplacementInv ==
    ASSUME Inv, NEW r \in Requests, CheckReplacement(r)
    PROVE  Inv'
<1>1. req[r].op = "replace" /\ req[r].pc = "check" /\ UNCHANGED tables
    BY DEF CheckReplacement, At
<1>2. req[r] \in Request /\ Fits(req[r]) /\ Relies(r)
    BY Holding
<1>3. CASE End(r)
    BY <1>1, <1>3, RejectInv
<1>4. CASE ~End(r)
    <2> PICK old, desired : old = req[r].desired /\ desired = Replaced(req[r].store, old)
        OBVIOUS
    <2>1. old \in [Methods -> Flag] /\ \E m \in Methods : old[m] = "ON"
        BY <1>1, <1>2 DEF Request, Relies
    <2> PICK now : now = req[r]
        OBVIOUS
    <2> PICK x : x = [now EXCEPT !.pc = "commit", !.desired = desired]
        OBVIOUS
    <2>2. /\ req' = [req EXCEPT ![r] = x]
          /\ \A m \in Methods : old[m] = "ON" => method[m] = "ON"
        BY <1>4 DEF CheckReplacement
    <2>3. /\ desired \in [Methods -> Flag]
          /\ \A m \in Methods : old[m] = "ON" => desired[m] = "ON"
        BY <2>1 DEF Replaced, Flag
    <2>9. AfterCheck(now, x, desired) /\ req'[r] = x
        <3>1. req'[r] = x
            BY <2>2 DEF Inv, TypeOK
        <3> QED
            BY <1>2, <2>3, <3>1, Checked
    <2>4. /\ req'[r].op = "replace" /\ req'[r].pc = "commit" /\ req'[r].desired = desired
          /\ ~req'[r].counter
        BY <1>1, <1>2, <2>9 DEF Fits, AfterCheck
    <2>5. \E m \in Methods : desired[m] = "ON" /\ method[m] = "ON"
        BY <2>1, <2>2, <2>3
    <2>6. Relies(r)'
        BY <1>1, <2>4, <2>5 DEF Relies, Payable, tables
    <2> QED
        BY <1>1, <2>2, <2>6, <2>9, CheckedInv
<1> QED
    BY <1>3, <1>4

LEMMA CheckStorePaymentMethodInv ==
    ASSUME Inv, NEW r \in Requests, CheckStorePaymentMethod(r)
    PROVE  Inv'
<1>1. req[r].op = "bind" /\ req[r].pc = "check" /\ UNCHANGED tables
    BY DEF CheckStorePaymentMethod, At
<1>2. req[r] \in Request /\ Fits(req[r]) /\ Relies(r)
    BY Holding
<1>3. CASE End(r)
    BY <1>1, <1>3, RejectInv
<1>4. CASE ~End(r)
    <2> PICK s, m, active : s = req[r].store /\ m = req[r].method /\ active = req[r].target
        OBVIOUS
    <2> PICK desired : desired = [binding[s] EXCEPT ![m] = active]
        OBVIOUS
    <2>1. s \in Stores /\ m \in Methods /\ active \in {"ON", "OFF"} /\ binding[s] \in [Methods -> Flag]
        BY <1>1, <1>2 DEF Fits, Inv, TypeOK
    <2> PICK now : now = req[r]
        OBVIOUS
    <2> PICK x : x = [now EXCEPT !.pc = "commit", !.desired = desired]
        OBVIOUS
    <2>2. /\ req' = [req EXCEPT ![r] = x]
          /\ active = "ON" => method[m] = "ON"
          /\ binding[s][m] = "ON" /\ active = "OFF" => ~(Cardinality(Operational(s)) <= 1)
        BY <1>4 DEF CheckStorePaymentMethod, GetStorePaymentMethod,
                    CountOperationalPaymentMethodsForStore
    <2>3. /\ desired \in [Methods -> Flag] /\ desired[m] = active
          /\ \A p \in Methods \ {m} : desired[p] = binding[s][p]
        BY <2>1 DEF Flag
    <2>9. AfterCheck(now, x, desired) /\ req'[r] = x
        <3>1. req'[r] = x
            BY <2>2 DEF Inv, TypeOK
        <3> QED
            BY <1>2, <2>3, <3>1, Checked
    <2>4. /\ req'[r].op = "bind" /\ req'[r].pc = "commit" /\ req'[r].desired = desired
          /\ req'[r].store = s /\ ~req'[r].counter
        BY <1>1, <1>2, <2>9 DEF Fits, AfterCheck
    <2>5. Operational(s) # {} => \E p \in Methods : desired[p] = "ON" /\ method[p] = "ON"
        <3>1. CASE active = "ON"
            BY <2>1, <2>2, <2>3, <3>1
        <3>2. CASE active = "OFF" /\ binding[s][m] = "ON"
            <4>1. \E p \in Operational(s) : p # m
                BY <2>2, <3>2, AnotherMethod
            <4> QED
                BY <2>3, <4>1 DEF Operational
        <3>3. CASE active = "OFF" /\ binding[s][m] # "ON"
            BY <2>3, <3>3 DEF Operational
        <3> QED
            BY <2>1, <3>1, <3>2, <3>3
    <2>6. Relies(r)'
        BY <1>1, <2>4, <2>5 DEF Relies, Payable, Operational, tables
    <2> QED
        BY <1>1, <2>2, <2>6, <2>9, CheckedInv
<1> QED
    BY <1>3, <1>4
-----------------------------------------------------------------------------
(* Commits. *)

LEMMA Exclusive ==
    ASSUME Inv, NEW r \in Requests, req[r].org = "X"
    PROVE  \A q \in Requests \ {r} : req[q].org = "-" /\ req[q].op # "create"
<1> SUFFICES ASSUME NEW q \in Requests \ {r}
             PROVE  req[q].org = "-" /\ req[q].op # "create"
    OBVIOUS
<1>1. req[q].org = "-"
    BY DEF Inv, OrganizationLocked
<1>2. Fits(req[q])
    BY Holding
<1> QED
    BY <1>1, <1>2 DEF Fits, Holds

(* A commit that writes no sale. *)
LEMMA QuietCommit ==
    ASSUME Inv, NEW r \in Requests, End(r), UNCHANGED <<sales, counter>>,
           store' \in [Stores -> StoreStatus \cup {"NONE"}],
           code' \in [Stores -> Codes \cup {None}],
           method' \in [Methods -> Flag],
           binding' \in [Stores -> [Methods -> Flag]],
           \A q \in Requests \ {r} : Undisturbed(q), OrganizationRetains'
    PROVE  Inv'
<1>1. req' \in [Requests -> Request] /\ \A s \in Stores : AtWork(s)' \subseteq AtWork(s)
    BY EndFits
<1>2. TypeOK'
    BY <1>1 DEF Inv, TypeOK
<1>3. SalesNumbered'
    BY DEF Inv, SalesNumbered
<1>4. NumbersLeft'
    BY <1>1, FewerAtWork
<1> QED
    BY <1>2, <1>3, <1>4, CommitInv

LEMMA UpdateStoreStatusInv ==
    ASSUME Inv, NEW r \in Requests, UpdateStoreStatus(r)
    PROVE  Inv'
<1> PICK s, target : s = req[r].store /\ target = req[r].target
    OBVIOUS
<1>1. /\ req[r].op = "status" /\ req[r].pc = "commit" /\ End(r)
      /\ store' = [store EXCEPT ![s] = target]
      /\ UNCHANGED <<code, method, binding, sales, counter>>
    BY DEF UpdateStoreStatus, At
<1>2. Fits(req[r]) /\ Relies(r)
    BY Holding
<1>3. s \in Stores /\ target \in StoreStatus /\ req[r].org = "X"
    BY <1>1, <1>2 DEF Fits, Holds
<1>4. target # "NONE"
    BY <1>3 DEF StoreStatus
<1>5. store \in [Stores -> StoreStatus \cup {"NONE"}]
    BY DEF Inv, TypeOK
<1>6. store' \in [Stores -> StoreStatus \cup {"NONE"}]
    BY <1>1, <1>3, <1>5
<1>7. \A q \in Requests \ {r} : Undisturbed(q)
    BY <1>1, <1>3, <1>4, <1>5, Exclusive DEF Undisturbed
<1>8. OrganizationRetains'
    <2>1. \E t \in Stores : store'[t] = "ACTIVE"
        <3>1. CASE target = "ACTIVE"
            BY <1>1, <1>3, <1>5, <3>1
        <3>2. CASE target # "ACTIVE"
            <4>1. \E t \in Stores \ {s} : store[t] = "ACTIVE"
                BY <1>1, <1>2, <3>2 DEF Relies
            <4> QED
                BY <1>1, <1>5, <4>1
        <3> QED
            BY <3>1, <3>2
    <2> QED
        BY <1>1, <2>1 DEF Inv, OrganizationRetains
<1> QED
    BY <1>1, <1>6, <1>7, <1>8, QuietCommit DEF Inv, TypeOK

LEMMA CommitStoreUpdateInv ==
    ASSUME Inv, NEW r \in Requests, CommitStoreUpdate(r)
    PROVE  Inv'
<1>1. req[r].op = "update"
    BY DEF CommitStoreUpdate, At
<1>2. CASE Reject(r)
    BY <1>2, RejectInv DEF Reject
<1>3. CASE ~Reject(r)
    <2> PICK s, c : s = req[r].store /\ c = req[r].code
        OBVIOUS
    <2>1. /\ End(r) /\ code' = [code EXCEPT ![s] = c]
          /\ UNCHANGED <<store, method, binding, sales, counter>>
        BY <1>3 DEF CommitStoreUpdate
    <2>2. s \in Stores /\ c \in Codes
        BY <1>1, Holding DEF Fits
    <2>3. code' \in [Stores -> Codes \cup {None}]
        BY <2>1, <2>2 DEF Inv, TypeOK
    <2>4. \A q \in Requests \ {r} : Undisturbed(q)
        BY <2>1 DEF Undisturbed
    <2>5. OrganizationRetains'
        BY <2>1 DEF Inv, OrganizationRetains
    <2> QED
        BY <2>1, <2>3, <2>4, <2>5, QuietCommit DEF Inv, TypeOK
<1> QED
    BY <1>2, <1>3

LEMMA CommitStoreInv ==
    ASSUME Inv, NEW r \in Requests, CommitStore(r)
    PROVE  Inv'
<1> PICK s, c, desired : s = req[r].store /\ c = req[r].code /\ desired = req[r].desired
    OBVIOUS
<1>1. /\ req[r].op = "create" /\ End(r)
      /\ store' = [store EXCEPT ![s] = "ACTIVE"]
      /\ code' = [code EXCEPT ![s] = c]
      /\ binding' = [binding EXCEPT ![s] = desired]
      /\ UNCHANGED <<method, sales, counter>>
    BY DEF CommitStore, At, UpsertStorePaymentMethod
<1>2. req[r] \in Request /\ Fits(req[r])
    BY Holding
<1>3. s \in Stores /\ c \in Codes /\ req[r].org = "S"
    BY <1>1, <1>2 DEF Fits, Holds
<1>4. desired \in [Methods -> Flag]
    BY <1>2 DEF Request
<1>5. /\ store \in [Stores -> StoreStatus \cup {"NONE"}]
      /\ code \in [Stores -> Codes \cup {None}]
      /\ binding \in [Stores -> [Methods -> Flag]]
    BY DEF Inv, TypeOK
<1>6. /\ store' \in [Stores -> StoreStatus \cup {"NONE"}]
      /\ code' \in [Stores -> Codes \cup {None}]
      /\ binding' \in [Stores -> [Methods -> Flag]]
    BY <1>1, <1>3, <1>4, <1>5 DEF StoreStatus
<1>7. ASSUME NEW q \in Requests \ {r}
      PROVE  Undisturbed(q)
    <2>1. req[q].org # "X"
        BY <1>3 DEF Inv, OrganizationLocked
    <2>2. req[q].op = "create" => req[q].store # s
        BY <1>1 DEF Inv, StoresCreatedOnce
    <2> QED
        BY <1>1, <1>3, <1>5, <2>1, <2>2 DEF Undisturbed
<1>8. OrganizationRetains'
    BY <1>1, <1>3, <1>5 DEF Inv, OrganizationRetains
<1> QED
    BY <1>1, <1>6, <1>7, <1>8, QuietCommit DEF Inv, TypeOK

LEMMA CommitMethodStatusInv ==
    ASSUME Inv, NEW r \in Requests, CommitMethodStatus(r)
    PROVE  Inv'
<1> PICK m, target : m = req[r].method /\ target = req[r].target
    OBVIOUS
<1>1. /\ req[r].op = "method" /\ req[r].pc = "commit" /\ End(r)
      /\ method' = [method EXCEPT ![m] = target] /\ target \in {"ON", "OFF"}
      /\ UNCHANGED <<store, code, binding, sales, counter>>
    BY DEF CommitMethodStatus, At, ActivatePaymentMethodForOrganization,
           DeactivatePaymentMethodForOrganization
<1>2. Fits(req[r]) /\ Relies(r)
    BY Holding
<1>3. m \in Methods /\ req[r].org = "X"
    BY <1>1, <1>2 DEF Fits, Holds
<1>4. method \in [Methods -> Flag]
    BY DEF Inv, TypeOK
<1>5. method' \in [Methods -> Flag]
    BY <1>1, <1>3, <1>4 DEF Flag
<1>6. \A q \in Requests \ {r} : Undisturbed(q)
    BY <1>1, <1>3, Exclusive DEF Undisturbed
<1>7. OrganizationRetains'
    <2>1. \E p \in Methods : method'[p] = "ON"
        <3>1. CASE target = "ON"
            BY <1>1, <1>3, <1>4, <3>1
        <3>2. CASE target = "OFF"
            <4>1. \E p \in Methods \ {m} : method[p] = "ON"
                BY <1>1, <1>2, <3>2 DEF Relies
            <4> QED
                BY <1>1, <1>4, <4>1
        <3> QED
            BY <1>1, <3>1, <3>2
    <2> QED
        BY <1>1, <2>1 DEF Inv, OrganizationRetains
<1> QED
    BY <1>1, <1>5, <1>6, <1>7, QuietCommit DEF Inv, TypeOK

LEMMA CommitStorePaymentMethodsInv ==
    ASSUME Inv, NEW r \in Requests, CommitStorePaymentMethods(r)
    PROVE  Inv'
<1> PICK s, desired : s = req[r].store /\ desired = req[r].desired
    OBVIOUS
<1>1. /\ req[r].op \in {"replace", "bind"} /\ req[r].pc = "commit" /\ End(r)
      /\ binding' = [binding EXCEPT ![s] = desired]
      /\ UNCHANGED <<store, code, method, sales, counter>>
    BY DEF CommitStorePaymentMethods, UpsertStorePaymentMethod
<1>2. req[r] \in Request /\ Fits(req[r])
    BY Holding
<1>3. s \in Stores /\ req[r].org = "X"
    BY <1>1, <1>2 DEF Fits, Holds
<1>4. desired \in [Methods -> Flag]
    BY <1>2 DEF Request
<1>5. binding' \in [Stores -> [Methods -> Flag]]
    BY <1>1, <1>3, <1>4 DEF Inv, TypeOK
<1>6. \A q \in Requests \ {r} : Undisturbed(q)
    BY <1>1, <1>3, Exclusive DEF Undisturbed
<1>7. OrganizationRetains'
    BY <1>1 DEF Inv, OrganizationRetains
<1> QED
    BY <1>1, <1>5, <1>6, <1>7, QuietCommit DEF Inv, TypeOK

(* A step of no request. *)
LEMMA StillInv ==
    ASSUME Inv, TypeOK', UNCHANGED <<req, counter>>, \A q \in Requests : Undisturbed(q),
           SalesNumbered', OrganizationRetains'
    PROVE  Inv'
<1>1. RequestsRely'
    BY Frame DEF RequestsRely
<1>2. \A s \in Stores : AtWork(s)' = AtWork(s)
    BY DEF AtWork
<1>3. NumbersLeft'
    BY <1>2, FewerAtWork
<1> QED
    BY <1>1, <1>3 DEF Inv, RequestsFit, OrganizationLocked, StoresCreatedOnce, CountersLocked

LEMMA CreateMethodInv ==
    ASSUME Inv, NEW r \in Requests, NEW m \in Methods, NEW active \in {"ON", "OFF"},
           CreateOrganizationPaymentMethod(r, m, active)
    PROVE  Inv'
<1>1. /\ req[r] = Idle /\ method[m] = "NONE" /\ method' = [method EXCEPT ![m] = active]
      /\ UNCHANGED <<store, code, binding, sales, counter, req>>
      /\ OrganizationBlockers(r, "S") = {}
    BY DEF CreateOrganizationPaymentMethod
<1>2. method \in [Methods -> Flag]
    BY DEF Inv, TypeOK
<1>3. method' \in [Methods -> Flag]
    BY <1>1, <1>2 DEF Flag
<1>4. TypeOK'
    BY <1>1, <1>3 DEF Inv, TypeOK
<1>5. \A q \in Requests : req[q].org # "X"
    BY <1>1, IdleType DEF OrganizationBlockers, Conflict
<1>6. \A p \in Methods : method[p] = "ON" => method'[p] = "ON"
    BY <1>1, <1>2
<1>7. \A q \in Requests : Undisturbed(q)
    BY <1>1, <1>5, <1>6 DEF Undisturbed
<1>8. SalesNumbered' /\ OrganizationRetains'
    BY <1>1, <1>6 DEF Inv, SalesNumbered, OrganizationRetains
<1> QED
    BY <1>1, <1>4, <1>7, <1>8, StillInv

LEMMA CloseSaleInv ==
    ASSUME Inv, NEW sale \in sales, CloseSale(sale)
    PROVE  Inv'
<1> PICK closed : closed = [sale EXCEPT !.open = FALSE]
    OBVIOUS
<1>1. /\ sales' = (sales \ {sale}) \cup {closed}
      /\ UNCHANGED <<store, code, method, binding, counter, req>>
    BY DEF CloseSale
<1>2. sale \in Sale
    BY DEF Inv, TypeOK
<1>3. closed \in Sale /\ closed.store = sale.store /\ closed.number = sale.number
    BY <1>2 DEF Sale
<1>4. TypeOK'
    BY <1>1, <1>3 DEF Inv, TypeOK
<1>5. \A q \in Requests : Undisturbed(q)
    BY <1>1 DEF Undisturbed
<1>6. SalesNumbered'
    BY <1>1, <1>3 DEF Inv, SalesNumbered
<1>7. OrganizationRetains'
    BY <1>1 DEF Inv, OrganizationRetains
<1> QED
    BY <1>1, <1>4, <1>5, <1>6, <1>7, StillInv
LEMMA CopyInv ==
    ASSUME Inv, NEW r \in Requests, CopyActivePaymentMethodsToStore(r)
    PROVE  Inv'
<1> PICK old : old = req[r]
    OBVIOUS
<1> PICK desired : desired = [m \in Methods |->
                       IF old.target = "ON" /\ method[m] = "ON" THEN "ON" ELSE "NONE"]
    OBVIOUS
<1> PICK x : x = [old EXCEPT !.pc = "commit", !.desired = desired]
    OBVIOUS
<1>1. old.op = "create" /\ old.pc = "copy" /\ req' = [req EXCEPT ![r] = x] /\ UNCHANGED tables
    BY DEF CopyActivePaymentMethodsToStore, At
<1>2. old \in Request /\ Fits(old) /\ Relies(r)
    BY Holding
<1>3. desired \in [Methods -> Flag]
    BY DEF Flag
<1>4. AfterCheck(old, x, desired)
    BY <1>2, <1>3, Checked
<1>5. /\ x \in Request /\ x.op = "create" /\ x.pc = "commit" /\ x.org = old.org
      /\ x.store = old.store /\ x.code = old.code /\ x.target = old.target
      /\ x.counter = old.counter /\ x.desired = desired
    BY <1>1, <1>4 DEF AfterCheck
<1>6. Fits(x) /\ ~x.counter /\ x.org = "S" /\ req[r].org = "S"
    BY <1>1, <1>2, <1>5 DEF Fits, Stage, Holds
<1>7. req'[r] = x
    BY <1>1 DEF Inv, TypeOK
<1>8. store[x.store] = "NONE"
    BY <1>1, <1>2, <1>5 DEF Relies
<1>9. x.target = "ON" => \E m \in Methods : desired[m] = "ON" /\ method[m] = "ON"
    BY <1>5 DEF Inv, OrganizationRetains
<1>10. Relies(r)'
    BY <1>1, <1>5, <1>6, <1>7, <1>8, <1>9 DEF Relies, Payable, tables
<1>11. \A q \in Requests \ {r} : ~(req[q].op = "create" /\ req[q].store = x.store)
    BY <1>1, <1>5 DEF Inv, StoresCreatedOnce
<1> QED
    BY <1>1, <1>5, <1>6, <1>10, <1>11, MoveInv

-----------------------------------------------------------------------------
(* Sales. *)

LEMMA FindExistingSaleInv ==
    ASSUME Inv, NEW r \in Requests, FindExistingSale(r)
    PROVE  Inv'
<1> PICK old : old = req[r]
    OBVIOUS
<1>1. /\ old.op = "sale" /\ old.pc = "check" /\ UNCHANGED <<store, code, method, binding, sales, counter>>
      /\ End(r) \/ (Goto(r, "number") /\ UNCHANGED answers)
    BY DEF FindExistingSale, At
<1>2. old \in Request /\ Fits(old) /\ Relies(r)
    BY Holding
<1>3. CASE End(r)
    <2>1. \A q \in Requests \ {r} : Undisturbed(q)
        BY <1>1 DEF Undisturbed
    <2>2. OrganizationRetains'
        BY <1>1 DEF Inv, OrganizationRetains
    <2> QED
        BY <1>1, <1>3, <2>1, <2>2, QuietCommit DEF Inv, TypeOK
<1>4. CASE Goto(r, "number") /\ UNCHANGED answers
    <2> PICK x : x = [old EXCEPT !.pc = "number"]
        OBVIOUS
    <2>1. req' = [req EXCEPT ![r] = x] /\ UNCHANGED tables
        BY <1>1, <1>4 DEF Goto, tables
    <2>2. /\ x \in Request /\ x.op = old.op /\ x.pc = "number" /\ x.org = old.org
          /\ x.store = old.store /\ x.key = old.key /\ x.counter = old.counter
        BY <1>2 DEF Request
    <2>3. Fits(x) /\ ~x.counter /\ x.org = "-" /\ x.op = "sale"
        BY <1>1, <1>2, <2>2 DEF Fits, Stage, Holds
    <2>4. req'[r] = x
        BY <2>1 DEF Inv, TypeOK
    <2>5. Relies(r)'
        BY <2>3, <2>4 DEF Relies
    <2> QED
        BY <1>1, <2>1, <2>2, <2>3, <2>5, MoveInv
<1> QED
    BY <1>1, <1>3, <1>4

LEMMA AllocateNumberInv ==
    ASSUME Inv, NEW r \in Requests, AllocateNumber(r)
    PROVE  Inv'
<1> PICK old : old = req[r]
    OBVIOUS
<1> PICK n : n = counter[old.store]
    OBVIOUS
<1> PICK x : x = [old EXCEPT !.pc = "insert", !.counter = TRUE, !.number = n]
    OBVIOUS
<1>1. /\ old.op = "sale" /\ old.pc = "number" /\ req' = [req EXCEPT ![r] = x] /\ UNCHANGED tables
      /\ CounterBlockers(r) = {}
    BY DEF AllocateNumber, At
<1>2. old \in Request /\ Fits(old)
    BY Holding
<1>3. old.store \in Stores /\ n \in Nat
    BY <1>1, <1>2 DEF Fits, Inv, TypeOK
<1>4. x \in Request
    BY <1>2, <1>3 DEF Request
<1>5. /\ x.op = old.op /\ x.pc = "insert" /\ x.org = old.org
      /\ x.store = old.store /\ x.key = old.key /\ x.counter = TRUE /\ x.number = n
    BY <1>2 DEF Request
<1>6. Fits(x) /\ x.org = "-" /\ x.op = "sale"
    BY <1>1, <1>2, <1>5 DEF Fits, Stage, Holds
<1>7. req'[r] = x
    BY <1>1 DEF Inv, TypeOK
<1>8. Relies(r)'
    <2>2. counter' = counter
        BY <1>1 DEF tables
    <2>3. x.number = counter[x.store]
        BY <1>5
    <2>1. req'[r].op = "sale" /\ req'[r].number = counter'[req'[r].store]
        BY <1>6, <1>7, <2>2, <2>3
    <2> QED
        BY <2>1 DEF Relies
<1>9. \A q \in Requests \ {r} : ~(req[q].counter /\ req[q].store = x.store)
    BY <1>1, <1>5 DEF CounterBlockers
<1> QED
    BY <1>1, <1>4, <1>5, <1>6, <1>8, <1>9, MoveInv

LEMMA Sharing ==
    ASSUME NEW old \in Request
    PROVE  [old EXCEPT !.pc = "commit", !.row = "S"] \in Request
<1>1. "S" \in Modes
    BY DEF Modes
<1> QED
    BY <1>1 DEF Request

LEMMA InsertSaleInv ==
    ASSUME Inv, NEW r \in Requests, InsertSale(r)
    PROVE  Inv'
<1> PICK old : old = req[r]
    OBVIOUS
<1> PICK x : x = [old EXCEPT !.pc = "commit", !.row = "S"]
    OBVIOUS
<1>1. /\ old.op = "sale" /\ old.pc = "insert" /\ req' = [req EXCEPT ![r] = x] /\ UNCHANGED tables
    BY DEF InsertSale, At
<1>2. old \in Request /\ Fits(old) /\ Relies(r)
    BY Holding
<1>3. x \in Request
    BY <1>2, Sharing
<1>4. /\ x.op = old.op /\ x.pc = "commit" /\ x.org = old.org
      /\ x.store = old.store /\ x.key = old.key /\ x.counter = old.counter /\ x.number = old.number
    BY <1>2 DEF Request
<1>5. Fits(x) /\ x.org = "-" /\ x.op = "sale" /\ old.counter
    BY <1>1, <1>2, <1>4 DEF Fits, Stage, Holds
<1>6. req'[r] = x
    BY <1>1 DEF Inv, TypeOK
<1>7. Relies(r)'
    BY <1>1, <1>2, <1>4, <1>5, <1>6 DEF Relies, tables
<1>8. \A q \in Requests \ {r} : ~(req[q].counter /\ req[q].store = x.store)
    BY <1>4, <1>5 DEF Inv, CountersLocked
<1> QED
    BY <1>1, <1>3, <1>4, <1>5, <1>7, <1>8, MoveInv

(* The number that a sale is committed with. *)
LEMMA NumberOfSale ==
    ASSUME Inv, NEW r \in Requests, At(r, "sale", "commit"), NEW s, s = req[r].store
    PROVE  /\ s \in Stores /\ req[r].key \in Keys /\ r \in AtWork(s) /\ req[r].counter
           /\ req[r].number = counter[s] /\ counter[s] \in Nat \ {0} /\ counter[s] <= MaxNumber
           /\ IsFiniteSet(AtWork(s)) /\ Cardinality(AtWork(s)) \in Nat
           /\ counter[s] + Cardinality(AtWork(s)) <= MaxNumber + 1
<1>1. req[r].op = "sale" /\ req[r].pc = "commit" /\ Fits(req[r]) /\ Relies(r)
    BY Holding DEF At
<1>2. s \in Stores /\ req[r].key \in Keys /\ r \in AtWork(s) /\ req[r].counter
    BY <1>1 DEF Fits, AtWork
<1>3. req[r].number = counter[s] /\ counter[s] \in Nat \ {0}
    BY <1>1, <1>2 DEF Relies, Inv, TypeOK
<1>4. IsFiniteSet(AtWork(s)) /\ Cardinality(AtWork(s)) \in Nat
    BY RequestsFinite, FS_Subset, FS_CardinalityType DEF AtWork
<1>5. Cardinality(AtWork(s)) # 0
    BY <1>2, <1>4, FS_EmptySet
<1>6. counter[s] + Cardinality(AtWork(s)) <= MaxNumber + 1
    BY <1>2 DEF Inv, NumbersLeft
<1>7. counter[s] <= MaxNumber
    BY <1>3, <1>4, <1>5, <1>6, NumbersBounded
<1> QED
    BY <1>2, <1>3, <1>4, <1>6, <1>7

LEMMA CommitSaleInv ==
    ASSUME Inv, NEW r \in Requests, CommitSale(r)
    PROVE  Inv'
<1> PICK s, k, n : s = req[r].store /\ k = req[r].key /\ n = req[r].number
    OBVIOUS
<1> PICK new : new = [store |-> s, key |-> k, number |-> n, open |-> TRUE]
    OBVIOUS
<1>1. /\ At(r, "sale", "commit") /\ End(r)
      /\ counter' = [counter EXCEPT ![s] = n + 1]
      /\ sales' \subseteq sales \cup {new}
      /\ UNCHANGED <<store, code, method, binding>>
    BY DEF CommitSale
<1>2. /\ s \in Stores /\ k \in Keys /\ r \in AtWork(s) /\ req[r].counter
      /\ n = counter[s] /\ counter[s] \in Nat \ {0} /\ counter[s] <= MaxNumber
      /\ IsFiniteSet(AtWork(s)) /\ Cardinality(AtWork(s)) \in Nat
      /\ counter[s] + Cardinality(AtWork(s)) <= MaxNumber + 1
    BY <1>1, NumberOfSale
<1>3. counter \in [Stores -> Nat \ {0}] /\ sales \subseteq Sale
    BY DEF Inv, TypeOK
<1>4. counter' \in [Stores -> Nat \ {0}] /\ counter'[s] = n + 1
      /\ \A z \in Stores \ {s} : counter'[z] = counter[z]
    BY <1>1, <1>2, <1>3
<1>5. new \in Sale /\ new.store = s /\ new.number = n
    BY <1>2 DEF Sale
<1>6. TypeOK'
    <2>1. sales' \subseteq Sale /\ req' \in [Requests -> Request]
        BY <1>1, <1>3, <1>5, EndFits
    <2> QED
        BY <1>1, <1>4, <2>1 DEF Inv, TypeOK
<1>7. ASSUME NEW q \in Requests \ {r}
      PROVE  Undisturbed(q)
    <2>1. req[q].counter => req[q].store \in Stores \ {s}
        <3>1. Fits(req[q])
            BY Holding
        <3>2. req[q].counter => req[q].store \in Stores
            BY <3>1 DEF Fits
        <3>3. req[q].counter => req[q].store # s
            BY <1>2 DEF Inv, CountersLocked
        <3> QED
            BY <3>2, <3>3
    <2> QED
        BY <1>1, <1>4, <2>1 DEF Undisturbed
<1>8. SalesNumbered'
    <2> SUFFICES ASSUME NEW sale \in sales'
                 PROVE  sale.number < counter'[sale.store] /\ sale.number <= MaxNumber
        BY DEF SalesNumbered
    <2>1. CASE sale = new
        <3>1. sale.store = s /\ sale.number = n
            BY <1>5, <2>1
        <3>2. n < counter'[s] /\ n <= MaxNumber
            BY <1>2, <1>4
        <3> QED
            BY <3>1, <3>2
    <2>2. CASE sale \in sales
        <3>1. /\ sale.number < counter[sale.store] /\ sale.number <= MaxNumber
              /\ sale.store \in Stores /\ sale.number \in Nat
            BY <2>2, <1>3 DEF Inv, SalesNumbered, Sale
        <3> QED
            BY <1>2, <1>4, <3>1
    <2> QED
        BY <1>1, <2>1, <2>2
<1>9. NumbersLeft'
    <2> SUFFICES ASSUME NEW z \in Stores, AtWork(z)' # {}
                 PROVE  counter'[z] + Cardinality(AtWork(z)') <= MaxNumber + 1
        BY DEF NumbersLeft
    <2>1. AtWork(z)' = AtWork(z) \ {r}
        BY <1>1, EndFits
    <2>2. CASE z = s
        <3>1. Cardinality(AtWork(z)') = Cardinality(AtWork(s)) - 1
            BY <1>2, <2>1, <2>2, FS_RemoveElement
        <3> QED
            BY <1>2, <1>4, <2>2, <3>1, NumbersBounded
    <2>3. CASE z # s
        <3>1. AtWork(z)' = AtWork(z)
            BY <1>2, <2>1, <2>3 DEF AtWork
        <3> QED
            BY <1>4, <2>3, <3>1 DEF Inv, NumbersLeft
    <2> QED
        BY <2>2, <2>3
<1>10. OrganizationRetains'
    BY <1>1 DEF Inv, OrganizationRetains
<1> QED
    BY <1>1, <1>6, <1>7, <1>8, <1>9, <1>10, CommitInv
-----------------------------------------------------------------------------
(* The invariant. *)

LEMMA InitInv == Init => Inv
<1> SUFFICES ASSUME Init
             PROVE  Inv
    OBVIOUS
<1>1. \A r \in Requests : req[r] = Idle
    BY DEF Init
<1>2. TypeOK
    <2>1. store \in [Stores -> StoreStatus \cup {"NONE"}]
        BY DEF Init, StoreStatus
    <2>2. method \in [Methods -> Flag] /\ binding \in [Stores -> [Methods -> Flag]]
        BY DEF Init, Flag
    <2>3. req \in [Requests -> Request]
        BY IdleType DEF Init
    <2> QED
        BY <2>1, <2>2, <2>3 DEF Init, TypeOK
<1>3. RequestsFit /\ OrganizationLocked /\ StoresCreatedOnce /\ CountersLocked
    BY <1>1, IdleType DEF RequestsFit, OrganizationLocked, StoresCreatedOnce, CountersLocked
<1>4. RequestsRely
    BY <1>1, IdleType DEF RequestsRely, Relies
<1>5. SalesNumbered
    BY DEF SalesNumbered, Init
<1>6. \A s \in Stores : AtWork(s) = {}
    BY <1>1, IdleType DEF AtWork
<1>7. NumbersLeft
    BY <1>6 DEF NumbersLeft
<1>8. OrganizationRetains
    BY FoundedStores, StartedMethods DEF Init, OrganizationRetains
<1> QED
    BY <1>2, <1>3, <1>4, <1>5, <1>7, <1>8 DEF Inv

LEMMA CallInv ==
    ASSUME Inv, NEW r \in Requests, Call(r)
    PROVE  Inv'
<1>1. CASE \E s \in Stores, target \in StoreStatus : SetStoreStatus(r, s, target)
    BY <1>1, SetStoreStatusInv
<1>2. CASE \E s \in Stores, c \in Codes : UpdateStore(r, s, c)
    BY <1>2, UpdateStoreInv
<1>3. CASE \E s \in Stores, c \in Codes, copy \in BOOLEAN : CreateStore(r, s, c, copy)
    BY <1>3, CreateStoreInv
<1>4. CASE \E m \in Methods, active \in {"ON", "OFF"} : CreateOrganizationPaymentMethod(r, m, active)
    BY <1>4, CreateMethodInv
<1>5. CASE \E m \in Methods, active \in {"ON", "OFF"} : SetOrganizationPaymentMethodStatus(r, m, active)
    BY <1>5, SetOrganizationPaymentMethodStatusInv
<1>6. CASE \E m \in Methods, active \in {"ON", "OFF"}, s \in Stores :
              UpdateStorePaymentMethod(r, s, m, active)
    BY <1>6, UpdateStorePaymentMethodInv
<1>7. CASE \E s \in Stores, desired \in [Methods -> Flag] : ReplaceStorePaymentMethods(r, s, desired)
    BY <1>7, ReplaceStorePaymentMethodsInv
<1>8. CASE \E s \in Stores, k \in Keys : CreateSale(r, s, k)
    BY <1>8, CreateSaleInv
<1> QED
    BY <1>1, <1>2, <1>3, <1>4, <1>5, <1>6, <1>7, <1>8 DEF Call

LEMMA ProgressInv ==
    ASSUME Inv, NEW r \in Requests, Progress(r)
    PROVE  Inv'
BY LockOrganizationInv, LockStoreInv, CheckStoreStatusInv, UpdateStoreStatusInv,
   CommitStoreUpdateInv, CopyInv, CommitStoreInv, CheckMethodStatusInv, CommitMethodStatusInv,
   CheckReplacementInv, CheckStorePaymentMethodInv, CommitStorePaymentMethodsInv,
   FindExistingSaleInv, AllocateNumberInv, InsertSaleInv, CommitSaleInv DEF Progress

LEMMA UnchangedInv ==
    ASSUME Inv, UNCHANGED vars
    PROVE  Inv'
<1>1. UNCHANGED tables /\ UNCHANGED req
    BY DEF vars, tables
<1>2. TypeOK' /\ counter' = counter /\ \A q \in Requests : Undisturbed(q)
    BY <1>1, TablesFrame DEF Inv, TypeOK
<1> QED
    BY <1>1, <1>2, TablesFrame, StillInv

LEMMA NextInv ==
    ASSUME Inv, [Next]_vars
    PROVE  Inv'
<1>1. CASE \E r \in Requests : Call(r)
    BY <1>1, CallInv
<1>2. CASE \E r \in Requests : Progress(r)
    BY <1>2, ProgressInv
<1>3. CASE \E r \in Requests : Abort(r)
    BY <1>3, RejectInv DEF Abort, Reject
<1>4. CASE \E sale \in sales : CloseSale(sale)
    BY <1>4, CloseSaleInv
<1>5. CASE UNCHANGED vars
    BY <1>5, UnchangedInv
<1> QED
    BY <1>1, <1>2, <1>3, <1>4, <1>5 DEF Next

(* Locks, numbers and everything a handler has checked before it commits   *)
(* stay as they must be, whatever other handlers do meanwhile.             *)
THEOREM StoreDeskInvariance == Spec => []Inv
<1>1. Init => Inv
    BY InitInv
<1>2. Inv /\ [Next]_vars => Inv'
    BY NextInv
<1> QED
    BY <1>1, <1>2, PTL DEF Spec

(* An organization keeps an active store and an active payment method:     *)
(* SetStoreStatus, SetOrganizationPaymentMethodStatus and the rest hold    *)
(* the lock of the organization from their counts to their commits.        *)
THEOREM OrganizationKeepsItsLast == Spec => []OrganizationRetains
<1>1. Inv => OrganizationRetains
    BY DEF Inv
<1> QED
    BY <1>1, StoreDeskInvariance, PTL

-----------------------------------------------------------------------------
(* A store that can be paid at. *)

Kept(s) ==
    /\ store[s] = "ACTIVE" /\ store'[s] = "ACTIVE" /\ Operational(s) # {} => Operational(s)' # {}
    /\ store[s] = "NONE" /\ store'[s] = "ACTIVE"
       /\ (\E r \in Requests : req[r].op = "create" /\ req[r].store = s /\ req[r].target = "ON")
          => Operational(s)' # {}

LEMMA UntouchedKept ==
    ASSUME NEW s \in Stores, UNCHANGED <<store, method, binding>>
    PROVE  Kept(s)
BY DEF Kept, Operational

LEMMA StatusKept ==
    ASSUME Inv, NEW s \in Stores, NEW r \in Requests, UpdateStoreStatus(r)
    PROVE  Kept(s)
<1> PICK z, target : z = req[r].store /\ target = req[r].target
    OBVIOUS
<1>1. /\ req[r].op = "status" /\ req[r].pc = "commit"
      /\ store' = [store EXCEPT ![z] = target] /\ UNCHANGED <<method, binding>>
    BY DEF UpdateStoreStatus, At
<1>2. store[z] # "NONE"
    BY <1>1, Holding DEF Relies
<1>3. store[s] = "NONE" => store'[s] = "NONE"
    BY <1>1, <1>2 DEF Inv, TypeOK
<1>4. Operational(s)' = Operational(s)
    BY <1>1 DEF Operational
<1> QED
    BY <1>3, <1>4 DEF Kept

LEMMA CreationKept ==
    ASSUME Inv, NEW s \in Stores, NEW r \in Requests, CommitStore(r)
    PROVE  Kept(s)
<1> PICK z, desired : z = req[r].store /\ desired = req[r].desired
    OBVIOUS
<1>1. /\ req[r].op = "create" /\ req[r].pc = "commit"
      /\ store' = [store EXCEPT ![z] = "ACTIVE"]
      /\ binding' = [binding EXCEPT ![z] = desired] /\ UNCHANGED method
    BY DEF CommitStore, At, UpsertStorePaymentMethod
<1>2. Fits(req[r]) /\ Relies(r)
    BY Holding
<1>3. z \in Stores /\ store[z] = "NONE"
    BY <1>1, <1>2 DEF Fits, Relies
<1>4. store \in [Stores -> StoreStatus \cup {"NONE"}] /\ binding \in [Stores -> [Methods -> Flag]]
    BY DEF Inv, TypeOK
<1>5. CASE s # z
    <2>1. store'[s] = store[s] /\ binding'[s] = binding[s]
        BY <1>1, <1>4, <1>5
    <2>2. Operational(s)' = Operational(s)
        BY <1>1, <2>1 DEF Operational
    <2> QED
        BY <2>1, <2>2 DEF Kept
<1>6. CASE s = z
    <2>1. binding'[s] = desired
        BY <1>1, <1>3, <1>4, <1>6
    <2>2. ASSUME NEW q \in Requests, req[q].op = "create", req[q].store = s, req[q].target = "ON"
          PROVE  Operational(s)' # {}
        <3>1. q = r
            BY <1>1, <1>6, <2>2 DEF Inv, StoresCreatedOnce
        <3>2. Payable(desired)
            BY <1>1, <1>2, <2>2, <3>1 DEF Relies
        <3> QED
            BY <1>1, <2>1, <3>2 DEF Payable, Operational
    <2> QED
        BY <1>3, <1>6, <2>2 DEF Kept
<1> QED
    BY <1>5, <1>6

LEMMA NewMethodKept ==
    ASSUME Inv, NEW s \in Stores, NEW r \in Requests, NEW m \in Methods, NEW active \in {"ON", "OFF"},
           CreateOrganizationPaymentMethod(r, m, active)
    PROVE  Kept(s)
<1>1. /\ method[m] = "NONE" /\ method' = [method EXCEPT ![m] = active]
      /\ UNCHANGED <<store, binding>>
    BY DEF CreateOrganizationPaymentMethod
<1>2. \A p \in Methods : method[p] = "ON" => method'[p] = "ON"
    BY <1>1 DEF Inv, TypeOK
<1> QED
    BY <1>1, <1>2 DEF Kept, Operational

LEMMA MethodKept ==
    ASSUME Inv, NEW s \in Stores, NEW r \in Requests, CommitMethodStatus(r)
    PROVE  Kept(s)
<1> PICK m, target : m = req[r].method /\ target = req[r].target
    OBVIOUS
<1>1. /\ req[r].op = "method" /\ req[r].pc = "commit"
      /\ method' = [method EXCEPT ![m] = target] /\ target \in {"ON", "OFF"}
      /\ UNCHANGED <<store, binding>>
    BY DEF CommitMethodStatus, At, ActivatePaymentMethodForOrganization,
           DeactivatePaymentMethodForOrganization
<1>2. Fits(req[r]) /\ Relies(r)
    BY Holding
<1>3. m \in Methods /\ method \in [Methods -> Flag]
    BY <1>1, <1>2 DEF Fits, Inv, TypeOK
<1>4. \A p \in Methods \ {m} : method'[p] = method[p]
    BY <1>1, <1>3
<1>5. SUFFICES ASSUME store[s] = "ACTIVE", Operational(s) # {}
               PROVE  \E p \in Methods : binding[s][p] = "ON" /\ method'[p] = "ON"
    BY <1>1 DEF Kept, Operational
<1>6. CASE target = "ON"
    BY <1>1, <1>3, <1>4, <1>5, <1>6 DEF Operational
<1>7. CASE target = "OFF" /\ binding[s][m] = "ON"
    <2>1. \E p \in Methods \ {m} : p \in Operational(s)
        BY <1>1, <1>2, <1>5, <1>7 DEF Relies
    <2> QED
        BY <1>4, <2>1 DEF Operational
<1>8. CASE target = "OFF" /\ binding[s][m] # "ON"
    BY <1>4, <1>5, <1>8 DEF Operational
<1> QED
    BY <1>1, <1>6, <1>7, <1>8

LEMMA BindingKept ==
    ASSUME Inv, NEW s \in Stores, NEW r \in Requests, CommitStorePaymentMethods(r)
    PROVE  Kept(s)
<1> PICK z, desired : z = req[r].store /\ desired = req[r].desired
    OBVIOUS
<1>1. /\ req[r].op \in {"replace", "bind"} /\ req[r].pc = "commit"
      /\ binding' = [binding EXCEPT ![z] = desired] /\ UNCHANGED <<store, method>>
    BY DEF CommitStorePaymentMethods, UpsertStorePaymentMethod
<1>2. Relies(r) /\ binding \in [Stores -> [Methods -> Flag]]
    BY Holding DEF Inv, TypeOK
<1>3. Operational(z) # {} => Payable(desired)
    BY <1>1, <1>2 DEF Relies
<1>4. CASE s # z
    <2>1. binding'[s] = binding[s]
        BY <1>1, <1>2, <1>4
    <2> QED
        BY <1>1, <2>1 DEF Kept, Operational
<1>5. CASE s = z
    <2>1. binding'[s] = desired
        BY <1>1, <1>2, <1>5
    <2>2. Operational(s) # {} => Operational(s)' # {}
        BY <1>1, <1>3, <1>5, <2>1 DEF Payable, Operational
    <2> QED
        BY <1>1, <2>2 DEF Kept
<1> QED
    BY <1>4, <1>5

LEMMA NextKept ==
    ASSUME Inv, [Next]_vars, NEW s \in Stores
    PROVE  Kept(s)
<1>1. CASE \E r \in Requests : Call(r)
    <2> PICK r \in Requests : Call(r)
        BY <1>1
    <2>1. CASE \E m \in Methods, active \in {"ON", "OFF"} : CreateOrganizationPaymentMethod(r, m, active)
        BY <2>1, NewMethodKept
    <2>2. CASE UNCHANGED tables
        BY <2>2, UntouchedKept DEF tables
    <2> QED
        BY <2>1, <2>2 DEF Call, Begin, SetStoreStatus, UpdateStore, CreateStore,
                          SetOrganizationPaymentMethodStatus, UpdateStorePaymentMethod,
                          ReplaceStorePaymentMethods, CreateSale
<1>2. CASE \E r \in Requests : Progress(r)
    <2> PICK r \in Requests : Progress(r)
        BY <1>2
    <2>1. CASE \/ UpdateStoreStatus(r) \/ CommitStore(r)
               \/ CommitMethodStatus(r) \/ CommitStorePaymentMethods(r)
        BY <2>1, StatusKept, CreationKept, MethodKept, BindingKept
    <2>2. CASE \/ LockOrganizationForOwnerChange(r) \/ LockStoreForStatusChange(r)
               \/ CheckStoreStatus(r) \/ CopyActivePaymentMethodsToStore(r)
               \/ CheckMethodStatus(r) \/ CheckReplacement(r) \/ CheckStorePaymentMethod(r)
        <3>1. UNCHANGED tables
            BY <2>2 DEF LockOrganizationForOwnerChange, LockStoreForStatusChange,
                    CheckStoreStatus, CopyActivePaymentMethodsToStore, CheckMethodStatus,
                    CheckReplacement, CheckStorePaymentMethod
        <3> QED
            BY <3>1, UntouchedKept DEF tables
    <2>3. CASE \/ CommitStoreUpdate(r) \/ FindExistingSale(r) \/ AllocateNumber(r)
               \/ InsertSale(r) \/ CommitSale(r)
        <3>1. UNCHANGED <<store, method, binding>>
            BY <2>3 DEF CommitStoreUpdate, Reject, FindExistingSale, AllocateNumber, InsertSale,
                    CommitSale, tables
        <3> QED
            BY <3>1, UntouchedKept
    <2> QED
        BY <2>1, <2>2, <2>3 DEF Progress
<1>3. CASE \E r \in Requests : Abort(r)
    BY <1>3, UntouchedKept DEF Abort, Reject, tables
<1>4. CASE \E sale \in sales : CloseSale(sale)
    BY <1>4, UntouchedKept DEF CloseSale
<1>5. CASE UNCHANGED vars
    BY <1>5, UntouchedKept DEF vars
<1> QED
    BY <1>1, <1>2, <1>3, <1>4, <1>5 DEF Next

(* No deactivation, replacement or update of payment methods leaves an     *)
(* active store without one, and a store created with the organization's   *)
(* methods has one, although the three kinds of handlers run at once.      *)
THEOREM StoresStayOperational == Spec => KeepsOperational
<1>1. Inv /\ [Next]_vars => [\A s \in Stores : Kept(s)]_vars
    BY NextKept
<1>2. (\A s \in Stores : Kept(s)) <=>
      (\A s \in Stores :
          /\ store[s] = "ACTIVE" /\ store'[s] = "ACTIVE" /\ Operational(s) # {}
                => Operational(s)' # {}
          /\ store[s] = "NONE" /\ store'[s] = "ACTIVE"
             /\ (\E r \in Requests : req[r].op = "create" /\ req[r].store = s /\ req[r].target = "ON")
                => Operational(s)' # {})
    BY DEF Kept
<1> QED
    BY <1>1, <1>2, StoreDeskInvariance, PTL DEF Spec, KeepsOperational
-----------------------------------------------------------------------------
(* Refinement: the insert of a sale opens it in the register, an answer    *)
(* with a sale that was there repeats it, everything else is invisible.    *)

Opened == {<<sale.store, sale.key, sale.number>> : sale \in sales}

LEMMA RepeatRefines ==
    ASSUME Inv, NEW sale \in sales, Answer(sale.store, sale.key, sale.number), UNCHANGED sales
    PROVE  Register!Next
<1> PICK s, k, n : s = sale.store /\ k = sale.key /\ n = sale.number
    OBVIOUS
<1>1. s \in Stores /\ k \in Keys /\ n \in Nat \ {0} /\ n <= MaxNumber
    BY DEF Inv, TypeOK, Sale, SalesNumbered
<1>2. n \in 1..MaxNumber
    BY <1>1, NumbersBounded
<1>3. Register!Repeat(s, k, n)
    BY DEF Register!Repeat, Answer
<1> QED
    BY <1>1, <1>2, <1>3 DEF Register!Next

LEMMA OpenRefines ==
    ASSUME Inv, NEW s \in Stores, NEW k \in Keys, NEW n \in Nat \ {0}, NEW new \in Sale,
           new.store = s, new.key = k, new.number = n, n = counter[s], n <= MaxNumber,
           SalesWith(s, k) = {}, Answer(s, k, n), sales' = sales \cup {new}
    PROVE  Register!Next
<1>1. n \in 1..MaxNumber
    BY NumbersBounded
<1>2. \A m \in 1..MaxNumber : <<s, k, m>> \notin Opened
    BY DEF SalesWith, Opened
<1>3. \A j \in Keys : <<s, j, n>> \notin Opened
    <2> SUFFICES ASSUME NEW sale \in sales, sale.store = s, sale.number = n
                 PROVE  FALSE
        BY DEF Opened
    <2>1. sale.number < counter[s]
        BY DEF Inv, SalesNumbered
    <2> QED
        BY <2>1
<1>4. Opened' = Opened \cup {<<s, k, n>>}
    BY DEF Opened
<1>5. Register!Open(s, k, n)
    BY <1>2, <1>3, <1>4 DEF Register!Open, Opened, Answer
<1> QED
    BY <1>1, <1>5 DEF Register!Next

LEMMA CloseRefines ==
    ASSUME Inv, NEW sale \in sales, CloseSale(sale)
    PROVE  UNCHANGED <<Opened, answers>>
<1> PICK closed : closed = [sale EXCEPT !.open = FALSE]
    OBVIOUS
<1>1. sales' = (sales \ {sale}) \cup {closed} /\ UNCHANGED answers
    BY DEF CloseSale
<1>2. closed.store = sale.store /\ closed.key = sale.key /\ closed.number = sale.number
    BY DEF Inv, TypeOK, Sale
<1>3. Opened' = Opened
    BY <1>1, <1>2 DEF Opened
<1> QED
    BY <1>1, <1>3

LEMMA SaleRefines ==
    ASSUME Inv, NEW r \in Requests, FindExistingSale(r) \/ CommitSale(r)
    PROVE  Register!Next \/ UNCHANGED <<sales, answers>>
<1>1. CASE FindExistingSale(r)
    BY <1>1, RepeatRefines DEF FindExistingSale, SalesWith
<1>2. CASE CommitSale(r)
    <2> PICK s, k, n : s = req[r].store /\ k = req[r].key /\ n = req[r].number
        OBVIOUS
    <2> PICK new : new = [store |-> s, key |-> k, number |-> n, open |-> TRUE]
        OBVIOUS
    <2>1. /\ At(r, "sale", "commit")
          /\ \/ \E sale \in SalesWith(s, k) : Answer(s, k, sale.number) /\ UNCHANGED sales
             \/ SalesWith(s, k) = {} /\ Answer(s, k, new.number) /\ sales' = sales \cup {new}
        BY <1>2 DEF CommitSale
    <2>2. s \in Stores /\ k \in Keys /\ n = counter[s] /\ n \in Nat \ {0} /\ n <= MaxNumber
        BY <2>1, NumberOfSale
    <2>3. new \in Sale /\ new.store = s /\ new.key = k /\ new.number = n
        BY <2>2 DEF Sale
    <2>4. CASE \E sale \in SalesWith(s, k) : Answer(s, k, sale.number) /\ UNCHANGED sales
        BY <2>4, RepeatRefines DEF SalesWith
    <2>5. CASE SalesWith(s, k) = {} /\ Answer(s, k, new.number) /\ sales' = sales \cup {new}
        <3>1. Answer(s, k, n)
            BY <2>3, <2>5
        <3> QED
            BY <2>2, <2>3, <2>5, <3>1, OpenRefines
    <2> QED
        BY <2>1, <2>4, <2>5
<1> QED
    BY <1>1, <1>2

LEMMA NextRefines ==
    ASSUME Inv, [Next]_vars
    PROVE  [Register!Next]_<<Opened, answers>>
<1>1. SUFFICES ASSUME ~(UNCHANGED <<sales, answers>>)
               PROVE  Register!Next \/ UNCHANGED <<Opened, answers>>
    BY DEF Opened
<1>2. CASE \E r \in Requests : Call(r)
    BY <1>1, <1>2 DEF Call, Begin, SetStoreStatus, UpdateStore, CreateStore,
                 CreateOrganizationPaymentMethod, SetOrganizationPaymentMethodStatus,
                 UpdateStorePaymentMethod, ReplaceStorePaymentMethods, CreateSale, tables
<1>3. CASE \E r \in Requests : Progress(r)
    <2> PICK r \in Requests : Progress(r)
        BY <1>3
    <2>1. CASE FindExistingSale(r) \/ CommitSale(r)
        BY <1>1, <2>1, SaleRefines
    <2>2. CASE \/ LockOrganizationForOwnerChange(r) \/ LockStoreForStatusChange(r)
               \/ CheckStoreStatus(r) \/ CopyActivePaymentMethodsToStore(r)
               \/ CheckMethodStatus(r) \/ CheckReplacement(r) \/ CheckStorePaymentMethod(r)
        BY <1>1, <2>2 DEF LockOrganizationForOwnerChange, LockStoreForStatusChange,
                    CheckStoreStatus, CopyActivePaymentMethodsToStore, CheckMethodStatus,
                    CheckReplacement, CheckStorePaymentMethod, tables
    <2>3. CASE \/ UpdateStoreStatus(r) \/ CommitStoreUpdate(r) \/ CommitStore(r)
               \/ CommitMethodStatus(r) \/ CommitStorePaymentMethods(r)
               \/ AllocateNumber(r) \/ InsertSale(r)
        BY <1>1, <2>3 DEF UpdateStoreStatus, CommitStoreUpdate, Reject, CommitStore,
                    CommitMethodStatus, CommitStorePaymentMethods, AllocateNumber, InsertSale, tables
    <2> QED
        BY <2>1, <2>2, <2>3 DEF Progress
<1>4. CASE \E r \in Requests : Abort(r)
    BY <1>1, <1>4 DEF Abort, Reject, tables
<1>5. CASE \E sale \in sales : CloseSale(sale)
    BY <1>5, CloseRefines
<1>6. CASE UNCHANGED vars
    BY <1>1, <1>6 DEF vars
<1> QED
    BY <1>2, <1>3, <1>4, <1>5, <1>6 DEF Next

(* POST /sales implements the register: whatever requests run at the same  *)
(* time, a key opens one sale, every request with the key is answered with *)
(* it, and no number of a store is given twice.                            *)
THEOREM SalesAreRegistered == Spec => RegisterSpec
<1>1. Init => Register!Init
    BY DEF Init, Register!Init
<1>2. Inv /\ [Next]_vars => [Register!Next]_<<Opened, answers>>
    BY NextRefines
<1> QED
    BY <1>1, <1>2, StoreDeskInvariance, PTL DEF Spec, RegisterSpec, Register!Spec, Opened
=============================================================================
