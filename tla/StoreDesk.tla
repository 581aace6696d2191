----------------------------- MODULE StoreDesk -----------------------------
(***************************************************************************)
(* The administration of an organization's stores and payment methods      *)
(* (internal/stores) while sales are opened in them (sales.Create).        *)
(*                                                                         *)
(* Requests are transactions at READ COMMITTED, cut where others can see   *)
(* or block them.  Three kinds of lock matter: the organization row, the   *)
(* row of a store, and a store's row in sale_number_counters.  FOR UPDATE  *)
(* is "X"; the FOR KEY SHARE that a foreign key takes is "S".  Every audit *)
(* event has a foreign key to the organization.                            *)
(*                                                                         *)
(* Names, time zones, sort orders and the rules of methods do not matter   *)
(* here; the rules are in PaymentMethodRules.                              *)
(***************************************************************************)
EXTENDS Integers, FiniteSets

CONSTANTS
    Requests,
    Stores,         \* stores that exist or may be created
    Founded,        \* stores there are at the beginning, with every method
    Methods,        \* payment methods that exist or may be created
    Started,        \* methods there are at the beginning, active
    Codes,          \* store codes
    Keys,           \* idempotency keys of sales
    MaxNumber,      \* bound on the sale numbers of a store
    Ops,            \* handlers that are called
    None

ASSUME FoundedStores == Founded \subseteq Stores /\ Founded # {}
ASSUME StartedMethods == Started \subseteq Methods /\ Started # {}
ASSUME NumbersBounded == MaxNumber \in Nat \ {0}
ASSUME RequestsFinite == IsFiniteSet(Requests)
ASSUME NoneIsNoOne == None \notin Stores \cup Methods \cup Codes \cup Keys

VARIABLES
    store,      \* status of each store, "NONE" without a row
    code,       \* code of each store
    method,     \* "NONE", "ON" or "OFF": payment_methods.is_active
    binding,    \* the same for store_payment_methods
    sales,      \* rows of sales
    counter,    \* next_number of each store
    answers,    \* <<store, key, number>> answered to creations of sales
    req         \* the transaction each request is in

tables == <<store, code, method, binding, sales, counter, answers>>
vars == <<store, code, method, binding, sales, counter, answers, req>>

-----------------------------------------------------------------------------
(* Requests and their locks. *)

StoreStatus == {"ACTIVE", "INACTIVE", "ARCHIVED"}
Flag == {"NONE", "ON", "OFF"}

NoMethods == [m \in Methods |-> "NONE"]

(* A request: its handler, the statement it is at, what it was asked for,  *)
(* and the locks it holds: org, row (of its store) and counter.            *)
Idle == [op |-> "none", pc |-> "idle", store |-> None, method |-> None,
         target |-> "NONE", code |-> None, key |-> None, number |-> 0,
         desired |-> NoMethods, org |-> "-", row |-> "-", counter |-> FALSE]

Conflict(held, asked) == held = "X" \/ (held = "S" /\ asked = "X")

OrganizationBlockers(r, mode) == {q \in Requests \ {r} : Conflict(req[q].org, mode)}

StoreBlockers(r, mode) ==
    {q \in Requests \ {r} : req[q].store = req[r].store /\ Conflict(req[q].row, mode)}

CounterBlockers(r) ==
    {q \in Requests \ {r} : req[q].store = req[r].store /\ req[q].counter}

At(r, op, pc) == req[r].op = op /\ req[r].pc = pc

Goto(r, pc) == req' = [req EXCEPT ![r].pc = pc]

(* WithTx after an error of its function, or an early return of nil. *)
End(r) == req' = [req EXCEPT ![r] = Idle]

Reject(r) == End(r) /\ UNCHANGED tables

Begin(r, request) ==
    /\ req[r] = Idle
    /\ request.op \in Ops
    /\ req' = [req EXCEPT ![r] = request]
    /\ UNCHANGED tables

-----------------------------------------------------------------------------
(* Statements shared by the handlers. *)

(* Mutant: the organization is locked FOR KEY SHARE. *)
LockOrganizationShared(r) ==
    /\ req[r].pc = "org"
    /\ OrganizationBlockers(r, "S") = {}
    /\ req' = [req EXCEPT ![r].org = "S",
                          ![r].pc = IF req[r].op = "method" THEN "check" ELSE "row"]
    /\ UNCHANGED tables

LockOrganizationForOwnerChange(r) ==
    /\ req[r].pc = "org"
    /\ OrganizationBlockers(r, "X") = {}
    /\ req' = [req EXCEPT ![r].org = "X",
                          ![r].pc = IF req[r].op = "method" THEN "check" ELSE "row"]
    /\ UNCHANGED tables

(* No row with that id: ErrStoreNotFound. *)
LockStoreForStatusChange(r) ==
    /\ req[r].pc = "row"
    /\ StoreBlockers(r, "X") = {}
    /\ IF store[req[r].store] = "NONE" THEN End(r)
       ELSE req' = [req EXCEPT ![r].row = "X", ![r].pc = "check"]
    /\ UNCHANGED tables

HasOpenSalesForStore(s) == \E sale \in sales : sale.store = s /\ sale.open
CountActiveStores == Cardinality({s \in Stores : store[s] = "ACTIVE"})
ListActiveStores == {s \in Stores : store[s] = "ACTIVE"}
CountActivePaymentMethods == Cardinality({m \in Methods : method[m] = "ON"})
Operational(s) == {m \in Methods : binding[s][m] = "ON" /\ method[m] = "ON"}
CountOperationalPaymentMethodsForStore(s) == Cardinality(Operational(s))
GetStorePaymentMethod(s, m) == binding[s][m]
ListStorePaymentMethods(s) == {m \in Methods : binding[s][m] # "NONE"}
UpsertStorePaymentMethod(s, rows) == binding' = [binding EXCEPT ![s] = rows]

-----------------------------------------------------------------------------
(* internal/stores/service_stores.go *)

SetStoreStatus(r, s, target) ==
    Begin(r, [Idle EXCEPT !.op = "status", !.pc = "org", !.store = s, !.target = target])

CheckStoreStatus(r) ==
    LET s == req[r].store
        closing == store[s] = "ACTIVE" /\ req[r].target # "ACTIVE"
    IN  /\ At(r, "status", "check")
        /\ IF \/ store[s] = req[r].target
              \/ store[s] = "ARCHIVED"
              \/ closing /\ HasOpenSalesForStore(s)
              \/ closing /\ CountActiveStores <= 1
           THEN End(r)
           ELSE Goto(r, "commit")
        /\ UNCHANGED tables

UpdateStoreStatus(r) ==
    /\ At(r, "status", "commit")
    /\ store' = [store EXCEPT ![req[r].store] = req[r].target]
    /\ End(r)
    /\ UNCHANGED <<code, method, binding, sales, counter, answers>>

(* stores_organization_id_code_unique: a row in the way refuses, one that  *)
(* is not committed yet makes wait.                                        *)
CodeTaken(s, c) == \E t \in Stores \ {s} : store[t] # "NONE" /\ code[t] = c

CodePending(r, c) == \E q \in Requests \ {r} :
                         req[q].op = "create" /\ req[q].pc # "idle" /\ req[q].code = c

UpdateStore(r, s, c) ==
    Begin(r, [Idle EXCEPT !.op = "update", !.pc = "row", !.store = s, !.code = c])

CommitStoreUpdate(r) ==
    LET s == req[r].store
    IN  /\ At(r, "update", "check")
        /\ \/ /\ store[s] = "ARCHIVED" \/ CodeTaken(s, req[r].code)
              /\ Reject(r)
           \/ /\ store[s] # "ARCHIVED" /\ ~CodeTaken(s, req[r].code)
              /\ ~CodePending(r, req[r].code)
              /\ OrganizationBlockers(r, "S") = {}      \* the audit event
              /\ code' = [code EXCEPT ![s] = req[r].code]
              /\ End(r)
              /\ UNCHANGED <<store, method, binding, sales, counter, answers>>

(* Mutant: no foreign key from the store to its organization. *)
CreateStoreUnlocked(r, s, c, copy) ==
    /\ "create" \in Ops
    /\ req[r] = Idle
    /\ store[s] = "NONE" /\ \A q \in Requests : req[q].op = "create" => req[q].store # s
    /\ ~CodeTaken(s, c) /\ ~CodePending(r, c)
    /\ req' = [req EXCEPT ![r] = [Idle EXCEPT !.op = "create", !.pc = "copy", !.store = s,
                                              !.code = c, !.target = IF copy THEN "ON" ELSE "OFF"]]
    /\ UNCHANGED tables

(* The insert of the row; its foreign key shares the organization. *)
CreateStore(r, s, c, copy) ==
    /\ "create" \in Ops
    /\ req[r] = Idle
    /\ store[s] = "NONE" /\ \A q \in Requests : req[q].op = "create" => req[q].store # s
    /\ ~CodeTaken(s, c) /\ ~CodePending(r, c)
    /\ OrganizationBlockers(r, "S") = {}
    /\ req' = [req EXCEPT ![r] = [Idle EXCEPT !.op = "create", !.pc = "copy", !.store = s,
                                              !.code = c, !.org = "S",
                                              !.target = IF copy THEN "ON" ELSE "OFF"]]
    /\ UNCHANGED tables

CopyActivePaymentMethodsToStore(r) ==
    /\ At(r, "create", "copy")
    /\ req' = [req EXCEPT ![r].pc = "commit",
                          ![r].desired = [m \in Methods |->
                              IF req[r].target = "ON" /\ method[m] = "ON" THEN "ON" ELSE "NONE"]]
    /\ UNCHANGED tables

CommitStore(r) ==
    /\ At(r, "create", "commit")
    /\ store' = [store EXCEPT ![req[r].store] = "ACTIVE"]
    /\ code' = [code EXCEPT ![req[r].store] = req[r].code]
    /\ UpsertStorePaymentMethod(req[r].store, req[r].desired)
    /\ End(r)
    /\ UNCHANGED <<method, sales, counter, answers>>

-----------------------------------------------------------------------------
(* internal/stores/service_payment_methods.go *)

(* One statement and its audit event. *)
CreateOrganizationPaymentMethod(r, m, active) ==
    /\ "method" \in Ops
    /\ req[r] = Idle
    /\ method[m] = "NONE"
    /\ OrganizationBlockers(r, "S") = {}
    /\ method' = [method EXCEPT ![m] = active]
    /\ UNCHANGED <<store, code, binding, sales, counter, answers, req>>

SetOrganizationPaymentMethodStatus(r, m, active) ==
    Begin(r, [Idle EXCEPT !.op = "method", !.pc = "org", !.method = m, !.target = active])

(* Active stores only. *)
ensurePaymentMethodCanBeDeactivated(m) ==
    \A s \in ListActiveStores :
        GetStorePaymentMethod(s, m) = "ON" => CountOperationalPaymentMethodsForStore(s) > 1

CheckMethodStatus(r) ==
    LET m == req[r].method
    IN  /\ At(r, "method", "check")
        /\ IF \/ method[m] \in {"NONE", req[r].target}
              \/ /\ req[r].target = "OFF"
                 /\ ~ensurePaymentMethodCanBeDeactivated(m) \/ CountActivePaymentMethods <= 1
           THEN End(r)
           ELSE Goto(r, "commit")
        /\ UNCHANGED tables

ActivatePaymentMethodForOrganization(m) == method' = [method EXCEPT ![m] = "ON"]
DeactivatePaymentMethodForOrganization(m) == method' = [method EXCEPT ![m] = "OFF"]

CommitMethodStatus(r) ==
    /\ At(r, "method", "commit")
    /\ \/ req[r].target = "ON" /\ ActivatePaymentMethodForOrganization(req[r].method)
       \/ req[r].target = "OFF" /\ DeactivatePaymentMethodForOrganization(req[r].method)
    /\ End(r)
    /\ UNCHANGED <<store, code, binding, sales, counter, answers>>

(* The request must ask for at least one active method. *)
ReplaceStorePaymentMethods(r, s, desired) ==
    /\ \E m \in Methods : desired[m] = "ON"
    /\ Begin(r, [Idle EXCEPT !.op = "replace", !.pc = "org", !.store = s, !.desired = desired])

(* Methods that are not mentioned are switched off, never deleted. *)
Replaced(s, desired) ==
    [m \in Methods |-> CASE desired[m] # "NONE" -> desired[m]
                         [] desired[m] = "NONE" /\ m \in ListStorePaymentMethods(s) -> "OFF"
                         [] OTHER -> "NONE"]

CheckReplacement(r) ==
    LET desired == req[r].desired
    IN  /\ At(r, "replace", "check")
        /\ IF \E m \in Methods : \/ desired[m] # "NONE" /\ method[m] = "NONE"
                                 \/ desired[m] = "ON" /\ method[m] # "ON"
           THEN End(r)
           ELSE req' = [req EXCEPT ![r].pc = "commit",
                                   ![r].desired = Replaced(req[r].store, desired)]
        /\ UNCHANGED tables

UpdateStorePaymentMethod(r, s, m, active) ==
    Begin(r, [Idle EXCEPT !.op = "bind", !.pc = "org", !.store = s, !.method = m,
                          !.target = active])

CheckStorePaymentMethod(r) ==
    LET s == req[r].store
        m == req[r].method
    IN  /\ At(r, "bind", "check")
        /\ IF \/ method[m] = "NONE"
              \/ req[r].target = "ON" /\ method[m] # "ON"
              \/ /\ GetStorePaymentMethod(s, m) = "ON" /\ req[r].target = "OFF"
                 /\ CountOperationalPaymentMethodsForStore(s) <= 1
           THEN End(r)
           ELSE req' = [req EXCEPT ![r].pc = "commit",
                                   ![r].desired = [binding[s] EXCEPT ![m] = req[r].target]]
        /\ UNCHANGED tables

CommitStorePaymentMethods(r) ==
    /\ req[r].op \in {"replace", "bind"} /\ req[r].pc = "commit"
    /\ UpsertStorePaymentMethod(req[r].store, req[r].desired)
    /\ End(r)
    /\ UNCHANGED <<store, code, method, sales, counter, answers>>

-----------------------------------------------------------------------------
(* sales.Create: one statement with three parts *)

SalesWith(s, k) == {sale \in sales : sale.store = s /\ sale.key = k}

Answer(s, k, n) == answers' = answers \cup {<<s, k, n>>}

(* The middleware has seen the store ACTIVE. *)
CreateSale(r, s, k) ==
    /\ store[s] = "ACTIVE"
    /\ counter[s] + Cardinality(Requests) <= MaxNumber + 1     \* the bound
    /\ Begin(r, [Idle EXCEPT !.op = "sale", !.pc = "check", !.store = s, !.key = k])

(* existing: what the snapshot of the statement has. *)
FindExistingSale(r) ==
    LET found == SalesWith(req[r].store, req[r].key)
    IN  /\ At(r, "sale", "check")
        /\ \/ \E sale \in found : Answer(sale.store, sale.key, sale.number) /\ End(r)
           \/ found = {} /\ Goto(r, "number") /\ UNCHANGED answers
        /\ UNCHANGED <<store, code, method, binding, sales, counter>>

(* Mutant: the number is read without the lock of the counter. *)
AllocateNumberUnlocked(r) ==
    /\ At(r, "sale", "number")
    /\ req' = [req EXCEPT ![r].pc = "insert", ![r].number = counter[req[r].store]]
    /\ UNCHANGED tables

(* allocated_number: the upsert waits for the row and increments what it   *)
(* then finds.                                                             *)
AllocateNumber(r) ==
    /\ At(r, "sale", "number")
    /\ CounterBlockers(r) = {}
    /\ req' = [req EXCEPT ![r].pc = "insert", ![r].counter = TRUE,
                          ![r].number = counter[req[r].store]]
    /\ UNCHANGED tables

(* inserted: the foreign key shares the row of the store, whatever its     *)
(* status is by now.                                                       *)
InsertSale(r) ==
    /\ At(r, "sale", "insert")
    /\ StoreBlockers(r, "S") = {}
    /\ req' = [req EXCEPT ![r].pc = "commit", ![r].row = "S"]
    /\ UNCHANGED tables

(* ON CONFLICT returns the sale that has the key; the number is lost. *)
CommitSale(r) ==
    LET s == req[r].store
        k == req[r].key
        found == SalesWith(s, k)
        new == [store |-> s, key |-> k, number |-> req[r].number, open |-> TRUE]
    IN  /\ At(r, "sale", "commit")
        /\ counter' = [counter EXCEPT ![s] = req[r].number + 1]
        /\ \/ \E sale \in found : Answer(s, k, sale.number) /\ UNCHANGED sales
           \/ found = {} /\ Answer(s, k, new.number) /\ sales' = sales \cup {new}
        /\ End(r)
        /\ UNCHANGED <<store, code, method, binding>>

(* Checkout or cancellation, for which the middleware wants an ACTIVE store. *)
CloseSale(sale) ==
    /\ sale.open
    /\ store[sale.store] = "ACTIVE"
    /\ sales' = (sales \ {sale}) \cup {[sale EXCEPT !.open = FALSE]}
    /\ UNCHANGED <<store, code, method, binding, counter, answers, req>>

-----------------------------------------------------------------------------

(* Requests that keep r's next statement waiting. *)
Blockers(r) ==
    CASE req[r].pc = "org" -> OrganizationBlockers(r, "X")
      [] req[r].pc = "row" -> StoreBlockers(r, "X")
      [] At(r, "update", "check") -> OrganizationBlockers(r, "S")
      [] req[r].pc = "number" -> CounterBlockers(r)
      [] req[r].pc = "insert" -> StoreBlockers(r, "S")
      [] OTHER -> {}

(* PostgreSQL ends one of two transactions that wait for each other: an    *)
(* update that has the store and wants the organization, a handler that    *)
(* has the organization and wants the store.  No longer circle exists.     *)
Abort(r) ==
    /\ \E q \in Blockers(r) : r \in Blockers(q)
    /\ Reject(r)

Progress(r) ==
    \/ LockOrganizationForOwnerChange(r)
    \/ LockStoreForStatusChange(r)
    \/ CheckStoreStatus(r)
    \/ UpdateStoreStatus(r)
    \/ CommitStoreUpdate(r)
    \/ CopyActivePaymentMethodsToStore(r)
    \/ CommitStore(r)
    \/ CheckMethodStatus(r)
    \/ CommitMethodStatus(r)
    \/ CheckReplacement(r)
    \/ CheckStorePaymentMethod(r)
    \/ CommitStorePaymentMethods(r)
    \/ FindExistingSale(r)
    \/ AllocateNumber(r)
    \/ InsertSale(r)
    \/ CommitSale(r)

Call(r) ==
    \/ \E s \in Stores, target \in StoreStatus : SetStoreStatus(r, s, target)
    \/ \E s \in Stores, c \in Codes : UpdateStore(r, s, c)
    \/ \E s \in Stores, c \in Codes, copy \in BOOLEAN : CreateStore(r, s, c, copy)
    \/ \E m \in Methods, active \in {"ON", "OFF"} :
          \/ CreateOrganizationPaymentMethod(r, m, active)
          \/ SetOrganizationPaymentMethodStatus(r, m, active)
          \/ \E s \in Stores : UpdateStorePaymentMethod(r, s, m, active)
    \/ \E s \in Stores, desired \in [Methods -> Flag] :
          ReplaceStorePaymentMethods(r, s, desired)
    \/ \E s \in Stores, k \in Keys : CreateSale(r, s, k)

(* BootstrapOrganization leaves active stores and active methods. *)
Init ==
    /\ store = [s \in Stores |-> IF s \in Founded THEN "ACTIVE" ELSE "NONE"]
    /\ code \in [Stores -> Codes \cup {None}]
    /\ \A s, t \in Stores : /\ code[s] = None <=> s \notin Founded
                            /\ s \in Founded /\ t \in Founded /\ s # t => code[s] # code[t]
    /\ method = [m \in Methods |-> IF m \in Started THEN "ON" ELSE "NONE"]
    /\ binding = [s \in Stores |-> [m \in Methods |->
                     IF s \in Founded /\ m \in Started THEN "ON" ELSE "NONE"]]
    /\ sales = {}
    /\ counter = [s \in Stores |-> 1]
    /\ answers = {}
    /\ req = [r \in Requests |-> Idle]

Next ==
    \/ \E r \in Requests : Call(r) \/ Progress(r) \/ Abort(r)
    \/ \E sale \in sales : CloseSale(sale)

Spec == Init /\ [][Next]_vars

-----------------------------------------------------------------------------
(* Properties. *)

(* "organization must retain an active store" and "organization must       *)
(* retain an active payment method", however many managers deactivate and  *)
(* archive at the same time.                                               *)
OrganizationRetains ==
    /\ \E s \in Stores : store[s] = "ACTIVE"
    /\ \E m \in Methods : method[m] = "ON"

(* A store that stays active and can be paid at can still be paid at after *)
(* any change of its bindings or of the organization's methods, and a new  *)
(* store that copies the methods can be paid at from the start, although   *)
(* methods are deactivated meanwhile.                                      *)
KeepsOperational ==
    [][\A s \in Stores :
          /\ store[s] = "ACTIVE" /\ store'[s] = "ACTIVE" /\ Operational(s) # {}
                => Operational(s)' # {}
          /\ store[s] = "NONE" /\ store'[s] = "ACTIVE"
             /\ (\E r \in Requests : req[r].op = "create" /\ req[r].store = s /\ req[r].target = "ON")
                => Operational(s)' # {}]_vars

(* Creation of sales with keys and numbers is as SaleRegister promises. *)
Register == INSTANCE SaleRegister
    WITH Numbers <- 1..MaxNumber,
         opened <- {<<sale.store, sale.key, sale.number>> : sale \in sales}
RegisterSpec == Register!Spec

(* An open sale is in an active store: deactivation refuses a store that   *)
(* has open sales.                                                         *)
OpenSalesInActiveStores == \A sale \in sales : sale.open => store[sale.store] = "ACTIVE"

=============================================================================
