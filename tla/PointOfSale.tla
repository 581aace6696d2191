---------------------------- MODULE PointOfSale ----------------------------
(***************************************************************************)
(* The transactions of one store: editing and cancelling an open sale,     *)
(* checking it out, receiving and adjusting stock, and the fiscal          *)
(* authorization that follows a committed checkout.                        *)
(*                                                                         *)
(* Every HTTP request runs one PostgreSQL transaction at READ COMMITTED.   *)
(* A transaction is cut at the statements other transactions can observe   *)
(* or block: the SELECT ... FOR UPDATE that locks the sale, each UPDATE or *)
(* upsert of an inventory row, and the COMMIT.  The tables below hold      *)
(* committed rows only; what a transaction has written but not committed   *)
(* is in its request record, and the locks it holds are in saleLock and    *)
(* stockLock.  A statement that has to wait for a lock is an action that   *)
(* is not enabled.                                                         *)
(***************************************************************************)
EXTENDS StoreLedger

CONSTANTS
    Requests,       \* request handlers that run concurrently
    Crashes,        \* whether handlers may die or lose their connection
    None            \* no holder, no sale, no reference

ASSUME CrashesBoolean == Crashes \in BOOLEAN
ASSUME NoneIsNothing ==
    None \notin Requests /\ None \notin Sales /\ None \notin References

VARIABLES
    saleLock,   \* request that holds the row lock of the sale
    stockLock,  \* request that holds the lock of the product's inventory row
    req         \* what each request handler is doing

locks == <<saleLock, stockLock>>
vars == <<tables, locks, req>>

-----------------------------------------------------------------------------
(* Requests. *)

Steps == {"idle", "edit", "cancel", "checkout", "stock", "authorize"}

(* kind and ref are the movement type and reference; need is the basket an *)
(* edit will write or the quantities a stock change moves; taken are the   *)
(* inventory rows already changed and seen what they held before that.     *)
Request ==
    [pc : Steps, sale : Sales \cup {None}, kind : MovementTypes,
     ref : Sales \cup References \cup {None}, need : Basket,
     taken : SUBSET Products, seen : Basket, tender : 0..MaxPayments]

Begin(pc, sale, kind, ref, need, tender) ==
    [pc |-> pc, sale |-> sale, kind |-> kind, ref |-> ref, need |-> need,
     taken |-> {}, seen |-> EmptyBasket, tender |-> tender]

Idle == Begin("idle", None, "SALE", None, EmptyBasket, 0)

(* Inventory rows the transaction still has to change, and the next one:   *)
(* checkout goes through them by ascending product id.                     *)
Remaining(r) == {p \in Products : req[r].need[p] > 0} \ req[r].taken

(* Mutant: rows in the order of the byProduct map, keys not sorted. *)
NextRowUnsorted(r, p) == p \in Remaining(r)

NextRow(r, p) == p \in Remaining(r) /\ \A q \in Remaining(r) : p <= q

(* RETURNING current_quantity of the increase or decrease. *)
Left(r, p) == NewQuantity(req[r].kind, req[r].seen[p], req[r].need[p])

MovementOf(r, p) ==
    [type |-> req[r].kind, ref |-> req[r].ref, qty |-> req[r].need[p],
     prev |-> req[r].seen[p], cur |-> Left(r, p)]

(* Mutant: DecreaseInventoryForStore without quantity >= requested. *)
AvailableUnchecked(r, p) == TRUE

Available(r, p) == InStock(p, req[r].kind, req[r].need[p])
(* Mutant: no unique index on the movement's reference. *)
DuplicateIgnored(r, p) == FALSE

Duplicate(r, p) == Recorded(p, req[r].kind, req[r].ref)

-----------------------------------------------------------------------------
(* The end of a transaction. *)

ReleaseLocks(r) ==
    /\ saleLock' = [s \in Sales |-> IF saleLock[s] = r THEN None ELSE saleLock[s]]
    /\ stockLock' =
           [p \in Products |-> IF stockLock[p] = r THEN None ELSE stockLock[p]]

(* The inventory rows and movements of r become visible. *)
PublishStock(r) ==
    /\ stock' = [p \in Products |->
                    IF p \in req[r].taken THEN Left(r, p) ELSE stock[p]]
    /\ log' = [p \in Products |->
                  IF p \in req[r].taken THEN Append(log[p], MovementOf(r, p))
                                        ELSE log[p]]
    /\ tracked' = tracked \cup req[r].taken

(* Mutant: statements outside a transaction, nothing to roll back. *)
RollbackNothing(r) ==
    /\ PublishStock(r)
    /\ ReleaseLocks(r)
    /\ req' = [req EXCEPT ![r] = Idle]
    /\ UNCHANGED <<status, basket, payments, fiscal>>

Rollback(r) ==
    /\ ReleaseLocks(r)
    /\ req' = [req EXCEPT ![r] = Idle]
    /\ UNCHANGED tables

-----------------------------------------------------------------------------
(* The sales service: AddItem, UpdateItem and RemoveItem, each of which    *)
(* leaves a new total quantity of one product in the basket, and Cancel.   *)

(* Mutant: the sale is read without FOR UPDATE. *)
LockOpenSaleUnlocked(r, s) ==
    /\ req[r].pc = "idle"
    /\ status[s] = "OPEN"
    /\ saleLock' = [saleLock EXCEPT ![s] = r]

LockOpenSale(r, s) ==
    /\ req[r].pc = "idle"
    /\ saleLock[s] = None
    /\ status[s] = "OPEN"
    /\ saleLock' = [saleLock EXCEPT ![s] = r]

StartEdit(r, s, p, q) ==
    /\ LockOpenSale(r, s)
    /\ req' = [req EXCEPT ![r] = Begin("edit", s, "SALE", None,
                                       [basket[s] EXCEPT ![p] = q], 0)]
    /\ UNCHANGED <<tables, stockLock>>

CommitEdit(r) ==
    /\ req[r].pc = "edit"
    /\ basket' = [basket EXCEPT ![req[r].sale] = req[r].need]
    /\ ReleaseLocks(r)
    /\ req' = [req EXCEPT ![r] = Idle]
    /\ UNCHANGED <<status, payments, fiscal, tracked, stock, log>>

StartCancel(r, s) ==
    /\ LockOpenSale(r, s)
    /\ req' = [req EXCEPT ![r] = Begin("cancel", s, "SALE", None, EmptyBasket, 0)]
    /\ UNCHANGED <<tables, stockLock>>

CommitCancel(r) ==
    /\ req[r].pc = "cancel"
    /\ status' = [status EXCEPT ![req[r].sale] = "CANCELLED"]
    /\ ReleaseLocks(r)
    /\ req' = [req EXCEPT ![r] = Idle]
    /\ UNCHANGED <<basket, payments, fiscal, tracked, stock, log>>

-----------------------------------------------------------------------------
(* The inventory service: CreateEntry and CreateAdjustment. *)

StartStockOperation(r, p, kind, ref, q) ==
    /\ req[r].pc = "idle"
    /\ req' = [req EXCEPT ![r] = Begin("stock", None, kind, ref,
                                       [EmptyBasket EXCEPT ![p] = q], 0)]
    /\ UNCHANGED <<tables, locks>>

CommitStockOperation(r) ==
    /\ req[r].pc = "stock"
    /\ Remaining(r) = {}
    /\ PublishStock(r)
    /\ ReleaseLocks(r)
    /\ req' = [req EXCEPT ![r] = Idle]
    /\ UNCHANGED <<status, basket, payments, fiscal>>

-----------------------------------------------------------------------------
(* The change of one inventory row, shared by checkout and the inventory   *)
(* service: IncreaseInventoryForStore or DecreaseInventoryForStore, then   *)
(* CreateInventoryMovementForStore.                                        *)

(* Mutant: the row is read and written by two statements, without a lock. *)
MoveRowUnlocked(r, p) ==
    /\ req[r].pc \in {"checkout", "stock"}
    /\ NextRow(r, p)
    /\ Available(r, p)
    /\ ~Duplicate(r, p)
    /\ stockLock' = [stockLock EXCEPT ![p] = r]
    /\ req' = [req EXCEPT ![r].taken = @ \cup {p}, ![r].seen[p] = stock[p]]
    /\ UNCHANGED <<tables, saleLock>>

MoveRow(r, p) ==
    /\ req[r].pc \in {"checkout", "stock"}
    /\ NextRow(r, p)
    /\ stockLock[p] = None
    /\ Available(r, p)
    /\ ~Duplicate(r, p)
    /\ stockLock' = [stockLock EXCEPT ![p] = r]
    /\ req' = [req EXCEPT ![r].taken = @ \cup {p}, ![r].seen[p] = stock[p]]
    /\ UNCHANGED <<tables, saleLock>>

(* Mutant: a rejected transaction starts over instead of failing. *)
RejectRowRetries(r, p) ==
    /\ req[r].pc \in {"checkout", "stock"}
    /\ NextRow(r, p)
    /\ ~Available(r, p)
    /\ stockLock' =
           [o \in Products |-> IF stockLock[o] = r THEN None ELSE stockLock[o]]
    /\ req' = [req EXCEPT ![r].taken = {}, ![r].seen = EmptyBasket]
    /\ UNCHANGED <<tables, saleLock>>

(* An UPDATE whose WHERE clause the committed row does not satisfy returns *)
(* no row without waiting; a duplicate reference is found once the row is  *)
(* free.                                                                   *)
RejectRow(r, p) ==
    /\ req[r].pc \in {"checkout", "stock"}
    /\ NextRow(r, p)
    /\ \/ ~Available(r, p)
       \/ stockLock[p] = None /\ Duplicate(r, p)
    /\ Rollback(r)

-----------------------------------------------------------------------------
(* The checkout service. *)

StartCheckout(r, s, n) ==
    /\ LockOpenSale(r, s)
    /\ basket[s] # EmptyBasket
    /\ req' = [req EXCEPT ![r] = Begin("checkout", s, "SALE", s, basket[s], n)]
    /\ UNCHANGED <<tables, stockLock>>

(* createPayments, CompleteSale, CreateFiscalDocument and the COMMIT. *)
CommitCheckout(r) ==
    LET s == req[r].sale
    IN  /\ req[r].pc = "checkout"
        /\ Remaining(r) = {}
        /\ PublishStock(r)
        /\ payments' = [payments EXCEPT ![s] = @ + req[r].tender]
        /\ status' = [status EXCEPT ![s] = "COMPLETED"]
        /\ fiscal' = [fiscal EXCEPT ![s] = IF @ = "NONE" THEN "PENDING" ELSE @]
        /\ ReleaseLocks(r)
        /\ req' = [req EXCEPT ![r] =
                       Begin("authorize", s, "SALE", None, EmptyBasket, 0)]
        /\ UNCHANGED basket

(* The provider answers after the commit; its verdict is stored in a       *)
(* transaction of its own, guarded by the document's status.               *)
AuthorizeFiscalDocument(r, verdict) ==
    LET s == req[r].sale
    IN  /\ req[r].pc = "authorize"
        /\ fiscal' = [fiscal EXCEPT ![s] = IF @ = "PENDING" THEN verdict ELSE @]
        /\ req' = [req EXCEPT ![r] = Idle]
        /\ UNCHANGED <<status, basket, payments, tracked, stock, log, locks>>

(* The handler dies, its client goes away or a statement fails: before the *)
(* COMMIT everything is rolled back, after it the fiscal document stays as *)
(* it is.                                                                  *)
Crash(r) ==
    /\ Crashes
    /\ req[r].pc # "idle"
    /\ Rollback(r)

-----------------------------------------------------------------------------
Init ==
    /\ LedgerInit
    /\ saleLock = [s \in Sales |-> None]
    /\ stockLock = [p \in Products |-> None]
    /\ req = [r \in Requests |-> Idle]

(* What a client can ask for, and what the server does to finish it. *)
Arrival(r) ==
    \/ \E s \in Sales :
          \/ \E p \in Products, q \in Quantities \cup {0} : StartEdit(r, s, p, q)
          \/ StartCancel(r, s)
          \/ \E n \in 1..MaxPayments : StartCheckout(r, s, n)
    \/ \E p \in Products, kind \in Operations, ref \in References,
          q \in Quantities : StartStockOperation(r, p, kind, ref, q)

Progress(r) ==
    \/ CommitEdit(r)
    \/ CommitCancel(r)
    \/ CommitStockOperation(r)
    \/ \E p \in Products : MoveRow(r, p) \/ RejectRow(r, p)
    \/ CommitCheckout(r)
    \/ \E verdict \in Verdicts : AuthorizeFiscalDocument(r, verdict)

Next == \E r \in Requests : Arrival(r) \/ Progress(r) \/ Crash(r)

Spec == Init /\ [][Next]_vars

(* A handler that can take its next statement eventually does: goroutines  *)
(* are scheduled fairly, and PostgreSQL grants a released row lock to the  *)
(* requests that queue for it in turn, so a row that is free again and     *)
(* again is eventually had.                                                *)
FairSpec == Spec /\ \A r \in Requests : SF_vars(Progress(r))

-----------------------------------------------------------------------------
(* Properties. *)

(* Type correctness of the committed tables, locks and request records. *)
TypeOK ==
    /\ TablesOK
    /\ saleLock \in [Sales -> Requests \cup {None}]
    /\ stockLock \in [Products -> Requests \cup {None}]
    /\ req \in [Requests -> Request]

(* What a transaction in progress may rely on, and why its COMMIT is as    *)
(* good as doing everything at once: the sale it locked is still open and  *)
(* still has the items it read, and every inventory row it changed still   *)
(* holds what it saw, enough for what it takes, and no movement with its   *)
(* reference.                                                              *)
SaleHeld(r) ==
    LET s == req[r].sale
    IN  /\ req[r].pc \in {"edit", "cancel", "checkout"} =>
               s \in Sales /\ saleLock[s] = r /\ status[s] = "OPEN"
        /\ req[r].pc = "edit" =>
               \E p \in Products, q \in Quantities \cup {0} :
                   req[r].need = [basket[s] EXCEPT ![p] = q]
        /\ req[r].pc = "checkout" =>
               /\ req[r].kind = "SALE" /\ req[r].ref = s
               /\ req[r].need = basket[s] /\ basket[s] # EmptyBasket
               /\ req[r].tender \in 1..MaxPayments
        /\ req[r].pc = "authorize" => s \in Sales

RowsHeld(r) ==
    /\ req[r].pc = "stock" =>
           /\ req[r].kind \in Operations /\ req[r].ref \in References
           /\ \E p \in Products, q \in Quantities :
                  req[r].need = [EmptyBasket EXCEPT ![p] = q]
    /\ req[r].pc \notin {"checkout", "stock"} => req[r].taken = {}
    /\ \A p \in req[r].taken :
           /\ stockLock[p] = r
           /\ req[r].need[p] > 0
           /\ req[r].seen[p] = stock[p]
           /\ Available(r, p) /\ ~Duplicate(r, p)

ReadsStayValid == \A r \in Requests : SaleHeld(r) /\ RowsHeld(r)

(* Every row a checkout waits for comes after all the rows it holds. *)
LocksAscend ==
    \A r \in Requests : \A p \in req[r].taken, q \in Remaining(r) : p < q

WaitsFor(r, q) ==
    /\ req[r].pc \in {"checkout", "stock"}
    /\ \E p \in Products : NextRow(r, p) /\ stockLock[p] = q

(* No set of requests waits for inventory rows held by one another: the    *)
(* ascending product order of applyInventoryChanges leaves no lock cycle   *)
(* between checkouts and stock operations.                                 *)
NoLockCycle ==
    \A S \in (SUBSET Requests) \ {{}} :
        \E r \in S : \A q \in S : ~WaitsFor(r, q)

(* Every request comes to an end: none waits for ever for a row lock. *)
RequestsFinish ==
    \A r \in Requests : (req[r].pc # "idle") ~> (req[r].pc = "idle")

(* The fiscal document of a completed sale does not stay PENDING. *)
FiscalSettles ==
    \A s \in Sales : (fiscal[s] = "PENDING") ~> (fiscal[s] # "PENDING")
=============================================================================
