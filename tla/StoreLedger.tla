---------------------------- MODULE StoreLedger ----------------------------
(***************************************************************************)
(* What the sales, inventory and checkout services of one store promise    *)
(* together: every request changes the tables in one step, as if requests  *)
(* were served one at a time.  PointOfSale, in which they run concurrently *)
(* and statement by statement, is shown to implement this specification.   *)
(*                                                                         *)
(* A product is the rank of its UUID string, because the order of those    *)
(* strings is the order in which checkout visits the inventory rows.       *)
(* Quantities are in units of the third decimal place (NUMERIC(15,3)).     *)
(***************************************************************************)
EXTENDS Integers, Sequences, FiniteSets

CONSTANTS
    Sales,          \* sales of the store
    Products,       \* products of the organization, as UUID ranks
    References,     \* reference ids that clients send with stock operations
    Quantities,     \* quantities a client may ask for
    Operations,     \* kinds of stock operation clients ask for
    MaxPayments     \* payments a checkout request may carry

StockOperations == {"PURCHASE", "ADJUSTMENT_IN", "ADJUSTMENT_OUT"}

ASSUME ProductsAreRanks == Products \subseteq Nat
ASSUME ProductsFinite == IsFiniteSet(Products)
ASSUME QuantitiesPositive == Quantities \subseteq Nat \ {0}
ASSUME OperationsAreKinds == Operations \subseteq StockOperations
ASSUME MaxPaymentsPositive == MaxPayments \in Nat \ {0}

VARIABLES
    status,     \* sales.status
    basket,     \* quantities of the sale's items, added up per product
    payments,   \* number of approved payments of the sale
    fiscal,     \* fiscal_documents.status of the sale, "NONE" without a row
    tracked,    \* products that have an inventory row
    stock,      \* inventory.quantity, 0 without a row
    log         \* inventory_movements of each product, in commit order

tables == <<status, basket, payments, fiscal, tracked, stock, log>>

-----------------------------------------------------------------------------
(* Rows. *)

SaleStatus == {"OPEN", "COMPLETED", "CANCELLED"}
FiscalStatus == {"NONE", "PENDING", "AUTHORIZED", "ERROR"}
Verdicts == {"AUTHORIZED", "ERROR"}
MovementTypes == StockOperations \cup {"SALE"}

Basket == [Products -> Nat]
EmptyBasket == [p \in Products |-> 0]

Movement ==
    [type : MovementTypes, ref : Sales \cup References, qty : Nat,
     prev : Nat, cur : Nat]

Decreases(kind) == kind \in {"SALE", "ADJUSTMENT_OUT"}

(* RETURNING current_quantity of the increase or decrease. *)
NewQuantity(kind, previous, q) ==
    IF Decreases(kind) THEN previous - q ELSE previous + q

(* inventory_movements_reference_unique. *)
Recorded(p, kind, ref) ==
    \E i \in DOMAIN log[p] : log[p][i].type = kind /\ log[p][i].ref = ref

(* quantity >= requested, the WHERE clause of DecreaseInventoryForStore. *)
InStock(p, kind, q) ==
    Decreases(kind) => p \in tracked /\ q <= stock[p]

(* The change of the inventory rows in P and its movements. *)
Move(P, kind, ref, need) ==
    /\ \A p \in P : InStock(p, kind, need[p]) /\ ~Recorded(p, kind, ref)
    /\ tracked' = tracked \cup P
    /\ stock' = [p \in Products |->
                    IF p \in P THEN NewQuantity(kind, stock[p], need[p])
                               ELSE stock[p]]
    /\ log' = [p \in Products |->
                  IF p \in P
                  THEN Append(log[p],
                              [type |-> kind, ref |-> ref, qty |-> need[p],
                               prev |-> stock[p],
                               cur |-> NewQuantity(kind, stock[p], need[p])])
                  ELSE log[p]]

-----------------------------------------------------------------------------
(* Requests. *)

EditSale(s, p, q) ==
    /\ status[s] = "OPEN"
    /\ basket' = [basket EXCEPT ![s][p] = q]
    /\ UNCHANGED <<status, payments, fiscal, tracked, stock, log>>

CancelSale(s) ==
    /\ status[s] = "OPEN"
    /\ status' = [status EXCEPT ![s] = "CANCELLED"]
    /\ UNCHANGED <<basket, payments, fiscal, tracked, stock, log>>

OperateStock(p, kind, ref, q) ==
    /\ Move({p}, kind, ref, [EmptyBasket EXCEPT ![p] = q])
    /\ UNCHANGED <<status, basket, payments, fiscal>>

CompleteSale(s, n) ==
    /\ status[s] = "OPEN"
    /\ basket[s] # EmptyBasket
    /\ Move({p \in Products : basket[s][p] > 0}, "SALE", s, basket[s])
    /\ payments' = [payments EXCEPT ![s] = @ + n]
    /\ status' = [status EXCEPT ![s] = "COMPLETED"]
    /\ fiscal' = [fiscal EXCEPT ![s] = IF @ = "NONE" THEN "PENDING" ELSE @]
    /\ UNCHANGED basket

SettleFiscalDocument(s, verdict) ==
    /\ fiscal[s] = "PENDING"
    /\ fiscal' = [fiscal EXCEPT ![s] = verdict]
    /\ UNCHANGED <<status, basket, payments, tracked, stock, log>>

LedgerInit ==
    /\ status = [s \in Sales |-> "OPEN"]
    /\ basket = [s \in Sales |-> EmptyBasket]
    /\ payments = [s \in Sales |-> 0]
    /\ fiscal = [s \in Sales |-> "NONE"]
    /\ tracked = {}
    /\ stock = EmptyBasket
    /\ log = [p \in Products |-> <<>>]

LedgerNext ==
    \/ \E s \in Sales :
          \/ \E p \in Products, q \in Quantities \cup {0} : EditSale(s, p, q)
          \/ CancelSale(s)
          \/ \E n \in 1..MaxPayments : CompleteSale(s, n)
          \/ \E verdict \in Verdicts : SettleFiscalDocument(s, verdict)
    \/ \E p \in Products, kind \in Operations, ref \in References,
          q \in Quantities : OperateStock(p, kind, ref, q)

(* Requests take effect one at a time and completely or not at all:        *)
(* the transactions of the store are serializable although they run at     *)
(* READ COMMITTED, and a checkout never decrements the stock of some       *)
(* products without completing the sale.                                   *)
LedgerSpec == LedgerInit /\ [][LedgerNext]_tables

-----------------------------------------------------------------------------
(* Properties of the tables. *)

TablesOK ==
    /\ status \in [Sales -> SaleStatus]
    /\ basket \in [Sales -> Basket]
    /\ payments \in [Sales -> Nat]
    /\ fiscal \in [Sales -> FiscalStatus]
    /\ tracked \subseteq Products
    /\ stock \in Basket
    /\ log \in [Products -> Seq(Movement)]

(* The movements of a product are an unbroken chain from 0 to the quantity *)
(* the inventory row shows: no entry, adjustment or checkout overwrites    *)
(* another one's change (previous_quantity, current_quantity of            *)
(* CreateInventoryMovementForStore against IncreaseInventoryForStore and   *)
(* DecreaseInventoryForStore).                                             *)
QuantityAfter(p, i) == IF i = 0 THEN 0 ELSE log[p][i].cur

StockFollowsMovements ==
    \A p \in Products :
        /\ \A i \in 1..Len(log[p]) : log[p][i].prev = QuantityAfter(p, i - 1)
        /\ stock[p] = QuantityAfter(p, Len(log[p]))
        /\ p \in tracked <=> Len(log[p]) > 0

(* The movements of product p that belong to sale s. *)
Sold(s, p) ==
    {i \in DOMAIN log[p] : log[p][i].type = "SALE" /\ log[p][i].ref = s}

(* Goods leave the stock for a sale exactly when it is completed, once,    *)
(* and in the quantities of the items the completed sale shows, whatever   *)
(* edits, cancellations and second checkouts of the sale run meanwhile.    *)
SoldExactlyOnce ==
    \A s \in Sales, p \in Products :
        IF status[s] = "COMPLETED" /\ basket[s][p] > 0
        THEN \E i \in DOMAIN log[p] :
                 Sold(s, p) = {i} /\ log[p][i].qty = basket[s][p]
        ELSE Sold(s, p) = {}

(* A sale has payments and a fiscal document exactly when it is completed, *)
(* and they are those of one checkout request.                             *)
SettledIffCompleted ==
    \A s \in Sales :
        IF status[s] = "COMPLETED"
        THEN payments[s] \in 1..MaxPayments /\ fiscal[s] # "NONE"
        ELSE payments[s] = 0 /\ fiscal[s] = "NONE"

(* A reference sent again by a retrying client is applied at most once to  *)
(* a product (inventory_movements_reference_unique, checked by a statement *)
(* that runs before the COMMIT that makes the movement visible).           *)
ReferenceAppliedOnce ==
    \A p \in Products : \A i, j \in DOMAIN log[p] :
        log[p][i].type = log[p][j].type /\ log[p][i].ref = log[p][j].ref => i = j

(* A sale that is no longer open never changes again, neither its status   *)
(* nor its items nor its payments (a completed sale is not cancelled       *)
(* although the SQL of CancelSaleForStore would allow it), movements are   *)
(* only ever appended, and a fiscal verdict is final.                      *)
ClosedStaysClosed ==
    /\ \A s \in Sales : status[s] # "OPEN" =>
           /\ status'[s] = status[s]
           /\ basket'[s] = basket[s]
           /\ payments'[s] = payments[s]
    /\ \A p \in Products : \A i \in DOMAIN log[p] :
           i \in DOMAIN log'[p] /\ log'[p][i] = log[p][i]
    /\ \A s \in Sales : fiscal[s] \in Verdicts => fiscal'[s] = fiscal[s]

ClosedIsFinal == [][ClosedStaysClosed]_tables
=============================================================================
