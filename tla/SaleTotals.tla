----------------------------- MODULE SaleTotals -----------------------------
(***************************************************************************)
(* The money of one sale: its items with price snapshots and discounts,    *)
(* the totals kept in its header, the payments that settle it, and the     *)
(* receipt printed from the stored rows.  internal/sales writes items and  *)
(* totals, internal/checkout computes them again and refuses a difference, *)
(* the CHECK constraints of the migrations compute them a third time, and  *)
(* internal/receipt a fourth.                                              *)
(*                                                                         *)
(* Amounts are cents, quantities thousandths.  The row lock of the sale    *)
(* keeps a second editor or checkout out (PointOfSale); what may happen in *)
(* the middle of a checkout is that a manager changes the payment method   *)
(* or the product it uses.                                                 *)
(***************************************************************************)
EXTENDS Decimals

CONSTANTS
    ItemIds,        \* ids an item may get; each is used once
    Products,
    Methods,        \* payment methods of the organization
    Prices,         \* product prices, in cents
    Quantities,     \* quantities asked for, in thousandths
    Discounts,      \* item discounts asked for, in cents
    Tenders,        \* payments a client may send: see PaymentInput
    MaxChanges      \* changes of products and methods by managers

Null == 0 - 1       \* a NULL column, an absent field

PaymentInput ==
    [method : Methods, amount : Int, received : Int, installments : Int,
     reference : Int]

ASSUME TendersAreInputs == \A sent \in Tenders : sent \in Seq(PaymentInput)
ASSUME AmountsNatural ==
    Prices \subseteq Nat /\ Quantities \subseteq Nat \ {0} /\ Discounts \subseteq Nat
ASSUME ItemsFinite == IsFiniteSet(ItemIds)

VARIABLES
    product,    \* price and is_active of each product
    method,     \* rules of each payment method, and its binding to the store
    header,     \* the row in sales
    items,      \* the rows in sale_items
    payments,   \* the rows in payments, in the order of their index
    till,       \* the checkout transaction that is running
    used,       \* item ids already given out
    changes     \* how often a manager changed something

vars == <<product, method, header, items, payments, till, used, changes>>

-----------------------------------------------------------------------------
(* Rows. *)

(* Change is for cash, installments are for credit cards: see              *)
(* PaymentMethodRules.  bound: the method is active for the store.         *)
PaymentMethod ==
    {m \in [kind : {"CASH", "PIX", "CREDIT_CARD"}, isActive : BOOLEAN, bound : BOOLEAN,
            allowsChange : BOOLEAN, maxInstallments : {1, 3}, requiresReference : BOOLEAN] :
        /\ m.allowsChange => m.kind = "CASH"
        /\ m.maxInstallments > 1 => m.kind = "CREDIT_CARD"}

NoCheckout == [pc |-> "idle", paid |-> <<>>, valid |-> <<>>]

Line(unitPrice, quantity) ==
    numericToScaledInt(multiplyMoneyQuantity(numericFromScaledInt(unitPrice, 2),
                                             numericFromScaledInt(quantity, 3)), 2)

(* Columns of the items. *)
Subtotals(rows) == [i \in DOMAIN rows |-> Line(rows[i].unitPrice, rows[i].quantity)]
Reductions(rows) == [i \in DOMAIN rows |-> rows[i].discount]
Totals(rows) == [i \in DOMAIN rows |-> rows[i].total]

(* sumSaleTotals of the items listed after the change. *)
sumSaleTotals(rows) ==
    [subtotal |-> SumFunction(Subtotals(rows)), discount |-> SumFunction(Reductions(rows)),
     total |-> SumFunction(Totals(rows))]

(* The row RecalculateSaleTotalsForStore writes. *)
RecalculatedSale(rows) ==
    LET sums == sumSaleTotals(rows)
    IN  [header EXCEPT !.subtotal = sums.subtotal, !.discount = sums.discount,
                       !.addition = 0, !.total = sums.total]

(* The CHECK constraints of sale_items and sales.  The database subtracts  *)
(* the discount before it rounds, the service afterwards.                  *)
ItemConstraints(i) ==
    /\ i.unitPrice >= 0 /\ i.quantity > 0 /\ i.discount >= 0 /\ i.total >= 0
    /\ i.discount <= DatabaseRound(numericFromScaledInt(i.unitPrice, 2),
                                   numericFromScaledInt(i.quantity, 3))
    /\ i.total = HalfAway(i.unitPrice * i.quantity - 1000 * i.discount)

SaleConstraints(h) ==
    /\ h.subtotal >= 0 /\ h.discount >= 0 /\ h.addition >= 0 /\ h.total >= 0
    /\ h.discount <= h.subtotal
    /\ h.total = h.subtotal - h.discount + h.addition

-----------------------------------------------------------------------------
(* internal/sales *)

LockOpenSale == till.pc = "idle" /\ header.status = "OPEN"

GetProductByIDForStore(p) == product[p]

(* The row CreateSaleItemForStore inserts. *)
NewItem(p, quantity, discount) ==
    LET found == GetProductByIDForStore(p)
    IN  [product |-> p, unitPrice |-> found.price, quantity |-> quantity,
         discount |-> discount, total |-> Line(found.price, quantity) - discount]

GetSaleItemByIDForStore(id) == items[id]

(* Mutant: the line is computed with the price of today. *)
ItemAtCurrentPrice(id, quantity, discount) ==
    [items[id] EXCEPT !.quantity = quantity, !.discount = discount,
                      !.total = Line(product[items[id].product].price, quantity) - discount]

(* The row UpdateSaleItemForStore leaves: the line keeps the price it was  *)
(* added with; the product is not read.                                    *)
UpdatedItem(id, quantity, discount) ==
    LET found == GetSaleItemByIDForStore(id)
    IN  [found EXCEPT !.quantity = quantity, !.discount = discount,
                      !.total = Line(found.unitPrice, quantity) - discount]

DiscountAccepted(row) == row.discount <= Line(row.unitPrice, row.quantity)

WithItem(id, row) == [i \in DOMAIN items \cup {id} |-> IF i = id THEN row ELSE items[i]]
WithoutItem(id) == [i \in DOMAIN items \ {id} |-> items[i]]

(* A row that violates a constraint rolls the transaction back, and the    *)
(* client gets an internal error.                                          *)
Storable(row, rows) == ItemConstraints(row) /\ SaleConstraints(RecalculatedSale(rows))

WriteItems(rows) == items' = rows /\ header' = RecalculatedSale(rows)

AddItem(id, p, quantity, discount) ==
    LET row == NewItem(p, quantity, discount)
    IN  /\ LockOpenSale
        /\ id \notin used
        /\ GetProductByIDForStore(p).isActive
        /\ DiscountAccepted(row)
        /\ Storable(row, WithItem(id, row))
        /\ WriteItems(WithItem(id, row))
        /\ used' = used \cup {id}
        /\ UNCHANGED <<product, method, payments, till, changes>>

UpdateItem(id, quantity, discount) ==
    LET row == UpdatedItem(id, quantity, discount)
    IN  /\ LockOpenSale
        /\ id \in DOMAIN items
        /\ DiscountAccepted(row)
        /\ Storable(row, WithItem(id, row))
        /\ WriteItems(WithItem(id, row))
        /\ UNCHANGED <<product, method, payments, till, used, changes>>

RemoveItem(id) ==
    /\ LockOpenSale
    /\ id \in DOMAIN items
    /\ SaleConstraints(RecalculatedSale(WithoutItem(id)))
    /\ WriteItems(WithoutItem(id))
    /\ UNCHANGED <<product, method, payments, till, used, changes>>

Cancel ==
    /\ LockOpenSale
    /\ header' = [header EXCEPT !.status = "CANCELLED"]
    /\ UNCHANGED <<product, method, items, payments, till, used, changes>>

-----------------------------------------------------------------------------
(* internal/checkout *)

(* Conversion of the request's integer to int16. *)
Int16(n) == ((n + 32768) % 65536) - 32768

(* Only a number that is too large is refused before the conversion. *)
normalizeCheckoutPaymentInput(input) ==
    [input EXCEPT !.installments = Int16(input.installments)]

Normalizable(input) == input.amount >= 0 /\ input.installments <= 32767

GetPaymentMethodByIDForOrganization(m) == method[m]

ReceivedAccepted(m, amount, received) ==
    \/ received = Null
    \/ IF m.allowsChange THEN received >= amount ELSE received = amount

validateReceivedAmount(m, amount, received) ==
    CASE m.allowsChange /\ received = Null -> [received |-> amount, change |-> 0]
      [] m.allowsChange /\ received # Null -> [received |-> received,
                                               change |-> received - amount]
      [] OTHER -> [received |-> received, change |-> Null]

validateInstallments(m, installments) == installments \in 1..m.maxInstallments

(* Mutant: the line is cut to cents instead of rounded. *)
validateTruncatedTotals(h, rows) ==
    \A i \in DOMAIN rows :
        rows[i].total = (rows[i].unitPrice * rows[i].quantity) \div 1000 - rows[i].discount

(* The totals once more, item by item; addition is whatever the header has. *)
validateSaleTotals(h, rows) ==
    /\ \A i \in DOMAIN rows :
          rows[i].total = Line(rows[i].unitPrice, rows[i].quantity) - rows[i].discount
    /\ h.subtotal = SumFunction(Subtotals(rows))
    /\ h.discount = SumFunction(Reductions(rows))
    /\ h.total = h.subtotal - h.discount + h.addition

sumPaymentAmounts(inputs) == SumFunction([k \in DOMAIN inputs |-> inputs[k].amount])

ValidatePayments(inputs, total) ==
    /\ inputs # <<>>
    /\ \A k \in DOMAIN inputs :
          LET m == GetPaymentMethodByIDForOrganization(inputs[k].method)
          IN  /\ m.isActive
              /\ inputs[k].amount > 0
              /\ ReceivedAccepted(m, inputs[k].amount, inputs[k].received)
              /\ validateInstallments(m, inputs[k].installments)
              /\ m.requiresReference => inputs[k].reference # Null
    /\ sumPaymentAmounts(inputs) = total

validatedCheckoutPayment(input) ==
    LET m == GetPaymentMethodByIDForOrganization(input.method)
        given == validateReceivedAmount(m, input.amount, input.received)
    IN  [method |-> input.method, amount |-> input.amount,
         received |-> given.received, change |-> given.change,
         installments |-> input.installments, reference |-> input.reference,
         status |-> "PENDING", rules |-> m]

(* Checkout up to the validated payments. *)
Checkout(sent) ==
    LET inputs == [k \in DOMAIN sent |-> normalizeCheckoutPaymentInput(sent[k])]
    IN  /\ \A k \in DOMAIN sent : Normalizable(sent[k])
        /\ LockOpenSale
        /\ DOMAIN items # {}
        /\ validateSaleTotals(header, items)
        /\ ValidatePayments(inputs, header.total)
        /\ till' = [pc |-> "paying", paid |-> <<>>,
                    valid |-> [k \in DOMAIN inputs |-> validatedCheckoutPayment(inputs[k])]]
        /\ UNCHANGED <<product, method, header, items, payments, used, changes>>

NextPayment == till.valid[Len(till.paid) + 1]

(* The rows the INSERT ... SELECT of CreatePaymentForStore would insert:   *)
(* the method and its binding to the store must be active now, whatever    *)
(* was validated before, and (method, reference) is unique.                *)
Insertable(p) ==
    /\ method[p.method].isActive
    /\ method[p.method].bound
    /\ p.reference # Null =>
          \A k \in DOMAIN till.paid :
             <<till.paid[k].method, till.paid[k].reference>> # <<p.method, p.reference>>

(* ApprovePaymentForStore: COALESCE keeps what the insert stored. *)
ApprovePaymentForStore(p, received, change) ==
    [p EXCEPT !.status = "APPROVED",
              !.received = IF received = Null THEN p.received ELSE received,
              !.change = IF change = Null THEN p.change ELSE change]

(* Mutant: a payment for which no row is inserted is skipped. *)
CreatePaymentOrSkip ==
    /\ till.pc = "paying" /\ Len(till.paid) < Len(till.valid)
    /\ till' = IF Insertable(NextPayment)
               THEN [till EXCEPT !.paid = Append(@,
                        ApprovePaymentForStore(NextPayment, NextPayment.received,
                                               NextPayment.change))]
               ELSE [till EXCEPT !.valid = Remove(@, NextPayment)]
    /\ UNCHANGED <<product, method, header, items, payments, used, changes>>

(* One round of createPayments: CreatePaymentForStore, ApprovePayment. *)
CreatePayment ==
    /\ till.pc = "paying" /\ Len(till.paid) < Len(till.valid)
    /\ Insertable(NextPayment)
    /\ till' = [till EXCEPT !.paid = Append(@,
                  ApprovePaymentForStore(NextPayment, NextPayment.received,
                                         NextPayment.change))]
    /\ UNCHANGED <<product, method, header, items, payments, used, changes>>

(* No row returned, a unique violation, or a failure: rolled back. *)
RollbackCheckout ==
    /\ till.pc = "paying"
    /\ till' = NoCheckout
    /\ UNCHANGED <<product, method, header, items, payments, used, changes>>

CompleteSaleForStore == header' = [header EXCEPT !.status = "COMPLETED"]

CommitCheckout ==
    /\ till.pc = "paying" /\ Len(till.paid) = Len(till.valid)
    /\ CompleteSaleForStore
    /\ payments' = till.paid
    /\ till' = NoCheckout
    /\ UNCHANGED <<product, method, items, used, changes>>

-----------------------------------------------------------------------------
(* What managers change meanwhile. *)

ChangeProduct(p) ==
    /\ changes < MaxChanges /\ changes' = changes + 1
    /\ \E price \in Prices, active \in BOOLEAN :
          product' = [product EXCEPT ![p] = [price |-> price, isActive |-> active]]
    /\ UNCHANGED <<method, header, items, payments, till, used>>

ChangeMethod(m) ==
    /\ changes < MaxChanges /\ changes' = changes + 1
    /\ \E rules \in PaymentMethod : method' = [method EXCEPT ![m] = rules]
    /\ UNCHANGED <<product, header, items, payments, till, used>>

-----------------------------------------------------------------------------

Fresh == [status |-> "OPEN", subtotal |-> 0, discount |-> 0, addition |-> 0,
          total |-> 0]

Init ==
    /\ product \in [Products -> [price : Prices, isActive : {TRUE}]]
    /\ method \in [Methods -> {m \in PaymentMethod : m.isActive /\ m.bound}]
    /\ header = Fresh
    /\ items = [i \in {} |-> 0]
    /\ payments = <<>>
    /\ till = NoCheckout
    /\ used = {}
    /\ changes = 0

Next ==
    \/ \E id \in ItemIds, p \in Products, q \in Quantities, d \in Discounts :
          AddItem(id, p, q, d)
    \/ \E id \in ItemIds, q \in Quantities, d \in Discounts : UpdateItem(id, q, d)
    \/ \E id \in ItemIds : RemoveItem(id)
    \/ Cancel
    \/ \E sent \in Tenders : Checkout(sent)
    \/ CreatePayment
    \/ RollbackCheckout
    \/ CommitCheckout
    \/ \E p \in Products : ChangeProduct(p)
    \/ \E m \in Methods : ChangeMethod(m)

Spec == Init /\ [][Next]_vars

-----------------------------------------------------------------------------
(* internal/receipt: four reads without a transaction; a COMPLETED sale    *)
(* does not change, so they are one.                                       *)

toReceiptResponse(h, rows, paid) ==
    [sale |-> h,
     items |-> [i \in DOMAIN rows |->
                  [subtotal |-> numericToScaledInt(
                                   receiptMultiply(numericFromScaledInt(rows[i].unitPrice, 2),
                                                   numericFromScaledInt(rows[i].quantity, 3)), 2),
                   discount |-> rows[i].discount, total |-> rows[i].total]],
     payments |-> [k \in DOMAIN paid |-> paid[k].amount]]

GetReceipt ==
    IF header.status # "COMPLETED" THEN [error |-> "ErrSaleNotCompleted"]
    ELSE toReceiptResponse(header, items, payments)

-----------------------------------------------------------------------------
(* Properties. *)

(* In every open sale, after whatever edits and changes of prices, the     *)
(* database stores what the sales service accepts, although it rounds with *)
(* arithmetic of its own, with one exception: a line of a half cent that   *)
(* the discount takes away entirely.  The service rounds it up and is left *)
(* with zero, the database rounds what is left, minus half a cent, to      *)
(* minus one cent, and the client gets an internal error.                  *)
HalfCentGivenAway(row) ==
    /\ (row.unitPrice * row.quantity) % 1000 = 500
    /\ row.discount = Line(row.unitPrice, row.quantity)

StoredUnlessGivenAway(id, row) ==
    DiscountAccepted(row) =>
        (Storable(row, WithItem(id, row)) <=> ~HalfCentGivenAway(row))

RefusedOnlyAtHalfCents ==
    LockOpenSale =>
        /\ \A id \in ItemIds \ used, p \in Products, q \in Quantities, d \in Discounts :
              StoredUnlessGivenAway(id, NewItem(p, q, d))
        /\ \A id \in DOMAIN items, q \in Quantities, d \in Discounts :
              StoredUnlessGivenAway(id, UpdatedItem(id, q, d))
        /\ \A id \in DOMAIN items : SaleConstraints(RecalculatedSale(WithoutItem(id)))

(* Checkout never refuses a sale because of totals the sales service wrote.*)
CheckoutAgreesWithSales == validateSaleTotals(header, items)

(* A completed sale has items, is paid to the cent by approved payments,   *)
(* and each one respects the rules its method had when it was validated,   *)
(* even if methods are changed or switched off while it is paid; the       *)
(* receipt printed from the rows, whatever became of product and method,   *)
(* adds up line by line and to the total.                                  *)
CompletedIsPaid ==
    header.status = "COMPLETED" =>
        /\ DOMAIN items # {}
        /\ sumPaymentAmounts(payments) = header.total
        /\ \A k \in DOMAIN payments :
              LET p == payments[k]
              IN  /\ p.status = "APPROVED"
                  /\ p.amount > 0
                  /\ p.installments \in 1..p.rules.maxInstallments
                  /\ p.received # Null /\ p.change # Null => p.received - p.change = p.amount
                  /\ p.change # Null => p.rules.allowsChange /\ p.received # Null
                  /\ p.received # Null /\ p.change = Null => p.received = p.amount
        /\ \A i \in DOMAIN GetReceipt.items :
              LET line == GetReceipt.items[i]
              IN  line.subtotal - line.discount = line.total
        /\ SumFunction(Totals(GetReceipt.items)) = GetReceipt.sale.total
        /\ SumFunction(GetReceipt.payments) = header.total
=============================================================================
