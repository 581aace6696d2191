----------------------------- MODULE ShopProofs -----------------------------
(***************************************************************************)
(* What a shop charges, takes, offers and lists: the properties of         *)
(* SaleTotals, for any prices, quantities, discounts, payments and number  *)
(* of items; the amount of a line and the texts of amounts, as the         *)
(* packages compute, show and read them; the rules of payment methods; the *)
(* properties of Catalogue, for any products, categories, requests and     *)
(* organizations, and those of Listings, for any rows, filters and page    *)
(* sizes.                                                                  *)
(***************************************************************************)
EXTENDS MCMoney, Catalogue, Listings, FiniteSetTheorems, WellFoundedInduction, TLAPS

-----------------------------------------------------------------------------
(* Sums over finite sets. *)

(* The element that a sum takes next, and the sums of all subsets of T. *)
Pick(s) == CHOOSE x \in s : TRUE
Sums(g, f, T) ==
    g = [s \in SUBSET T |-> IF s = {} THEN 0 ELSE f[Pick(s)] + g[s \ {Pick(s)}]]

(* Among some subsets of a finite set one has no other inside. *)
LEMMA SmallestSet ==
    ASSUME NEW S, IsFiniteSet(S), NEW B \in SUBSET SUBSET S, B # {}
    PROVE  \E s \in B : \A t \in SUBSET s : t \in B => t = s
<1>1. IsWellFoundedOn(StrictSubsetOrdering(S), SUBSET S)
    BY FS_FiniteSubsetsOfFinite, FS_StrictSubsetOrderingWellFounded
<1>2. PICK s \in B : \A t \in B : ~(<<t, s>> \in StrictSubsetOrdering(S))
    BY <1>1, WFMin
<1>3. ASSUME NEW t \in SUBSET s, t \in B, t # s
      PROVE  FALSE
    <2>1. <<t, s>> \in StrictSubsetOrdering(S)
        BY <1>3 DEF StrictSubsetOrdering
    <2> QED
        BY <1>2, <1>3, <2>1
<1> QED
    BY <1>3

LEMMA PickIn == ASSUME NEW s, s # {} PROVE Pick(s) \in s
BY DEF Pick

(* One step of a sum. *)
LEMMA SumAt ==
    ASSUME NEW S, NEW f, NEW g, Sums(g, f, S), NEW s \in SUBSET S
    PROVE  g[s] = IF s = {} THEN 0 ELSE f[Pick(s)] + g[s \ {Pick(s)}]
<1> DEFINE G == [t \in SUBSET S |-> IF t = {} THEN 0 ELSE f[Pick(t)] + g[t \ {Pick(t)}]]
<1>1. g = G
    BY DEF Sums
<1>2. G[s] = IF s = {} THEN 0 ELSE f[Pick(s)] + g[s \ {Pick(s)}]
    OBVIOUS
<1> HIDE DEF G
<1> QED
    BY <1>1, <1>2

(* Sums of the same elements are the same. *)
LEMMA SumsAgree ==
    ASSUME NEW S, IsFiniteSet(S), NEW f, NEW T \in SUBSET S, NEW U \in SUBSET S,
           NEW g, NEW h, Sums(g, f, T), Sums(h, f, U)
    PROVE  \A s \in SUBSET (T \cap U) : g[s] = h[s]
<1> DEFINE B == {s \in SUBSET (T \cap U) : g[s] # h[s]}
<1> SUFFICES ASSUME B # {} PROVE FALSE
    OBVIOUS
<1>1. PICK s \in B : \A t \in SUBSET s : t \in B => t = s
    <2>1. B \in SUBSET SUBSET S
        OBVIOUS
    <2> HIDE DEF B
    <2> QED
        BY <2>1, SmallestSet
<1>2. /\ g[s] = IF s = {} THEN 0 ELSE f[Pick(s)] + g[s \ {Pick(s)}]
      /\ h[s] = IF s = {} THEN 0 ELSE f[Pick(s)] + h[s \ {Pick(s)}]
    BY SumAt
<1>3. s # {} => g[s \ {Pick(s)}] = h[s \ {Pick(s)}]
    BY <1>1, PickIn
<1> QED
    BY <1>2, <1>3

(* The recursion of a sum has a solution: the smallest set without one     *)
(* would get it from the sets inside.                                      *)
LEMMA SumsExist ==
    ASSUME NEW S, IsFiniteSet(S), NEW f
    PROVE  \A T \in SUBSET S : \E g : Sums(g, f, T)
<1> DEFINE B == {T \in SUBSET S : ~\E g : Sums(g, f, T)}
<1> SUFFICES ASSUME B # {} PROVE FALSE
    OBVIOUS
<1>1. PICK T \in B : \A U \in SUBSET T : U \in B => U = T
    <2>1. B \in SUBSET SUBSET S
        OBVIOUS
    <2> HIDE DEF B
    <2> QED
        BY <2>1, SmallestSet
<1> DEFINE G(U) == CHOOSE g : Sums(g, f, U)
           H == [s \in SUBSET T |->
                    IF s = {} THEN 0 ELSE f[Pick(s)] + G(s \ {Pick(s)})[s \ {Pick(s)}]]
<1>2. \A U \in SUBSET T : U # T => Sums(G(U), f, U)
    BY <1>1
<1>3. ASSUME NEW s \in SUBSET T, s # {}
      PROVE  H[s] = f[Pick(s)] + H[s \ {Pick(s)}]
    <2> DEFINE u == s \ {Pick(s)}
    <2>1. u \in SUBSET T /\ u # T
        BY <1>3, PickIn
    <2>2. H[s] = f[Pick(s)] + G(u)[u]
        BY <1>3
    <2>3. Sums(G(u), f, u)
        BY <1>2, <2>1
    <2>4. G(u)[u] = IF u = {} THEN 0 ELSE f[Pick(u)] + G(u)[u \ {Pick(u)}]
        <3> HIDE DEF u, G
        <3> QED
            BY <2>3, SumAt
    <2>5. H[u] = IF u = {} THEN 0 ELSE f[Pick(u)] + G(u \ {Pick(u)})[u \ {Pick(u)}]
        BY <2>1
    <2>6. ASSUME u # {}
          PROVE  G(u)[u \ {Pick(u)}] = G(u \ {Pick(u)})[u \ {Pick(u)}]
        <3> DEFINE v == u \ {Pick(u)}
        <3>1. v \in SUBSET T /\ v # T /\ v \subseteq u
            BY <2>1
        <3>2. Sums(G(v), f, v)
            BY <1>2, <3>1
        <3>3. u \in SUBSET S /\ v \in SUBSET S /\ v \in SUBSET (u \cap v)
            BY <2>1, <3>1
        <3> HIDE DEF u, v, G
        <3>4. G(u)[v] = G(v)[v]
            BY <2>3, <3>2, <3>3, SumsAgree
        <3> QED
            BY <3>4 DEF v
    <2> HIDE DEF H, G, u
    <2>7. H[u] = G(u)[u]
        BY <2>4, <2>5, <2>6
    <2> QED
        BY <2>2, <2>7 DEF u
<1>4. Sums(H, f, T)
    <2> DEFINE K == [s \in SUBSET T |-> IF s = {} THEN 0 ELSE f[Pick(s)] + H[s \ {Pick(s)}]]
    <2>1. \A s \in SUBSET T : K[s] = H[s]
        <3> SUFFICES ASSUME NEW s \in SUBSET T PROVE K[s] = H[s]
            OBVIOUS
        <3>1. CASE s = {}
            BY <3>1
        <3>2. CASE s # {}
            <4>1. H[s] = f[Pick(s)] + H[s \ {Pick(s)}]
                BY <1>3, <3>2
            <4> HIDE DEF H
            <4> QED
                BY <3>2, <4>1
        <3> QED
            BY <3>1, <3>2
    <2>2. H = K
        <3>1. DOMAIN H = SUBSET T /\ DOMAIN K = SUBSET T
            OBVIOUS
        <3>2. H = [s \in SUBSET T |-> H[s]] /\ K = [s \in SUBSET T |-> K[s]]
            OBVIOUS
        <3> HIDE DEF H, K
        <3> QED
            BY <2>1, <3>2
    <2> QED
        BY <2>2 DEF Sums
<1> QED
    BY <1>1, <1>4

(* What SumFunction is. *)
LEMMA SumIs ==
    ASSUME NEW f, IsFiniteSet(DOMAIN f)
    PROVE  \E g : Sums(g, f, DOMAIN f) /\ SumFunction(f) = g[DOMAIN f]
<1> DEFINE D == DOMAIN f
           g == CHOOSE h : Sums(h, f, D)
<1>1. Sums(g, f, D)
    BY SumsExist
<1>2. SumFunction(f) = g[D]
    BY DEF SumFunction, SumFunctionOnSet, FoldFunctionOnSet, MapThenFoldSet, Sums, Pick
<1> QED
    BY <1>1, <1>2

(* A sum of natural numbers is one. *)
LEMMA SumNatural ==
    ASSUME NEW S, IsFiniteSet(S), NEW f \in [S -> Nat]
    PROVE  SumFunction(f) \in Nat
<1>1. PICK g : Sums(g, f, S) /\ SumFunction(f) = g[S]
    BY SumIs
<1> DEFINE B == {s \in SUBSET S : g[s] \notin Nat}
<1> SUFFICES ASSUME B # {} PROVE FALSE
    BY <1>1
<1>2. PICK s \in B : \A t \in SUBSET s : t \in B => t = s
    <2>1. B \in SUBSET SUBSET S
        OBVIOUS
    <2> HIDE DEF B
    <2> QED
        BY <2>1, SmallestSet
<1>3. g[s] = IF s = {} THEN 0 ELSE f[Pick(s)] + g[s \ {Pick(s)}]
    BY <1>1, SumAt
<1>4. s # {} => f[Pick(s)] \in Nat /\ g[s \ {Pick(s)}] \in Nat
    BY <1>2, PickIn
<1> QED
    BY <1>3, <1>4

(* A sum of differences is the difference of the sums. *)
LEMMA SumDifference ==
    ASSUME NEW S, IsFiniteSet(S), NEW f \in [S -> Nat], NEW g \in [S -> Nat], NEW h \in [S -> Nat],
           \A i \in S : h[i] = f[i] - g[i]
    PROVE  SumFunction(h) = SumFunction(f) - SumFunction(g)
<1>1. PICK a : Sums(a, f, S) /\ SumFunction(f) = a[S]
    BY SumIs
<1>2. PICK b : Sums(b, g, S) /\ SumFunction(g) = b[S]
    BY SumIs
<1>3. PICK c : Sums(c, h, S) /\ SumFunction(h) = c[S]
    BY SumIs
<1> DEFINE Good(s) == a[s] \in Int /\ b[s] \in Int /\ c[s] = a[s] - b[s]
           B == {s \in SUBSET S : ~Good(s)}
<1> SUFFICES ASSUME B # {} PROVE FALSE
    BY <1>1, <1>2, <1>3
<1>4. PICK s \in B : \A t \in SUBSET s : t \in B => t = s
    <2>1. B \in SUBSET SUBSET S
        OBVIOUS
    <2> HIDE DEF B
    <2> QED
        BY <2>1, SmallestSet
<1>5. /\ a[s] = IF s = {} THEN 0 ELSE f[Pick(s)] + a[s \ {Pick(s)}]
      /\ b[s] = IF s = {} THEN 0 ELSE g[Pick(s)] + b[s \ {Pick(s)}]
      /\ c[s] = IF s = {} THEN 0 ELSE h[Pick(s)] + c[s \ {Pick(s)}]
    <2>0. s \in SUBSET S
        BY <1>4
    <2> HIDE DEF B
    <2>1. a[s] = IF s = {} THEN 0 ELSE f[Pick(s)] + a[s \ {Pick(s)}]
        BY <1>1, <2>0, SumAt
    <2>2. b[s] = IF s = {} THEN 0 ELSE g[Pick(s)] + b[s \ {Pick(s)}]
        BY <1>2, <2>0, SumAt
    <2>3. c[s] = IF s = {} THEN 0 ELSE h[Pick(s)] + c[s \ {Pick(s)}]
        BY <1>3, <2>0, SumAt
    <2> QED
        BY <2>1, <2>2, <2>3
<1>6. ASSUME s # {}
      PROVE  Pick(s) \in S /\ Good(s \ {Pick(s)})
    BY <1>4, <1>6, PickIn
<1>7. CASE s = {}
    BY <1>5, <1>7
<1>8. CASE s # {}
    <2>1. Pick(s) \in S /\ Good(s \ {Pick(s)})
        BY <1>6, <1>8
    <2>2. f[Pick(s)] \in Nat /\ g[Pick(s)] \in Nat /\ h[Pick(s)] = f[Pick(s)] - g[Pick(s)]
        BY <2>1
    <2>3. Good(s)
        BY <1>5, <1>8, <2>1, <2>2
    <2> QED
        BY <2>3
<1> QED
    BY <1>7, <1>8

-----------------------------------------------------------------------------
(* Lines. *)

(* A thousandth of n, rounded half up. *)
Rounded(n) == (n + 500) \div 1000

LEMMA HalfUpRounds ==
    ASSUME NEW n \in Nat
    PROVE  HalfUp(n, 1000) = Rounded(n) /\ Rounded(n) \in Nat
BY DEF HalfUp, Rounded

LEMMA ScaledInts ==
    ASSUME NEW n \in Int, NEW scale \in Nat
    PROVE  numericToScaledInt(numericFromScaledInt(n, scale), scale) = n
BY DEF numericToScaledInt, numericFromScaledInt, pow10

LEMMA ThousandIs == pow10(3) = 1000
BY 10^3 = 1000 DEF pow10

(* sales and the constraints of the database compute one amount. *)
LEMMA LineIs ==
    ASSUME NEW price \in Nat, NEW quantity \in Nat
    PROVE  /\ Line(price, quantity) = Rounded(price * quantity)
           /\ Line(price, quantity) \in Nat
           /\ DatabaseRound(numericFromScaledInt(price, 2), numericFromScaledInt(quantity, 3))
                = Rounded(price * quantity)
           /\ numericToScaledInt(receiptMultiply(numericFromScaledInt(price, 2),
                                                 numericFromScaledInt(quantity, 3)), 2)
                = Rounded(price * quantity)
<1>0. price * quantity \in Nat
    OBVIOUS
<1>1. HalfUp(price * quantity, 1000) = Rounded(price * quantity) /\ Rounded(price * quantity) \in Nat
    BY <1>0, HalfUpRounds
<1>2. multiplyMoneyQuantity(numericFromScaledInt(price, 2), numericFromScaledInt(quantity, 3))
        = numericFromScaledInt(HalfUp(price * quantity, 1000), 2)
    BY ThousandIs DEF multiplyMoneyQuantity, roundNumeric, numericFromScaledInt
<1>3. receiptMultiply(numericFromScaledInt(price, 2), numericFromScaledInt(quantity, 3))
        = numericFromScaledInt(HalfUp(price * quantity, 1000), 2)
    BY ThousandIs DEF receiptMultiply, numericFromScaledInt
<1>4. numericToScaledInt(numericFromScaledInt(HalfUp(price * quantity, 1000), 2), 2)
        = Rounded(price * quantity)
    BY <1>1, ScaledInts
<1>5. DatabaseRound(numericFromScaledInt(price, 2), numericFromScaledInt(quantity, 3))
        = Rounded(price * quantity)
    BY <1>0, ScaledInts DEF DatabaseRound, HalfAway, Rounded
<1> QED
    BY <1>1, <1>2, <1>3, <1>4, <1>5 DEF Line

-----------------------------------------------------------------------------
(* Rows. *)

ItemRow == [product : Products, unitPrice : Nat, quantity : Nat \ {0}, discount : Nat, total : Nat]

SaleRow ==
    [status : {"OPEN", "COMPLETED", "CANCELLED"}, subtotal : Int, discount : Int, addition : Int,
     total : Int]

PaymentRow ==
    [method : Methods, amount : Int, received : Int, change : Int, installments : Int,
     reference : Int, status : {"PENDING", "APPROVED"}, rules : PaymentMethod]

(* A line was discounted by no more than it came to.                       *)
Priced(row) ==
    /\ row \in ItemRow
    /\ row.discount <= Line(row.unitPrice, row.quantity)
    /\ row.total = Line(row.unitPrice, row.quantity) - row.discount

(* Items have ids of the sale, and each line was discounted by no more     *)
(* than it came to.                                                        *)
RowsPriced(rows) ==
    /\ DOMAIN rows \subseteq ItemIds
    /\ rows \in [DOMAIN rows -> ItemRow]
    /\ \A i \in DOMAIN rows :
          LET subtotal == Line(rows[i].unitPrice, rows[i].quantity)
          IN  rows[i].discount <= subtotal /\ rows[i].total = subtotal - rows[i].discount

TypeOK ==
    /\ product \in [Products -> [price : Prices, isActive : BOOLEAN]]
    /\ method \in [Methods -> PaymentMethod]
    /\ header \in SaleRow
    /\ payments \in Seq(PaymentRow)
    /\ till \in [pc : {"idle", "paying"}, paid : Seq(PaymentRow), valid : Seq(PaymentRow)]

(* The header has the totals of the items there are. *)
HeaderFollows ==
    /\ header.subtotal = SumFunction(Subtotals(items))
    /\ header.discount = SumFunction(Reductions(items))
    /\ header.total = SumFunction(Totals(items))
    /\ header.addition = 0

(* What the rules its method had say of a payment. *)
Ruled(p) ==
    /\ p.amount > 0
    /\ p.installments \in 1..p.rules.maxInstallments
    /\ IF p.rules.allowsChange
       THEN p.received >= p.amount /\ p.change = p.received - p.amount
       ELSE p.received \in {Null, p.amount} /\ p.change = Null

(* The running checkout has approved the first of the payments that were   *)
(* validated, which together pay the total.                                *)
TillFollows ==
    till.pc = "paying" =>
        /\ header.status = "OPEN"
        /\ DOMAIN items # {}
        /\ sumPaymentAmounts(till.valid) = header.total
        /\ \A k \in 1..Len(till.valid) : Ruled(till.valid[k])
        /\ Len(till.paid) <= Len(till.valid)
        /\ \A k \in 1..Len(till.paid) : till.paid[k] = [till.valid[k] EXCEPT !.status = "APPROVED"]

(* What a completed sale was paid with. *)
Paid ==
    header.status = "COMPLETED" =>
        /\ DOMAIN items # {}
        /\ sumPaymentAmounts(payments) = header.total
        /\ \A k \in 1..Len(payments) : payments[k].status = "APPROVED" /\ Ruled(payments[k])

Inv == TypeOK /\ RowsPriced(items) /\ HeaderFollows /\ TillFollows /\ Paid

-----------------------------------------------------------------------------
(* Steps. *)

(* The columns of priced items are natural numbers, and totals are what    *)
(* discounts leave.                                                        *)
LEMMA Columns ==
    ASSUME NEW rows, RowsPriced(rows)
    PROVE  /\ IsFiniteSet(DOMAIN rows)
           /\ Subtotals(rows) \in [DOMAIN rows -> Nat]
           /\ Reductions(rows) \in [DOMAIN rows -> Nat]
           /\ Totals(rows) \in [DOMAIN rows -> Nat]
           /\ \A i \in DOMAIN rows : Totals(rows)[i] = Subtotals(rows)[i] - Reductions(rows)[i]
           /\ \A i \in DOMAIN rows : Subtotals(rows)[i] >= Reductions(rows)[i]
<1>1. IsFiniteSet(DOMAIN rows)
    BY ItemsFinite, FS_Subset DEF RowsPriced
<1>2. \A i \in DOMAIN rows : /\ rows[i].unitPrice \in Nat /\ rows[i].quantity \in Nat
                             /\ rows[i].discount \in Nat /\ rows[i].total \in Nat
    BY DEF RowsPriced, ItemRow
<1>3. \A i \in DOMAIN rows : Line(rows[i].unitPrice, rows[i].quantity) \in Nat
    BY <1>2, LineIs
<1> QED
    BY <1>1, <1>2, <1>3 DEF Subtotals, Reductions, Totals, RowsPriced

LEMMA RowSums ==
    ASSUME NEW rows, RowsPriced(rows)
    PROVE  /\ SumFunction(Subtotals(rows)) \in Nat
           /\ SumFunction(Reductions(rows)) \in Nat
           /\ SumFunction(Totals(rows)) \in Nat
           /\ SumFunction(Totals(rows)) = SumFunction(Subtotals(rows)) - SumFunction(Reductions(rows))
<1> DEFINE D == DOMAIN rows
           a == Subtotals(rows)
           b == Reductions(rows)
           c == Totals(rows)
<1>1. /\ IsFiniteSet(D) /\ a \in [D -> Nat] /\ b \in [D -> Nat] /\ c \in [D -> Nat]
      /\ \A i \in D : c[i] = a[i] - b[i]
    BY Columns
<1> HIDE DEF D, a, b, c
<1>2. SumFunction(a) \in Nat /\ SumFunction(b) \in Nat /\ SumFunction(c) \in Nat
    BY <1>1, SumNatural
<1>3. SumFunction(c) = SumFunction(a) - SumFunction(b)
    BY <1>1, SumDifference
<1> QED
    BY <1>2, <1>3 DEF a, b, c

LEMMA InitInv == Init => Inv
<1> SUFFICES ASSUME Init PROVE Inv
    OBVIOUS
<1>1. TypeOK
    <2>1. product \in [Products -> [price : Prices, isActive : BOOLEAN]]
        BY DEF Init
    <2>2. method \in [Methods -> PaymentMethod]
        <3>1. {m \in PaymentMethod : m.isActive /\ m.bound} \subseteq PaymentMethod
            OBVIOUS
        <3> QED
            BY <3>1 DEF Init
    <2>3. header \in SaleRow
        BY DEF Init, Fresh, SaleRow
    <2>4. payments \in Seq(PaymentRow)
        BY DEF Init
    <2>5. till \in [pc : {"idle", "paying"}, paid : Seq(PaymentRow), valid : Seq(PaymentRow)]
        BY DEF Init, NoCheckout
    <2> QED
        BY <2>1, <2>2, <2>3, <2>4, <2>5 DEF TypeOK
<1>2. DOMAIN items = {} /\ RowsPriced(items)
    BY DEF Init, RowsPriced
<1>3. SumFunction(Subtotals(items)) = 0 /\ SumFunction(Reductions(items)) = 0 /\ SumFunction(Totals(items)) = 0
    <2>1. \A f : DOMAIN f = {} => SumFunction(f) = 0
        <3> SUFFICES ASSUME NEW f, DOMAIN f = {} PROVE SumFunction(f) = 0
            OBVIOUS
        <3>1. IsFiniteSet({})
            BY FS_EmptySet
        <3>2. PICK g : Sums(g, f, {}) /\ SumFunction(f) = g[{}]
            BY <3>1, SumIs
        <3> QED
            BY <3>2, SumAt
    <2>2. DOMAIN Subtotals(items) = {} /\ DOMAIN Reductions(items) = {} /\ DOMAIN Totals(items) = {}
        BY <1>2 DEF Subtotals, Reductions, Totals
    <2> QED
        BY <2>1, <2>2
<1>4. HeaderFollows
    BY <1>3 DEF Init, Fresh, HeaderFollows
<1> QED
    BY <1>1, <1>2, <1>4 DEF Inv, Init, TillFollows, Paid, Fresh, NoCheckout

(* A sale whose items changed has their totals in its header. *)
LEMMA Recalculated ==
    ASSUME Inv, LockOpenSale, RowsPriced(items'), header' = RecalculatedSale(items'),
           UNCHANGED <<product, method, payments, till>>
    PROVE  Inv'
<1> DEFINE sums == sumSaleTotals(items')
           a == SumFunction(Subtotals(items'))
           b == SumFunction(Reductions(items'))
           c == SumFunction(Totals(items'))
           none == 0
<1>1. a \in Nat /\ b \in Nat /\ c \in Nat
    BY RowSums
<1>2. header' = [header EXCEPT !.subtotal = a, !.discount = b, !.addition = none, !.total = c]
    BY DEF RecalculatedSale, sumSaleTotals
<1>3. a = SumFunction(Subtotals(items))' /\ b = SumFunction(Reductions(items))' /\ c = SumFunction(Totals(items))'
    BY DEF Subtotals, Reductions, Totals
<1> HIDE DEF a, b, c, sums
<1>4. header' \in SaleRow /\ header'.status = "OPEN"
      /\ header'.subtotal = a /\ header'.discount = b /\ header'.addition = 0 /\ header'.total = c
    <2>1. header \in SaleRow /\ header.status = "OPEN"
        BY DEF Inv, TypeOK, LockOpenSale
    <2>2. a \in Int /\ b \in Int /\ c \in Int /\ none \in Int
        BY <1>1
    <2> HIDE DEF none
    <2>3. header' \in SaleRow /\ header'.status = "OPEN"
          /\ header'.subtotal = a /\ header'.discount = b /\ header'.addition = none /\ header'.total = c
        <3> DEFINE half == [header EXCEPT !.subtotal = a, !.discount = b]
        <3>1. half \in SaleRow
            BY <2>1, <2>2 DEF SaleRow
        <3>2. header' = [half EXCEPT !.addition = none, !.total = c]
            BY <1>2
        <3>3. /\ header'.status = header.status /\ header'.subtotal = a /\ header'.discount = b
              /\ header'.addition = none /\ header'.total = c
            BY <1>2, <2>1 DEF SaleRow
        <3> HIDE DEF half
        <3>4. [half EXCEPT !.addition = none, !.total = c] \in SaleRow
            BY <2>2, <3>1 DEF SaleRow
        <3> QED
            BY <2>1, <3>2, <3>3, <3>4
    <2> QED
        BY <2>3 DEF none
<1>5. TypeOK'
    BY <1>4 DEF Inv, TypeOK
<1>6. HeaderFollows'
    BY <1>3, <1>4 DEF HeaderFollows
<1>7. TillFollows' /\ Paid'
    BY <1>4 DEF LockOpenSale, TillFollows, Paid
<1> QED
    BY <1>5, <1>6, <1>7 DEF Inv, RowsPriced

(* What the service accepts is a priced line, of any open sale it is put   *)
(* into.                                                                   *)
LEMMA NewItemPriced ==
    ASSUME Inv, NEW p \in Products, NEW q \in Quantities, NEW d \in Discounts,
           DiscountAccepted(NewItem(p, q, d))
    PROVE  Priced(NewItem(p, q, d))
<1> DEFINE price == product[p].price
           line == Line(price, q)
           row == NewItem(p, q, d)
<1>1. price \in Nat /\ q \in Nat \ {0} /\ d \in Nat
    BY AmountsNatural DEF Inv, TypeOK
<1>2. line \in Nat
    BY <1>1, LineIs
<1>3. row = [product |-> p, unitPrice |-> price, quantity |-> q, discount |-> d, total |-> line - d]
    BY DEF NewItem, GetProductByIDForStore
<1>4. Line(row.unitPrice, row.quantity) = line
    BY <1>3
<1>5. d <= line
    BY <1>3, <1>4 DEF DiscountAccepted
<1> HIDE DEF line, price, row
<1>6. row \in ItemRow
    BY <1>1, <1>2, <1>3, <1>5 DEF ItemRow
<1> QED
    BY <1>3, <1>4, <1>5, <1>6 DEF Priced, row

LEMMA UpdatedItemPriced ==
    ASSUME Inv, NEW id \in DOMAIN items, NEW q \in Quantities, NEW d \in Discounts,
           DiscountAccepted(UpdatedItem(id, q, d))
    PROVE  Priced(UpdatedItem(id, q, d))
<1> DEFINE price == items[id].unitPrice
           line == Line(price, q)
           total == line - d
           row == UpdatedItem(id, q, d)
<1>1. items[id] \in ItemRow
    BY DEF Inv, RowsPriced
<1>2. price \in Nat /\ q \in Nat \ {0} /\ d \in Nat
    BY <1>1, AmountsNatural DEF ItemRow
<1>3. line \in Nat
    BY <1>2, LineIs
<1>4. row = [items[id] EXCEPT !.quantity = q, !.discount = d, !.total = total]
    BY DEF UpdatedItem, GetSaleItemByIDForStore
<1> HIDE DEF total, row
<1>5. row.unitPrice = price /\ row.quantity = q /\ row.discount = d /\ row.total = total
    BY <1>1, <1>4 DEF ItemRow
<1>6. d <= line
    BY <1>5 DEF DiscountAccepted, row
<1> HIDE DEF line
<1>7. total \in Nat
    BY <1>2, <1>3, <1>6 DEF total
<1>8. row \in ItemRow
    BY <1>1, <1>2, <1>4, <1>7 DEF ItemRow
<1> QED
    BY <1>5, <1>6, <1>8 DEF Priced, row, line, total

(* Putting a priced line into the items, or taking a line away.            *)
LEMMA WithItemPriced ==
    ASSUME Inv, NEW id \in ItemIds, NEW row, Priced(row)
    PROVE  RowsPriced(WithItem(id, row))
<1> DEFINE rows == WithItem(id, row)
<1>1. DOMAIN rows = DOMAIN items \cup {id} /\ \A i \in DOMAIN rows : rows[i] = IF i = id THEN row ELSE items[i]
    BY DEF WithItem
<1>2. row \in ItemRow
    BY DEF Priced
<1>3. rows \in [DOMAIN rows -> ItemRow]
    BY <1>2 DEF Inv, RowsPriced, WithItem
<1> HIDE DEF rows
<1>4. ASSUME NEW i \in DOMAIN rows
      PROVE  Priced(rows[i])
    BY <1>1 DEF Inv, RowsPriced, Priced
<1> QED
    BY <1>1, <1>3, <1>4 DEF Inv, RowsPriced, Priced, rows

LEMMA WithoutItemPriced ==
    ASSUME Inv, NEW id
    PROVE  RowsPriced(WithoutItem(id))
<1> DEFINE rows == WithoutItem(id)
<1>1. DOMAIN rows = DOMAIN items \ {id} /\ \A i \in DOMAIN rows : rows[i] = items[i]
    BY DEF WithoutItem
<1>2. rows \in [DOMAIN rows -> ItemRow]
    BY DEF Inv, RowsPriced, WithoutItem
<1> HIDE DEF rows
<1> QED
    BY <1>1, <1>2 DEF Inv, RowsPriced, rows

LEMMA AddItemStep ==
    ASSUME Inv, NEW id \in ItemIds, NEW p \in Products, NEW q \in Quantities, NEW d \in Discounts,
           AddItem(id, p, q, d)
    PROVE  Inv'
<1>1. /\ LockOpenSale /\ DiscountAccepted(NewItem(p, q, d))
      /\ items' = WithItem(id, NewItem(p, q, d)) /\ header' = RecalculatedSale(items')
      /\ UNCHANGED <<product, method, payments, till>>
    BY DEF AddItem, WriteItems
<1>2. RowsPriced(items')
    BY <1>1, NewItemPriced, WithItemPriced
<1> QED
    BY <1>1, <1>2, Recalculated

LEMMA UpdateItemStep ==
    ASSUME Inv, NEW id \in ItemIds, NEW q \in Quantities, NEW d \in Discounts,
           UpdateItem(id, q, d)
    PROVE  Inv'
<1>1. /\ LockOpenSale /\ id \in DOMAIN items /\ DiscountAccepted(UpdatedItem(id, q, d))
      /\ items' = WithItem(id, UpdatedItem(id, q, d)) /\ header' = RecalculatedSale(items')
      /\ UNCHANGED <<product, method, payments, till>>
    BY DEF UpdateItem, WriteItems
<1>2. RowsPriced(items')
    BY <1>1, UpdatedItemPriced, WithItemPriced
<1> QED
    BY <1>1, <1>2, Recalculated

LEMMA RemoveItemStep ==
    ASSUME Inv, NEW id \in ItemIds, RemoveItem(id)
    PROVE  Inv'
<1>1. /\ LockOpenSale
      /\ items' = WithoutItem(id) /\ header' = RecalculatedSale(items')
      /\ UNCHANGED <<product, method, payments, till>>
    BY DEF RemoveItem, WriteItems
<1>2. RowsPriced(items')
    BY <1>1, WithoutItemPriced
<1> QED
    BY <1>1, <1>2, Recalculated

LEMMA CancelStep == ASSUME Inv, Cancel PROVE Inv'
<1>1. header' \in SaleRow /\ header' = [header EXCEPT !.status = "CANCELLED"] /\ header'.status = "CANCELLED"
      /\ header'.subtotal = header.subtotal /\ header'.discount = header.discount
      /\ header'.addition = header.addition /\ header'.total = header.total
    BY DEF Cancel, Inv, TypeOK, SaleRow
<1>2. TypeOK'
    BY <1>1 DEF Cancel, Inv, TypeOK
<1>3. HeaderFollows' /\ RowsPriced(items')
    BY <1>1 DEF Cancel, Inv, HeaderFollows
<1>4. TillFollows' /\ Paid'
    BY <1>1 DEF Cancel, LockOpenSale, TillFollows, Paid
<1> QED
    BY <1>2, <1>3, <1>4 DEF Inv

(* The conversion of a request's number gives an integer.                  *)
LEMMA Int16Int == ASSUME NEW n \in Int PROVE Int16(n) \in Int
BY DEF Int16

(* A payment that is validated obeys the rules of its method.              *)
LEMMA ValidatedRuled ==
    ASSUME Inv, NEW input \in PaymentInput, input.amount > 0,
           ReceivedAccepted(method[input.method], input.amount, input.received),
           validateInstallments(method[input.method], input.installments)
    PROVE  /\ validatedCheckoutPayment(input) \in PaymentRow
           /\ Ruled(validatedCheckoutPayment(input))
           /\ validatedCheckoutPayment(input).amount = input.amount
<1> DEFINE m == method[input.method]
           given == validateReceivedAmount(m, input.amount, input.received)
<1>1. m \in PaymentMethod
    BY DEF Inv, TypeOK, PaymentInput
<1>2. m.allowsChange \in BOOLEAN /\ m.maxInstallments \in {1, 3}
    BY <1>1 DEF PaymentMethod
<1>3. /\ input.method \in Methods /\ input.amount \in Int /\ input.received \in Int
      /\ input.installments \in Int /\ input.reference \in Int
    BY DEF PaymentInput
<1>4. /\ given.received \in Int /\ given.change \in Int
      /\ IF m.allowsChange
         THEN given.received >= input.amount /\ given.change = given.received - input.amount
         ELSE given.received \in {Null, input.amount} /\ given.change = Null
    <2>1. CASE m.allowsChange /\ input.received = Null
        <3>1. given = [received |-> input.amount, change |-> 0]
            BY <2>1 DEF validateReceivedAmount
        <3> QED
            BY <1>3, <2>1, <3>1
    <2>2. CASE m.allowsChange /\ input.received # Null
        <3>1. given = [received |-> input.received, change |-> input.received - input.amount]
            BY <2>2 DEF validateReceivedAmount
        <3>2. input.received >= input.amount
            BY <2>2 DEF ReceivedAccepted
        <3> QED
            BY <1>3, <2>2, <3>1, <3>2
    <2>3. CASE ~m.allowsChange
        <3>1. given = [received |-> input.received, change |-> Null]
            BY <2>3 DEF validateReceivedAmount
        <3>2. input.received \in {Null, input.amount}
            BY <2>3 DEF ReceivedAccepted
        <3> QED
            BY <1>3, <2>3, <3>1, <3>2 DEF Null
    <2> QED
        BY <1>2, <2>1, <2>2, <2>3
<1>5. validatedCheckoutPayment(input) =
        [method |-> input.method, amount |-> input.amount, received |-> given.received,
         change |-> given.change, installments |-> input.installments,
         reference |-> input.reference, status |-> "PENDING", rules |-> m]
    BY DEF validatedCheckoutPayment, GetPaymentMethodByIDForOrganization
<1>6. input.installments \in 1..m.maxInstallments
    BY DEF validateInstallments
<1> HIDE DEF m, given
<1>7. validatedCheckoutPayment(input) \in PaymentRow
    BY <1>1, <1>3, <1>4, <1>5 DEF PaymentRow
<1> QED
    BY <1>4, <1>5, <1>6, <1>7 DEF Ruled

(* Checkout writes nothing but the validated payments, which come to the   *)
(* total.                                                                  *)
LEMMA CheckoutStep ==
    ASSUME Inv, NEW sent \in Tenders, Checkout(sent)
    PROVE  Inv'
<1> DEFINE inputs == [k \in DOMAIN sent |-> normalizeCheckoutPaymentInput(sent[k])]
           valid == [k \in DOMAIN inputs |-> validatedCheckoutPayment(inputs[k])]
<1>1. PICK n \in Nat : DOMAIN sent = 1..n /\ \A k \in 1..n : sent[k] \in PaymentInput
    BY TendersAreInputs
<1>2. \A k \in 1..n : inputs[k] \in PaymentInput
    <2> SUFFICES ASSUME NEW k \in 1..n
                 PROVE  inputs[k] \in PaymentInput
        OBVIOUS
    <2>1. sent[k] \in PaymentInput
        BY <1>1
    <2>2. Int16(sent[k].installments) \in Int
        BY <2>1, Int16Int DEF PaymentInput
    <2>3. inputs[k] = [sent[k] EXCEPT !.installments = Int16(sent[k].installments)]
        BY <1>1 DEF normalizeCheckoutPaymentInput
    <2> QED
        BY <2>1, <2>2, <2>3 DEF PaymentInput
<1>3. /\ LockOpenSale /\ DOMAIN items # {}
      /\ ValidatePayments(inputs, header.total)
      /\ till' = [pc |-> "paying", paid |-> <<>>, valid |-> valid]
      /\ UNCHANGED <<product, method, header, items, payments>>
    BY DEF Checkout
<1>4. DOMAIN inputs = 1..n /\ DOMAIN valid = 1..n /\ \A k \in 1..n : valid[k] = validatedCheckoutPayment(inputs[k])
    BY <1>1
<1> HIDE DEF inputs
<1>5. \A k \in 1..n : valid[k] \in PaymentRow /\ Ruled(valid[k]) /\ valid[k].amount = inputs[k].amount
    <2> SUFFICES ASSUME NEW k \in 1..n
                 PROVE  valid[k] \in PaymentRow /\ Ruled(valid[k]) /\ valid[k].amount = inputs[k].amount
        OBVIOUS
    <2>1. /\ inputs[k].amount > 0
          /\ ReceivedAccepted(method[inputs[k].method], inputs[k].amount, inputs[k].received)
          /\ validateInstallments(method[inputs[k].method], inputs[k].installments)
        BY <1>3, <1>4 DEF ValidatePayments, GetPaymentMethodByIDForOrganization
    <2> HIDE DEF valid
    <2> QED
        BY <1>2, <1>4, <2>1, ValidatedRuled
<1>6. valid \in Seq(PaymentRow) /\ Len(valid) = n
    <2>1. valid \in [1..n -> PaymentRow]
        BY <1>4, <1>5
    <2> HIDE DEF valid
    <2> QED
        BY <1>4, <2>1
<1>7. sumPaymentAmounts(valid) = header.total
    <2> HIDE DEF valid
    <2>1. [k \in DOMAIN valid |-> valid[k].amount] = [k \in DOMAIN inputs |-> inputs[k].amount]
        BY <1>4, <1>5
    <2>2. sumPaymentAmounts(valid) = sumPaymentAmounts(inputs)
        BY <2>1 DEF sumPaymentAmounts
    <2> QED
        BY <1>3, <2>2 DEF ValidatePayments
<1> HIDE DEF valid
<1>8. till'.pc = "paying" /\ till'.paid = <<>> /\ till'.valid = valid
      /\ till' \in [pc : {"idle", "paying"}, paid : Seq(PaymentRow), valid : Seq(PaymentRow)]
    BY <1>3, <1>6
<1>9. TypeOK'
    BY <1>3, <1>8 DEF Inv, TypeOK
<1>10. TillFollows'
    BY <1>3, <1>5, <1>6, <1>7, <1>8 DEF TillFollows, LockOpenSale, sumPaymentAmounts
<1>11. HeaderFollows' /\ RowsPriced(items')
    BY <1>3 DEF Inv, HeaderFollows
<1>12. Paid'
    BY <1>3 DEF Paid, LockOpenSale
<1> QED
    BY <1>9, <1>10, <1>11, <1>12 DEF Inv

LEMMA CreatePaymentStep == ASSUME Inv, CreatePayment PROVE Inv'
<1> DEFINE n == Len(till.paid)
           p == till.valid[n + 1]
           approved == [p EXCEPT !.status = "APPROVED"]
<1>1. /\ till \in [pc : {"idle", "paying"}, paid : Seq(PaymentRow), valid : Seq(PaymentRow)]
      /\ till.pc = "paying" /\ n < Len(till.valid) /\ n \in Nat /\ Len(till.valid) \in Nat
    BY DEF CreatePayment, Inv, TypeOK
<1>2. p \in PaymentRow
    BY <1>1
<1>3. ApprovePaymentForStore(p, p.received, p.change) = approved /\ approved \in PaymentRow
    <2> HIDE DEF p
    <2>1. p = [p EXCEPT !.received = p.received, !.change = p.change]
        BY <1>2 DEF PaymentRow
    <2> QED
        BY <1>2, <2>1 DEF ApprovePaymentForStore, PaymentRow
<1>4. till' = [till EXCEPT !.paid = Append(till.paid, approved)]
    BY <1>3 DEF CreatePayment, NextPayment
<1> HIDE DEF approved
<1>5. /\ till'.pc = "paying" /\ till'.valid = till.valid /\ till'.paid = Append(till.paid, approved)
      /\ till' \in [pc : {"idle", "paying"}, paid : Seq(PaymentRow), valid : Seq(PaymentRow)]
    <2>1. Append(till.paid, approved) \in Seq(PaymentRow)
        BY <1>1, <1>3
    <2> QED
        BY <1>1, <1>4, <2>1
<1>6. /\ Len(till'.paid) = n + 1
      /\ \A k \in 1..n : till'.paid[k] = till.paid[k]
      /\ till'.paid[n + 1] = approved
    BY <1>1, <1>3, <1>5
<1>7. TypeOK'
    BY <1>5 DEF CreatePayment, Inv, TypeOK
<1>8. TillFollows'
    <2>1. /\ \A k \in 1..n : till.paid[k] = [till.valid[k] EXCEPT !.status = "APPROVED"]
          /\ header.status = "OPEN" /\ DOMAIN items # {} /\ sumPaymentAmounts(till.valid) = header.total
          /\ \A k \in 1..Len(till.valid) : Ruled(till.valid[k])
        BY <1>1 DEF Inv, TillFollows
    <2>2. \A k \in 1..(n + 1) : k \in 1..n \/ k = n + 1
        BY <1>1
    <2>3. \A k \in 1..(n + 1) : till'.paid[k] = [till.valid[k] EXCEPT !.status = "APPROVED"]
        BY <1>6, <2>1, <2>2 DEF approved
    <2>4. n + 1 <= Len(till.valid)
        BY <1>1
    <2> QED
        BY <1>5, <1>6, <2>1, <2>3, <2>4 DEF TillFollows, CreatePayment, sumPaymentAmounts
<1>9. HeaderFollows' /\ RowsPriced(items') /\ Paid'
    BY DEF CreatePayment, Inv, HeaderFollows, Paid, sumPaymentAmounts
<1> QED
    BY <1>7, <1>8, <1>9 DEF Inv

LEMMA RollbackStep == ASSUME Inv, RollbackCheckout PROVE Inv'
<1>1. till' = [pc |-> "idle", paid |-> <<>>, valid |-> <<>>]
    BY DEF RollbackCheckout, NoCheckout
<1>2. till' \in [pc : {"idle", "paying"}, paid : Seq(PaymentRow), valid : Seq(PaymentRow)] /\ till'.pc = "idle"
    BY <1>1
<1>3. TypeOK'
    BY <1>2 DEF RollbackCheckout, Inv, TypeOK
<1> QED
    BY <1>2, <1>3 DEF RollbackCheckout, Inv, HeaderFollows, TillFollows, Paid, sumPaymentAmounts

(* The sale is completed with all payments approved.                       *)
LEMMA CommitStep == ASSUME Inv, CommitCheckout PROVE Inv'
<1> DEFINE n == Len(till.valid)
<1>1. /\ till.paid \in Seq(PaymentRow) /\ till.valid \in Seq(PaymentRow) /\ n \in Nat
      /\ till.pc = "paying" /\ Len(till.paid) = n
    BY DEF CommitCheckout, Inv, TypeOK
<1>2. /\ \A k \in 1..n : till.paid[k] = [till.valid[k] EXCEPT !.status = "APPROVED"]
      /\ DOMAIN items # {} /\ sumPaymentAmounts(till.valid) = header.total
      /\ \A k \in 1..n : Ruled(till.valid[k])
    BY <1>1 DEF Inv, TillFollows
<1>3. \A k \in 1..n : /\ till.paid[k].status = "APPROVED" /\ Ruled(till.paid[k])
                      /\ till.paid[k].amount = till.valid[k].amount
    <2> SUFFICES ASSUME NEW k \in 1..n
                 PROVE  /\ till.paid[k].status = "APPROVED" /\ Ruled(till.paid[k])
                        /\ till.paid[k].amount = till.valid[k].amount
        OBVIOUS
    <2>1. till.valid[k] \in PaymentRow
        BY <1>1
    <2>2. till.paid[k] = [till.valid[k] EXCEPT !.status = "APPROVED"] /\ Ruled(till.valid[k])
        BY <1>2
    <2> QED
        BY <2>1, <2>2 DEF PaymentRow, Ruled
<1>4. sumPaymentAmounts(till.paid) = header.total
    <2>1. DOMAIN till.paid = 1..n /\ DOMAIN till.valid = 1..n
        BY <1>1
    <2>2. [k \in DOMAIN till.paid |-> till.paid[k].amount] = [k \in DOMAIN till.valid |-> till.valid[k].amount]
        BY <1>3, <2>1
    <2> QED
        BY <1>2, <2>2 DEF sumPaymentAmounts
<1>5. header' \in SaleRow /\ header'.status = "COMPLETED"
      /\ header'.subtotal = header.subtotal /\ header'.discount = header.discount
      /\ header'.addition = header.addition /\ header'.total = header.total
    BY DEF CommitCheckout, CompleteSaleForStore, Inv, TypeOK, SaleRow
<1>6. payments' = till.paid /\ UNCHANGED <<product, method, items>>
    BY DEF CommitCheckout
<1>7. till' \in [pc : {"idle", "paying"}, paid : Seq(PaymentRow), valid : Seq(PaymentRow)] /\ till'.pc = "idle"
    BY DEF CommitCheckout, NoCheckout
<1>8. TypeOK'
    BY <1>1, <1>5, <1>6, <1>7 DEF Inv, TypeOK
<1>9. HeaderFollows' /\ RowsPriced(items')
    BY <1>5, <1>6 DEF Inv, HeaderFollows
<1>10. TillFollows'
    BY <1>7 DEF TillFollows
<1>11. Paid'
    <2>1. sumPaymentAmounts(payments)' = sumPaymentAmounts(till.paid)
        BY <1>6 DEF sumPaymentAmounts
    <2> QED
        BY <1>1, <1>2, <1>3, <1>4, <1>5, <1>6, <2>1 DEF Paid
<1> QED
    BY <1>8, <1>9, <1>10, <1>11 DEF Inv

LEMMA ChangeProductStep == ASSUME Inv, NEW p \in Products, ChangeProduct(p) PROVE Inv'
<1>1. product' \in [Products -> [price : Prices, isActive : BOOLEAN]]
    BY DEF ChangeProduct, Inv, TypeOK
<1>2. TypeOK'
    BY <1>1 DEF ChangeProduct, Inv, TypeOK
<1> QED
    BY <1>2 DEF ChangeProduct, Inv, HeaderFollows, TillFollows, Paid, sumPaymentAmounts

LEMMA ChangeMethodStep == ASSUME Inv, NEW m \in Methods, ChangeMethod(m) PROVE Inv'
<1>1. method' \in [Methods -> PaymentMethod]
    BY DEF ChangeMethod, Inv, TypeOK
<1>2. TypeOK'
    BY <1>1 DEF ChangeMethod, Inv, TypeOK
<1> QED
    BY <1>2 DEF ChangeMethod, Inv, HeaderFollows, TillFollows, Paid, sumPaymentAmounts

LEMMA StepInv == Inv /\ [Next]_vars => Inv'
<1> SUFFICES ASSUME Inv, [Next]_vars PROVE Inv'
    OBVIOUS
<1>1. ASSUME NEW id \in ItemIds, NEW p \in Products, NEW q \in Quantities, NEW d \in Discounts,
             AddItem(id, p, q, d)
      PROVE  Inv'
    BY <1>1, AddItemStep
<1>2. ASSUME NEW id \in ItemIds, NEW q \in Quantities, NEW d \in Discounts, UpdateItem(id, q, d)
      PROVE  Inv'
    BY <1>2, UpdateItemStep
<1>3. ASSUME NEW id \in ItemIds, RemoveItem(id) PROVE Inv'
    BY <1>3, RemoveItemStep
<1>4. CASE Cancel
    BY <1>4, CancelStep
<1>5. ASSUME NEW sent \in Tenders, Checkout(sent) PROVE Inv'
    BY <1>5, CheckoutStep
<1>6. CASE CreatePayment
    BY <1>6, CreatePaymentStep
<1>7. CASE RollbackCheckout
    BY <1>7, RollbackStep
<1>8. CASE CommitCheckout
    BY <1>8, CommitStep
<1>9. ASSUME NEW p \in Products, ChangeProduct(p) PROVE Inv'
    BY <1>9, ChangeProductStep
<1>10. ASSUME NEW m \in Methods, ChangeMethod(m) PROVE Inv'
    BY <1>10, ChangeMethodStep
<1>11. CASE UNCHANGED vars
    BY <1>11 DEF vars, Inv, TypeOK, HeaderFollows, TillFollows, Paid, sumPaymentAmounts
<1> QED
    BY <1>1, <1>2, <1>3, <1>4, <1>5, <1>6, <1>7, <1>8, <1>9, <1>10, <1>11 DEF Next

(* However items are added, changed and removed and however a checkout     *)
(* ends, the rows have their types, every line and the header are what the *)
(* sales service computes, a running checkout holds payments that come to  *)
(* the total and obey their rules, and a completed sale was paid by such.  *)
THEOREM RowsCorrect == Spec => []Inv
<1> QED
    BY InitInv, StepInv, PTL DEF Spec

-----------------------------------------------------------------------------
(* What follows. *)

(* The database subtracts before it rounds, the service afterwards: the    *)
(* two differ exactly when half a cent was rounded up and then taken away. *)
LEMMA RoundedLess ==
    ASSUME NEW n \in Nat, NEW d \in Nat, d <= Rounded(n)
    PROVE  HalfAway(n - 1000 * d) = Rounded(n) - d <=> ~(n % 1000 = 500 /\ d = Rounded(n))
<1>1. PICK k \in Nat, r \in 0..999 : n = 1000 * k + r
    <2> DEFINE k == n \div 1000
               r == n % 1000
    <2>1. r \in 0..999
        OBVIOUS
    <2>2. k \in Nat
        OBVIOUS
    <2>3. n = 1000 * k + r
        OBVIOUS
    <2> HIDE DEF k, r
    <2> QED
        BY <2>1, <2>2, <2>3
<1>2. n % 1000 = r
    BY <1>1
<1>3. Rounded(n) = IF r < 500 THEN k ELSE k + 1
    BY <1>1 DEF Rounded
<1>4. CASE n - 1000 * d >= 0
    <2>1. HalfAway(n - 1000 * d) = (n - 1000 * d + 500) \div 1000
        BY <1>4 DEF HalfAway
    <2>2. HalfAway(n - 1000 * d) = Rounded(n) - d
        BY <2>1 DEF Rounded
    <2>3. d <= k
        BY <1>1, <1>4
    <2> QED
        BY <1>2, <1>3, <2>2, <2>3
<1>5. CASE n - 1000 * d < 0
    <2>1. d = k + 1 /\ r >= 500
        BY <1>1, <1>3, <1>5
    <2>2. HalfAway(n - 1000 * d) = 0 - ((1500 - r) \div 1000)
        BY <1>1, <1>5, <2>1 DEF HalfAway
    <2>3. (1500 - r) \div 1000 = IF r = 500 THEN 1 ELSE 0
        BY <2>1
    <2> QED
        BY <1>2, <1>3, <2>1, <2>2, <2>3
<1> QED
    BY <1>4, <1>5

(* What the constraints of sale_items say of a line the service accepts.   *)
LEMMA PricedConstraints ==
    ASSUME NEW row, Priced(row)
    PROVE  ItemConstraints(row) <=> ~HalfCentGivenAway(row)
<1> DEFINE price == row.unitPrice
           quantity == row.quantity
           discount == row.discount
           total == row.total
<1>1. price \in Nat /\ quantity \in Nat \ {0} /\ discount \in Nat /\ total \in Nat
    BY DEF Priced, ItemRow
<1>2. discount <= Line(price, quantity) /\ total = Line(price, quantity) - discount
    BY DEF Priced
<1>3. /\ ItemConstraints(row) <=>
            /\ price >= 0 /\ quantity > 0 /\ discount >= 0 /\ total >= 0
            /\ discount <= DatabaseRound(numericFromScaledInt(price, 2), numericFromScaledInt(quantity, 3))
            /\ total = HalfAway(price * quantity - 1000 * discount)
      /\ HalfCentGivenAway(row) <=>
            (price * quantity) % 1000 = 500 /\ discount = Line(price, quantity)
    BY DEF ItemConstraints, HalfCentGivenAway
<1> HIDE DEF price, quantity, discount, total
<1>4. price * quantity \in Nat
    BY <1>1
<1>5. /\ Line(price, quantity) = Rounded(price * quantity)
      /\ DatabaseRound(numericFromScaledInt(price, 2), numericFromScaledInt(quantity, 3))
           = Rounded(price * quantity)
    BY <1>1, LineIs
<1>6. HalfAway(price * quantity - 1000 * discount) = Rounded(price * quantity) - discount
        <=> ~((price * quantity) % 1000 = 500 /\ discount = Rounded(price * quantity))
    BY <1>1, <1>2, <1>4, <1>5, RoundedLess
<1>7. price >= 0 /\ quantity > 0 /\ discount >= 0 /\ total >= 0
    BY <1>1
<1> QED
    BY <1>2, <1>3, <1>5, <1>6, <1>7

(* The constraints of sales never refuse totals of priced lines.           *)
LEMMA RecalculatedConstraints ==
    ASSUME Inv, NEW rows, RowsPriced(rows)
    PROVE  SaleConstraints(RecalculatedSale(rows))
<1> DEFINE a == SumFunction(Subtotals(rows))
           b == SumFunction(Reductions(rows))
           c == SumFunction(Totals(rows))
           h == RecalculatedSale(rows)
<1>1. a \in Nat /\ b \in Nat /\ c \in Nat /\ c = a - b
    BY RowSums
<1>2. h = [header EXCEPT !.subtotal = a, !.discount = b, !.addition = 0, !.total = c]
    BY DEF RecalculatedSale, sumSaleTotals
<1> HIDE DEF a, b, c, h
<1>3. h.subtotal = a /\ h.discount = b /\ h.addition = 0 /\ h.total = c
    BY <1>2 DEF Inv, TypeOK, SaleRow
<1> QED
    BY <1>1, <1>3 DEF SaleConstraints, h

LEMMA InvRefused == ASSUME Inv PROVE RefusedOnlyAtHalfCents
<1>1. ASSUME NEW id \in ItemIds, NEW row, DiscountAccepted(row) => Priced(row)
      PROVE  StoredUnlessGivenAway(id, row)
    BY <1>1, PricedConstraints, WithItemPriced, RecalculatedConstraints
    DEF StoredUnlessGivenAway, Storable
<1>2. ASSUME NEW id \in ItemIds \ used, NEW p \in Products, NEW q \in Quantities, NEW d \in Discounts
      PROVE  StoredUnlessGivenAway(id, NewItem(p, q, d))
    BY <1>1, NewItemPriced
<1>3. ASSUME NEW id \in DOMAIN items, NEW q \in Quantities, NEW d \in Discounts
      PROVE  StoredUnlessGivenAway(id, UpdatedItem(id, q, d))
    <2>1. id \in ItemIds
        BY DEF Inv, RowsPriced
    <2> QED
        BY <2>1, <1>1, UpdatedItemPriced
<1>4. ASSUME NEW id \in DOMAIN items
      PROVE  SaleConstraints(RecalculatedSale(WithoutItem(id)))
    BY WithoutItemPriced, RecalculatedConstraints
<1> QED
    BY <1>2, <1>3, <1>4 DEF RefusedOnlyAtHalfCents

(* Whatever edits and changes of prices went before, the CHECK constraints *)
(* of sale_items and sales refuse a write that the sales service accepted  *)
(* exactly if it discounts a line of a half cent entirely, for any natural *)
(* prices and discounts and positive quantities.                           *)
THEOREM DatabaseRefusesOnlyHalfCents == Spec => []RefusedOnlyAtHalfCents
<1>1. Inv => RefusedOnlyAtHalfCents
    BY InvRefused
<1> QED
    BY <1>1, RowsCorrect, PTL

LEMMA InvAgrees == ASSUME Inv PROVE CheckoutAgreesWithSales
<1>1. /\ SumFunction(Subtotals(items)) \in Nat
      /\ SumFunction(Reductions(items)) \in Nat
      /\ SumFunction(Totals(items)) = SumFunction(Subtotals(items)) - SumFunction(Reductions(items))
    BY RowSums DEF Inv
<1>2. header.total = header.subtotal - header.discount + header.addition
    BY <1>1 DEF Inv, HeaderFollows
<1> QED
    BY <1>2 DEF CheckoutAgreesWithSales, validateSaleTotals, Inv, HeaderFollows, RowsPriced

(* Checkout, computing every line and every total again, never finds a     *)
(* difference from what the sales service wrote.                           *)
THEOREM CheckoutFindsNoDifference == Spec => []CheckoutAgreesWithSales
<1>1. Inv => CheckoutAgreesWithSales
    BY InvAgrees
<1> QED
    BY <1>1, RowsCorrect, PTL

(* What the property says of one payment. *)
Settles(p) ==
    /\ p.amount > 0
    /\ p.installments \in 1..p.rules.maxInstallments
    /\ p.received # Null /\ p.change # Null => p.received - p.change = p.amount
    /\ p.change # Null => p.rules.allowsChange /\ p.received # Null
    /\ p.received # Null /\ p.change = Null => p.received = p.amount

LEMMA RuledSettles == ASSUME NEW p \in PaymentRow, Ruled(p) PROVE Settles(p)
<1>1. p.amount \in Int /\ p.received \in Int /\ p.change \in Int
    BY DEF PaymentRow
<1>2. CASE p.rules.allowsChange
    <2>1. p.received >= p.amount /\ p.change = p.received - p.amount /\ p.amount > 0
        BY <1>2 DEF Ruled
    <2>2. p.received # Null /\ p.received - p.change = p.amount
        BY <1>1, <2>1 DEF Null
    <2>3. p.change # Null
        BY <1>1, <2>1 DEF Null
    <2> QED
        BY <1>2, <2>2, <2>3 DEF Ruled, Settles
<1>3. CASE ~p.rules.allowsChange
    <2>1. p.received \in {Null, p.amount} /\ p.change = Null
        BY <1>3 DEF Ruled
    <2> QED
        BY <2>1 DEF Ruled, Settles
<1> QED
    BY <1>2, <1>3

LEMMA InvPaid == ASSUME Inv PROVE CompletedIsPaid
<1> SUFFICES ASSUME header.status = "COMPLETED" PROVE CompletedIsPaid
    BY DEF CompletedIsPaid
<1> DEFINE printed == toReceiptResponse(header, items, payments)
           lines == printed.items
<1>1. GetReceipt = printed /\ printed.sale = header
    BY DEF GetReceipt, toReceiptResponse
<1>2. /\ DOMAIN items # {} /\ sumPaymentAmounts(payments) = header.total
      /\ \A k \in 1..Len(payments) : payments[k].status = "APPROVED" /\ Ruled(payments[k])
      /\ payments \in Seq(PaymentRow) /\ DOMAIN payments = 1..Len(payments)
    BY DEF Inv, Paid, TypeOK
<1>3. ASSUME NEW k \in DOMAIN payments
      PROVE  payments[k].status = "APPROVED" /\ Settles(payments[k])
    <2>1. payments[k].status = "APPROVED" /\ Ruled(payments[k]) /\ payments[k] \in PaymentRow
        BY <1>2, <1>3
    <2> QED
        BY <2>1, RuledSettles
<1>4. DOMAIN lines = DOMAIN items
    BY DEF toReceiptResponse
<1>5. ASSUME NEW i \in DOMAIN items
      PROVE  lines[i].subtotal - lines[i].discount = lines[i].total /\ lines[i].total = items[i].total
    <2>1. items[i].unitPrice \in Nat /\ items[i].quantity \in Nat
        BY <1>5 DEF Inv, RowsPriced, ItemRow
    <2>2. lines[i].subtotal = Line(items[i].unitPrice, items[i].quantity)
          /\ lines[i].discount = items[i].discount /\ lines[i].total = items[i].total
        BY <1>5, <2>1, LineIs DEF toReceiptResponse
    <2> HIDE DEF lines
    <2> QED
        BY <1>5, <2>2 DEF Inv, RowsPriced
<1>6. printed.payments = [k \in DOMAIN payments |-> payments[k].amount]
    BY DEF toReceiptResponse
<1> HIDE DEF printed
<1>7. Totals(lines) = Totals(items)
    BY <1>4, <1>5 DEF Totals
<1>8. SumFunction(Totals(lines)) = header.total
    BY <1>7 DEF Inv, HeaderFollows
<1>9. SumFunction(printed.payments) = header.total
    BY <1>2, <1>6 DEF sumPaymentAmounts
<1> QED
    BY <1>1, <1>2, <1>3, <1>4, <1>5, <1>8, <1>9 DEF CompletedIsPaid, Settles

(* A completed sale is paid to the cent by approved payments that obey the *)
(* rules their methods had, and its receipt adds up, whatever managers do  *)
(* to methods and products while it is paid and afterwards.                *)
THEOREM CompletedSalesPaid == Spec => []CompletedIsPaid
<1>1. Inv => CompletedIsPaid
    BY InvPaid
<1> QED
    BY <1>1, RowsCorrect, PTL

-----------------------------------------------------------------------------
(* Products and quotients of naturals. *)

LEMMA TimesMonotonic ==
    ASSUME NEW a \in Nat, NEW b \in Nat, a <= b, NEW c \in Nat
    PROVE  a * c <= b * c /\ a * c \in Nat
<1>1. (b - a) * c >= 0 /\ a * c >= 0
    OBVIOUS
<1>2. (b - a) * c = b * c - a * c
    OBVIOUS
<1>3. a * c \in Int /\ b * c \in Int
    OBVIOUS
<1> QED
    BY <1>1, <1>2, <1>3

LEMMA DivisionUnique ==
    ASSUME NEW d \in Nat \ {0}, NEW q \in Nat, NEW r \in 0..d - 1
    PROVE  (q * d + r) \div d = q /\ (q * d + r) % d = r
<1> DEFINE x == q * d + r
           p == x \div d
           s == x % d
<1>1. d \in Nat /\ d > 0 /\ q * d \in Nat /\ x \in Nat
    BY TimesMonotonic
<1>2. p \in Nat /\ s \in 0..d - 1 /\ x = p * d + s /\ p * d \in Nat
    <2> HIDE DEF x
    <2>1. x \div d \in Int /\ x % d \in 0..d - 1 /\ x = d * (x \div d) + (x % d)
        BY <1>1
    <2>2. x \div d >= 0
        BY <1>1
    <2>3. d * (x \div d) = (x \div d) * d
        BY <2>1
    <2> QED
        BY <1>1, <2>1, <2>2, <2>3, TimesMonotonic
<1>3. x = q * d + r
    OBVIOUS
<1> HIDE DEF x, p, s
<1>4. CASE p < q
    <2>1. (p + 1) * d <= q * d /\ (p + 1) * d = p * d + d
        BY <1>1, <1>2, <1>4, TimesMonotonic
    <2> QED
        BY <1>1, <1>2, <1>3, <2>1
<1>5. CASE q < p
    <2>1. (q + 1) * d <= p * d /\ (q + 1) * d = q * d + d
        BY <1>1, <1>2, <1>5, TimesMonotonic
    <2> QED
        BY <1>1, <1>2, <1>3, <2>1
<1>6. CASE p = q
    BY <1>1, <1>2, <1>3, <1>6 DEF p, s, x
<1> QED
    BY <1>2, <1>4, <1>5, <1>6

(* Rounding does not depend on the scale. *)
LEMMA HalfUpScaled ==
    ASSUME NEW a \in Nat, NEW b \in Nat \ {0}, NEW c \in Nat \ {0}
    PROVE  HalfUp(a * c, b * c) = HalfUp(a, b)
<1> DEFINE q == a \div b
           r == a % b
<1>1. q \in Nat /\ r \in 0..b - 1 /\ a = q * b + r
    <2>1. a \div b \in Int /\ a % b \in 0..b - 1 /\ a = b * (a \div b) + (a % b)
        OBVIOUS
    <2>2. a \div b >= 0
        OBVIOUS
    <2>3. b * (a \div b) = (a \div b) * b
        BY <2>1
    <2> QED
        BY <2>1, <2>2, <2>3
<1> HIDE DEF q, r
<1>2. r * c \in Nat /\ b * c \in Nat /\ b - 1 \in Nat /\ (b - 1) * c \in Nat /\ (2 * r) * c \in Nat
    BY <1>1, TimesMonotonic
<1>3. (b - 1) * c = b * c - c /\ (2 * r) * c = 2 * (r * c)
    BY <1>1
<1>4. r * c <= (b - 1) * c
    BY <1>1, <1>2, TimesMonotonic
<1>5. b * c \in Nat \ {0} /\ r * c \in 0..b * c - 1
    BY <1>2, <1>3, <1>4
<1>6. a * c = q * (b * c) + r * c
    <2>1. (q * b + r) * c = q * (b * c) + r * c
        BY <1>1
    <2> QED
        BY <1>1, <2>1
<1>7. (a * c) \div (b * c) = q /\ (a * c) % (b * c) = r * c
    <2> DEFINE d == b * c
               s == r * c
    <2>1. d \in Nat \ {0} /\ s \in 0..d - 1
        BY <1>5
    <2> HIDE DEF d, s
    <2>2. (q * d + s) \div d = q /\ (q * d + s) % d = s
        BY <1>1, <2>1, DivisionUnique
    <2> QED
        BY <1>6, <2>2 DEF d, s
<1>8. 2 * (r * c) >= b * c <=> 2 * r >= b
    <2>1. CASE 2 * r >= b
        <3>1. b * c <= (2 * r) * c
            BY <1>1, <2>1, TimesMonotonic
        <3> QED
            BY <1>3, <2>1, <3>1
    <2>2. CASE ~(2 * r >= b)
        <3>1. 2 * r <= b - 1 /\ 2 * r \in Nat
            BY <1>1, <2>2
        <3>2. (2 * r) * c <= (b - 1) * c
            BY <1>2, <3>1, TimesMonotonic
        <3> QED
            BY <1>2, <1>3, <2>2, <3>2
    <2> QED
        BY <2>1, <2>2
<1> QED
    BY <1>7, <1>8 DEF HalfUp, q, r

(* Powers of ten, as far as the exponents of amounts go. *)
TenExponents == 0..11

LEMMA TenTo ==
    /\ 10^0 = 1 /\ 10^1 = 10 /\ 10^2 = 100 /\ 10^3 = 1000 /\ 10^4 = 10000 /\ 10^5 = 100000
    /\ 10^6 = 1000000 /\ 10^7 = 10000000 /\ 10^8 = 100000000 /\ 10^9 = 1000000000
    /\ 10^10 = 10000000000 /\ 10^11 = 100000000000
OBVIOUS

LEMMA TermsTenExponents ==
    ASSUME NEW a \in Nat, NEW b \in Nat, a + b <= 11
    PROVE  a \in TenExponents /\ b \in TenExponents
BY DEF TenExponents

LEMMA TenNatural ==
    ASSUME NEW n \in TenExponents
    PROVE  10^n \in Nat \ {0}
<1>0. CASE n = 0
    BY <1>0, TenTo
<1>1. CASE n = 1
    BY <1>1, TenTo
<1>2. CASE n = 2
    BY <1>2, TenTo
<1>3. CASE n = 3
    BY <1>3, TenTo
<1>4. CASE n = 4
    BY <1>4, TenTo
<1>5. CASE n = 5
    BY <1>5, TenTo
<1>6. CASE n = 6
    BY <1>6, TenTo
<1>7. CASE n = 7
    BY <1>7, TenTo
<1>8. CASE n = 8
    BY <1>8, TenTo
<1>9. CASE n = 9
    BY <1>9, TenTo
<1>10. CASE n = 10
    BY <1>10, TenTo
<1>11. CASE n = 11
    BY <1>11, TenTo
<1> QED
    BY <1>0, <1>1, <1>2, <1>3, <1>4, <1>5, <1>6, <1>7, <1>8, <1>9, <1>10, <1>11 DEF TenExponents

LEMMA TenNext ==
    ASSUME NEW n \in 0..10
    PROVE  10^(n + 1) = 10 * 10^n
<1>0. CASE n = 0
    BY <1>0, TenTo
<1>1. CASE n = 1
    BY <1>1, TenTo
<1>2. CASE n = 2
    BY <1>2, TenTo
<1>3. CASE n = 3
    BY <1>3, TenTo
<1>4. CASE n = 4
    BY <1>4, TenTo
<1>5. CASE n = 5
    BY <1>5, TenTo
<1>6. CASE n = 6
    BY <1>6, TenTo
<1>7. CASE n = 7
    BY <1>7, TenTo
<1>8. CASE n = 8
    BY <1>8, TenTo
<1>9. CASE n = 9
    BY <1>9, TenTo
<1>10. CASE n = 10
    BY <1>10, TenTo
<1> QED
    BY <1>0, <1>1, <1>2, <1>3, <1>4, <1>5, <1>6, <1>7, <1>8, <1>9, <1>10

LEMMA TenSum ==
    ASSUME NEW a \in Nat, NEW b \in Nat, a + b \in TenExponents
    PROVE  10^(a + b) = 10^a * 10^b
<1> DEFINE P(n) == n + b \in TenExponents => 10^(n + b) = 10^n * 10^b
<1>0. b \in TenExponents /\ a \in 0..11
    BY DEF TenExponents
<1>1. P(0)
    <2>1. 10^b \in Nat /\ 10^0 = 1 /\ 0 + b = b
        BY <1>0, TenNatural, TenTo
    <2> QED
        BY <2>1
<1>2. ASSUME NEW n \in 0..10, P(n)
      PROVE  P(n + 1)
    <2> SUFFICES ASSUME n + 1 + b \in TenExponents
                 PROVE  10^(n + 1 + b) = 10^(n + 1) * 10^b
        OBVIOUS
    <2>0. n \in TenExponents /\ n + b \in TenExponents /\ n + b \in 0..10 /\ n + 1 + b = (n + b) + 1
        BY DEF TenExponents
    <2>1. 10^(n + 1) = 10 * 10^n /\ 10^n \in Nat /\ 10^b \in Nat
        BY <1>0, <2>0, TenNext, TenNatural
    <2>2. 10^((n + b) + 1) = 10 * 10^(n + b)
        BY <2>0, TenNext
    <2>3. 10^(n + b) = 10^n * 10^b
        BY <1>2, <2>0
    <2>4. 10 * (10^n * 10^b) = (10 * 10^n) * 10^b
        BY <2>1
    <2> QED
        BY <2>0, <2>1, <2>2, <2>3, <2>4
<1> HIDE DEF P
<1>3. P(0) /\ P(1) /\ P(2) /\ P(3) /\ P(4) /\ P(5) /\ P(6) /\ P(7) /\ P(8) /\ P(9) /\ P(10) /\ P(11)
    <2>1. P(1) BY <1>1, <1>2
    <2>2. P(2) BY <2>1, <1>2
    <2>3. P(3) BY <2>2, <1>2
    <2>4. P(4) BY <2>3, <1>2
    <2>5. P(5) BY <2>4, <1>2
    <2>6. P(6) BY <2>5, <1>2
    <2>7. P(7) BY <2>6, <1>2
    <2>8. P(8) BY <2>7, <1>2
    <2>9. P(9) BY <2>8, <1>2
    <2>10. P(10) BY <2>9, <1>2
    <2>11. P(11) BY <2>10, <1>2
    <2> QED BY <1>1, <2>1, <2>2, <2>3, <2>4, <2>5, <2>6, <2>7, <2>8, <2>9, <2>10, <2>11
<1>4. a = 0 \/ a = 1 \/ a = 2 \/ a = 3 \/ a = 4 \/ a = 5 \/ a = 6 \/ a = 7 \/ a = 8 \/ a = 9 \/ a = 10 \/ a = 11
    BY <1>0
<1>5. P(a)
    BY <1>3, <1>4
<1> QED
    BY <1>5 DEF P
-----------------------------------------------------------------------------
(* A line of a sale, with the Numerics that the driver delivers. *)

Numeric == [int : Nat, exp : Int]

Up(x) == IF x > 0 THEN x ELSE 0

(* v is n / 10^scale. *)
Delivered(v, n, scale) == v.int * 10^Up(v.exp + scale) = n * 10^Up(0 - scale - v.exp)

LEMMA UpValue ==
    ASSUME NEW x \in Int
    PROVE  Up(x) \in Nat /\ (x >= 0 => Up(x) = x) /\ (x <= 0 => Up(x) = 0)
BY DEF Up

LEMMA PowerUp ==
    ASSUME NEW x \in Int
    PROVE  pow10(x) = 10^Up(x)
<1>1. CASE x <= 0
    <2>1. pow10(x) = 1
        BY <1>1 DEF pow10
    <2>2. Up(x) = 0
        BY <1>1, UpValue
    <2> QED
        BY <2>1, <2>2, TenTo
<1>2. CASE x > 0
    BY <1>2, UpValue DEF pow10
<1> QED
    BY <1>1, <1>2

LEMMA HalfUpOne == ASSUME NEW n \in Nat PROVE HalfUp(n, 1) = n
<1>1. n \div 1 = n /\ n % 1 = 0
    OBVIOUS
<1> QED
    BY <1>1 DEF HalfUp

(* Every package gets back the number of the column. *)
LEMMA ColumnRead ==
    ASSUME NEW v \in Numeric, NEW n \in Nat, NEW scale \in 0..3, Delivered(v, n, scale),
           v.exp + scale <= 11, 0 - scale - v.exp <= 11
    PROVE  numericToScaledInt(v, scale) = n
<1>1. v.int \in Nat /\ v.exp \in Int
    BY DEF Numeric
<1>2. CASE v.exp >= 0 - scale
    <2>1. Up(0 - scale - v.exp) = 0 /\ v.exp + scale \in Int
        BY <1>1, <1>2, UpValue
    <2>2. v.int * pow10(v.exp + scale) = n
        <3>1. v.int * 10^Up(v.exp + scale) = n * 10^0
            BY <2>1 DEF Delivered
        <3>2. n * 10^0 = n
            BY TenTo
        <3> QED
            BY <2>1, <3>1, <3>2, PowerUp
    <2> QED
        BY <1>2, <2>2 DEF numericToScaledInt
<1>3. CASE ~(v.exp >= 0 - scale)
    <2> DEFINE d == 0 - scale - v.exp
    <2>1. Up(v.exp + scale) = 0 /\ Up(d) = d /\ d \in TenExponents
        BY <1>1, <1>3, UpValue DEF TenExponents
    <2>2. v.int = n * 10^d
        <3>1. v.int * 10^0 = n * 10^d
            BY <2>1 DEF Delivered
        <3>2. v.int * 10^0 = v.int
            BY <1>1, TenTo
        <3> QED
            BY <3>1, <3>2
    <2>3. pow10(d) = 10^d
        <3> d \in Int
            BY <1>1
        <3> HIDE DEF d
        <3> QED
            BY <2>1, PowerUp
    <2>4. 10^d \in Nat \ {0}
        BY <2>1, TenNatural
    <2>5. HalfUp(n * 10^d, 1 * 10^d) = HalfUp(n, 1)
        <3> HIDE DEF d
        <3> QED
            BY <2>4, HalfUpScaled
    <2>6. 1 * 10^d = 10^d
        BY <2>4
    <2>7. numericToScaledInt(v, scale) = HalfUp(v.int, pow10(d))
        BY <1>3 DEF numericToScaledInt
    <2> QED
        BY <2>2, <2>3, <2>5, <2>6, <2>7, HalfUpOne
<1> QED
    BY <1>2, <1>3

(* whole * 10^e is exact / 10^5. *)
Placed(whole, e, exact, up, down) ==
    /\ up \in 0..11 /\ down \in 0..8
    /\ whole * 10^up = exact * 10^down /\ e = up - down - 5

(* The product is rounded once, wherever its point is. *)
LEMMA ProductRounded ==
    ASSUME NEW whole \in Nat, NEW exact \in Nat, NEW up, NEW down,
           NEW e \in Int, Placed(whole, e, exact, up, down)
    PROVE  roundNumeric(whole, e, 2) = numericFromScaledInt(HalfUp(exact, 1000), 2)
<1> up \in 0..11 /\ down \in 0..8 /\ whole * 10^up = exact * 10^down /\ e = up - down - 5
    BY DEF Placed
<1>1. up \in TenExponents /\ down \in TenExponents /\ down + 3 \in TenExponents
      /\ up \in Nat /\ down \in Nat
    BY DEF TenExponents
<1>2. 10^up \in Nat \ {0} /\ 10^down \in Nat \ {0}
    BY <1>1, TenNatural
<1>3. 10^(down + 3) = 10^down * 1000 /\ 10^(down + 3) \in Nat \ {0}
    <2>1. 10^(down + 3) = 10^down * 10^3
        BY <1>1, TenSum
    <2> QED
        BY <1>1, <2>1, TenTo, TenNatural
<1>4. HalfUp(exact * 10^down, 10^(down + 3)) = HalfUp(exact, 1000)
    <2>1. HalfUp(exact * 10^down, 1000 * 10^down) = HalfUp(exact, 1000)
        BY <1>2, HalfUpScaled
    <2> QED
        BY <1>2, <1>3, <2>1
<1>5. CASE e >= 0 - 2
    <2> DEFINE k == up - down - 3
    <2>1. k \in Nat /\ k \in TenExponents /\ k + (down + 3) = up /\ e + 2 = k
        BY <1>5 DEF TenExponents
    <2> HIDE DEF k
    <2>2. 10^up = 10^k * 10^(down + 3) /\ 10^k \in Nat
        <3>1. 10^(k + (down + 3)) = 10^k * 10^(down + 3)
            BY <1>1, <2>1, TenSum
        <3> QED
            BY <2>1, <3>1, TenNatural
    <2>3. whole * 10^k \in Nat
        BY <2>2, TimesMonotonic
    <2>4. exact * 10^down = (whole * 10^k) * 10^(down + 3)
        BY <1>3, <2>2
    <2>5. HalfUp((whole * 10^k) * 10^(down + 3), 1 * 10^(down + 3)) = HalfUp(whole * 10^k, 1)
        BY <1>3, <2>3, HalfUpScaled
    <2>6. 1 * 10^(down + 3) = 10^(down + 3)
        BY <1>3
    <2>7. HalfUp(exact, 1000) = whole * 10^k
        BY <1>4, <2>3, <2>4, <2>5, <2>6, HalfUpOne
    <2>8. pow10(e + 2) = 10^k
        BY <2>1, PowerUp, UpValue
    <2>9. roundNumeric(whole, e, 2) = numericFromScaledInt(whole * pow10(e + 2), 2)
        BY <1>5 DEF roundNumeric
    <2> QED
        BY <2>7, <2>8, <2>9
<1>6. CASE ~(e >= 0 - 2)
    <2> DEFINE d == 0 - 2 - e
    <2>1. d \in Nat /\ d \in TenExponents /\ d + up = down + 3
        BY <1>6 DEF TenExponents
    <2>2. roundNumeric(whole, e, 2) = numericFromScaledInt(HalfUp(whole, pow10(d)), 2)
        BY <1>6 DEF roundNumeric
    <2> HIDE DEF d
    <2>3. 10^(down + 3) = 10^d * 10^up /\ 10^d \in Nat \ {0}
        <3>1. 10^(d + up) = 10^d * 10^up
            BY <1>1, <2>1, TenSum
        <3> QED
            BY <2>1, <3>1, TenNatural
    <2>4. HalfUp(whole * 10^up, 10^d * 10^up) = HalfUp(whole, 10^d)
        BY <1>2, <2>3, HalfUpScaled
    <2>5. pow10(d) = 10^d
        BY <2>1, PowerUp, UpValue
    <2> QED
        BY <1>4, <2>2, <2>3, <2>4, <2>5
<1> QED
    BY <1>5, <1>6

LEMMA UpDown ==
    ASSUME NEW a \in Nat, NEW b \in Nat, NEW c \in Nat, NEW d \in Nat, NEW x \in Int, NEW y \in Int,
           a - c = x, b - d = y, a + b <= 11, c + d <= 8
    PROVE  a + b \in 0..11 /\ c + d \in 0..8 /\ x + y = (a + b) - (c + d)
OBVIOUS

(* sales, checkout, receipt and the CHECK constraint compute the same      *)
(* cents for a line, from any price and quantity and whatever exponents    *)
(* the driver delivers, as long as the powers of ten that come up fit into *)
(* 10^11; the cents are the nearest, a half going up.                      *)
THEOREM LinesAgree ==
    ASSUME NEW price \in Numeric, NEW quantity \in Numeric,
           NEW cents \in Nat, NEW thousandths \in Nat,
           Delivered(price, cents, 2), Delivered(quantity, thousandths, 3),
           Up(price.exp + 2) + Up(quantity.exp + 3) <= 11,
           Up(0 - 2 - price.exp) + Up(0 - 3 - quantity.exp) <= 8
    PROVE  LET line == DatabaseRound(price, quantity)
               exact == cents * thousandths
               inSales == multiplyMoneyQuantity(price, quantity)
           IN  /\ numericToScaledInt(inSales, 2) = line
               /\ compareMoney(inSales, checkoutMultiply(price, quantity)) = 0
               /\ compareMoney(inSales, receiptMultiply(price, quantity)) = 0
               /\ 2 * (1000 * line - exact) <= 1000
               /\ 2 * (exact - 1000 * line) < 1000
<1> DEFINE exact == cents * thousandths
           cut == HalfUp(exact, 1000)
           x == price.exp + 2
           y == quantity.exp + 3
<1>1. /\ price.int \in Nat /\ quantity.int \in Nat /\ price.exp \in Int /\ quantity.exp \in Int
      /\ exact \in Nat /\ price.int * quantity.int \in Nat
    BY TimesMonotonic DEF Numeric
<1>2. numericToScaledInt(price, 2) = cents /\ numericToScaledInt(quantity, 3) = thousandths
    <2>1. x <= 11 /\ y <= 11 /\ 0 - 2 - price.exp <= 11 /\ 0 - 3 - quantity.exp <= 11
        BY <1>1, UpValue
    <2> QED
        BY <2>1, ColumnRead
<1>3. /\ 0 - 2 - price.exp = 0 - x /\ 0 - 3 - quantity.exp = 0 - y
      /\ x \in Int /\ y \in Int /\ price.exp + quantity.exp = x + y - 5
    BY <1>1
<1> DEFINE up == Up(x) + Up(y)
           down == Up(0 - x) + Up(0 - y)
<1>4. /\ up \in 0..11 /\ down \in 0..8 /\ x + y = up - down
      /\ Up(x) \in Nat /\ Up(y) \in Nat /\ Up(0 - x) \in Nat /\ Up(0 - y) \in Nat
    <2>1. /\ Up(x) \in Nat /\ Up(y) \in Nat /\ Up(0 - x) \in Nat /\ Up(0 - y) \in Nat
          /\ Up(x) - Up(0 - x) = x /\ Up(y) - Up(0 - y) = y
        <3> HIDE DEF x, y
        <3>1. ASSUME NEW z \in Int
              PROVE  Up(z) \in Nat /\ Up(0 - z) \in Nat /\ Up(z) - Up(0 - z) = z
            BY DEF Up
        <3> QED
            BY <1>3, <3>1
    <2>2. up <= 11 /\ down <= 8
        BY <1>3
    <2> HIDE DEF x, y
    <2> QED
        BY <1>3, <2>1, <2>2, UpDown
<1>5. (price.int * quantity.int) * 10^up = exact * 10^down
    <2>1. 10^up = 10^Up(x) * 10^Up(y) /\ 10^down = 10^Up(0 - x) * 10^Up(0 - y)
        <3> HIDE DEF x, y
        <3>1. up \in TenExponents /\ down \in TenExponents
            BY <1>4 DEF TenExponents
        <3> QED
            BY <1>4, <3>1, TenSum
    <2>2. price.int * 10^Up(x) = cents * 10^Up(0 - x)
        BY <1>3 DEF Delivered
    <2>3. quantity.int * 10^Up(y) = thousandths * 10^Up(0 - y)
        BY <1>3 DEF Delivered
    <2>4. Up(x) \in TenExponents /\ Up(y) \in TenExponents
          /\ Up(0 - x) \in TenExponents /\ Up(0 - y) \in TenExponents
        <3>1. Up(x) + Up(y) <= 11 /\ Up(0 - x) + Up(0 - y) <= 11
            <4>1. up <= 11 /\ down <= 11
                <5> HIDE DEF up, down
                <5> QED
                    BY <1>4
            <4> QED
                BY <4>1
        <3> HIDE DEF x, y
        <3> QED
            BY <1>4, <3>1, TermsTenExponents
    <2>5. /\ 10^Up(x) \in Nat /\ 10^Up(y) \in Nat /\ 10^Up(0 - x) \in Nat /\ 10^Up(0 - y) \in Nat
        BY <2>4, TenNatural
    <2>6. ASSUME NEW a \in Nat, NEW b \in Nat, NEW c \in Nat, NEW d \in Nat
          PROVE  (a * b) * (c * d) = (a * c) * (b * d)
        OBVIOUS
    <2> HIDE DEF x, y, up, down
    <2>7. (price.int * quantity.int) * (10^Up(x) * 10^Up(y))
          = (price.int * 10^Up(x)) * (quantity.int * 10^Up(y))
        BY <1>1, <2>5, <2>6
    <2>8. (cents * thousandths) * (10^Up(0 - x) * 10^Up(0 - y))
          = (cents * 10^Up(0 - x)) * (thousandths * 10^Up(0 - y))
        BY <2>5, <2>6
    <2> QED
        BY <2>1, <2>2, <2>3, <2>7, <2>8
<1>6. roundNumeric(price.int * quantity.int, price.exp + quantity.exp, 2)
      = numericFromScaledInt(cut, 2)
    <2>1. price.exp + quantity.exp = up - down - 5
        <3> HIDE DEF x, y, up, down
        <3> QED
            BY <1>3, <1>4
    <2> HIDE DEF up, down, exact, x, y
    <2> DEFINE both == price.int * quantity.int
               e == price.exp + quantity.exp
    <2>2. both \in Nat /\ exact \in Nat
        BY <1>1
    <2>3. up \in 0..11 /\ down \in 0..8
        BY <1>4
    <2>4. e \in Int /\ Placed(both, e, exact, up, down)
        BY <1>1, <1>5, <2>1, <2>3 DEF Placed
    <2> HIDE DEF both, e
    <2>5. roundNumeric(both, e, 2) = numericFromScaledInt(HalfUp(exact, 1000), 2)
        BY <2>2, <2>4, ProductRounded
    <2> QED
        BY <2>5 DEF both, e
<1>7. multiplyMoneyQuantity(price, quantity) = numericFromScaledInt(cut, 2)
    BY <1>6 DEF multiplyMoneyQuantity
<1>8. receiptMultiply(price, quantity) = numericFromScaledInt(cut, 2)
    BY <1>6 DEF receiptMultiply, roundNumeric
<1>9. checkoutMultiply(price, quantity) = numericFromScaledInt(cut, 2)
    <2>1. pow10(0 - 2 - (0 - 5)) = 1000
        BY TenTo DEF pow10
    <2>2. ~(0 - 5 >= 0 - 2)
        OBVIOUS
    <2> QED
        BY <1>2, <2>1, <2>2 DEF checkoutMultiply, roundNumeric
<1>10. DatabaseRound(price, quantity) = cut
    <2>1. DatabaseRound(price, quantity) = HalfAway(exact)
        BY <1>2 DEF DatabaseRound
    <2> HIDE DEF exact
    <2>2. HalfAway(exact) = HalfUp(exact, 1000)
        BY <1>1 DEF HalfUp, HalfAway
    <2> QED
        BY <2>1, <2>2
<1>11. cut \in Int /\ 2 * (1000 * cut - exact) <= 1000 /\ 2 * (exact - 1000 * cut) < 1000
    <2> HIDE DEF exact
    <2> QED
        BY <1>1 DEF HalfUp
<1>12. numericToScaledInt(numericFromScaledInt(cut, 2), 2) = cut
    <2>1. 0 - 2 >= 0 - 2 /\ pow10(0 - 2 + 2) = 1
        BY DEF pow10
    <2> HIDE DEF cut
    <2> QED
        BY <1>11, <2>1 DEF numericToScaledInt, numericFromScaledInt
<1> HIDE DEF cut, exact
<1>13. cut - cut = 0
    BY <1>11
<1> QED
    BY <1>7, <1>8, <1>9, <1>10, <1>11, <1>12, <1>13 DEF compareMoney, exact

-----------------------------------------------------------------------------
(* Numbers and digits. *)

LEMMA SmallestNumber ==
    ASSUME NEW B \in SUBSET Nat, B # {}
    PROVE  \E m \in B : \A n \in B : m <= n
<1>1. PICK m \in B : \A n \in B : ~(<<n, m>> \in OpToRel(<, Nat))
    BY NatLessThanWellFounded, WFMin
<1>2. ASSUME NEW n \in B, n < m
      PROVE  FALSE
    <2>1. <<n, m>> \in OpToRel(<, Nat)
        BY <1>2 DEF OpToRel
    <2> QED
        BY <1>1, <2>1
<1> QED
    BY <1>2

(* A bounded set of numbers has a greatest one. *)
LEMMA GreatestNumber ==
    ASSUME NEW S \in SUBSET Nat, S # {}, NEW bound \in Nat, \A x \in S : x <= bound
    PROVE  Max(S) \in S /\ \A x \in S : x <= Max(S)
<1> DEFINE B == {b \in Nat : \A x \in S : x <= b}
<1>1. PICK m \in B : \A n \in B : m <= n
    <2>1. B \in SUBSET Nat /\ B # {}
        OBVIOUS
    <2> HIDE DEF B
    <2> QED
        BY <2>1, SmallestNumber
<1>2. m \in S
    <2> SUFFICES ASSUME m \notin S PROVE FALSE
        OBVIOUS
    <2>1. PICK x : x \in S
        OBVIOUS
    <2>2. \A y \in S : y < m
        OBVIOUS
    <2>3. m - 1 \in B
        BY <2>1, <2>2
    <2> QED
        BY <1>1, <2>3
<1>3. \E x \in S : \A y \in S : x >= y
    BY <1>2
<1> QED
    BY <1>3 DEF Max

(* A sequence that is read digit by digit. *)
Read(g, f, s) == IF s = {} THEN 0 ELSE 10 * g[s \ {Max(s)}] + f[Max(s)]
IsReading(g, f, n) == g = [s \in SUBSET (1..n) |-> Read(g, f, s)]

(* Max picks the greatest element.                                         *)
LEMMA MaxIn ==
    ASSUME NEW n \in Nat, NEW s \in SUBSET (1..n), s # {}
    PROVE  Max(s) \in s /\ \A x \in s : x <= Max(s)
BY GreatestNumber

LEMMA ReadAt ==
    ASSUME NEW n \in Nat, NEW f, NEW g, IsReading(g, f, n), NEW s \in SUBSET (1..n)
    PROVE  g[s] = Read(g, f, s)
<1> DEFINE G == [t \in SUBSET (1..n) |-> Read(g, f, t)]
<1>1. g = G
    BY DEF IsReading
<1>2. G[s] = Read(g, f, s)
    OBVIOUS
<1> HIDE DEF G
<1> QED
    BY <1>1, <1>2

(* One digit more can be read. *)
LEMMA ReadsNext ==
    ASSUME NEW n \in Nat, NEW f, NEW g, IsReading(g, f, n)
    PROVE  \E h : IsReading(h, f, n + 1)
<1> DEFINE h == [s \in SUBSET (1..(n + 1)) |->
                    IF n + 1 \in s THEN 10 * g[s \ {n + 1}] + f[n + 1] ELSE g[s]]
           H == [s \in SUBSET (1..(n + 1)) |-> Read(h, f, s)]
<1>1. ASSUME NEW s \in SUBSET (1..(n + 1))
      PROVE  h[s] = Read(h, f, s)
    <2>1. CASE s = {}
        <3>1. h[s] = g[s] /\ s \in SUBSET (1..n)
            BY <2>1
        <3>2. g[s] = Read(g, f, s)
            BY <3>1, ReadAt
        <3> HIDE DEF h
        <3> QED
            BY <2>1, <3>1, <3>2 DEF Read
    <2>2. CASE s # {} /\ n + 1 \notin s
        <3>1. s \in SUBSET (1..n)
            BY <2>2
        <3>2. s \ {Max(s)} \in SUBSET (1..(n + 1)) /\ n + 1 \notin s \ {Max(s)}
            BY <2>2
        <3>3. h[s] = g[s] /\ h[s \ {Max(s)}] = g[s \ {Max(s)}]
            BY <2>2, <3>2
        <3>4. g[s] = Read(g, f, s)
            BY <3>1, ReadAt
        <3> HIDE DEF h
        <3> QED
            BY <3>3, <3>4 DEF Read
    <2>3. CASE n + 1 \in s
        <3>1. Max(s) = n + 1
            <4>1. n + 1 \in Nat /\ s # {}
                BY <2>3
            <4>2. Max(s) \in s /\ n + 1 <= Max(s)
                BY <2>3, <4>1, MaxIn
            <4>3. Max(s) \in 1..(n + 1)
                BY <4>2
            <4> HIDE DEF h
            <4> QED
                BY <4>2, <4>3
        <3>2. s \ {n + 1} \in SUBSET (1..(n + 1)) /\ n + 1 \notin s \ {n + 1}
            OBVIOUS
        <3>3. h[s] = 10 * g[s \ {n + 1}] + f[n + 1] /\ h[s \ {n + 1}] = g[s \ {n + 1}]
            BY <2>3, <3>2
        <3> HIDE DEF h
        <3> QED
            BY <2>3, <3>1, <3>3 DEF Read
    <2> QED
        BY <2>1, <2>2, <2>3
<1>2. h = H
    <2>1. h = [s \in SUBSET (1..(n + 1)) |-> h[s]]
        OBVIOUS
    <2> HIDE DEF h
    <2> QED
        BY <1>1, <2>1
<1> QED
    BY <1>2 DEF IsReading

LEMMA ReadsExist ==
    ASSUME NEW f, NEW n \in Nat
    PROVE  \E g : IsReading(g, f, n)
<1> DEFINE B == {k \in Nat : ~\E g : IsReading(g, f, k)}
<1> SUFFICES ASSUME B # {} PROVE FALSE
    OBVIOUS
<1>1. PICK k \in B : \A j \in B : k <= j
    <2>1. B \in SUBSET Nat
        OBVIOUS
    <2> HIDE DEF B
    <2> QED
        BY <2>1, SmallestNumber
<1>2. CASE k = 0
    <2> DEFINE z == [s \in SUBSET (1..0) |-> 0]
    <2>1. SUBSET (1..0) = {{}}
        OBVIOUS
    <2>2. \A s \in SUBSET (1..0) : Read(z, f, s) = 0
        BY <2>1 DEF Read
    <2> QED
        BY <1>2, <2>2 DEF IsReading
<1>3. CASE k # 0
    <2>1. k - 1 \in Nat /\ k - 1 \notin B
        BY <1>1, <1>3
    <2>2. PICK g : IsReading(g, f, k - 1)
        BY <2>1
    <2>3. \E h : IsReading(h, f, (k - 1) + 1)
        BY <2>1, <2>2, ReadsNext
    <2> QED
        BY <2>3
<1> QED
    BY <1>2, <1>3

(* The value of a fraction, read from the front. *)
LEMMA FractionIs ==
    ASSUME NEW frac \in Seq(Nat)
    PROVE  \E v \in [0..Len(frac) -> Nat] :
              /\ v[0] = 0
              /\ \A k \in 1..Len(frac) : v[k] = 10 * v[k - 1] + frac[k]
              /\ FractionValue(frac) = v[Len(frac)]
<1> DEFINE n == Len(frac)
           g == CHOOSE h : IsReading(h, frac, n)
           v == [k \in 0..n |-> g[1..k]]
<1>0. n \in Nat /\ DOMAIN frac = 1..n /\ \A k \in 1..n : frac[k] \in Nat
    OBVIOUS
<1>1. IsReading(g, frac, n)
    <2> HIDE DEF n
    <2> QED
        BY <1>0, ReadsExist
<1>2. FractionValue(frac) = g[1..n]
    BY <1>0 DEF FractionValue, FoldLeft, MapThenFoldSet, IsReading, Read
<1> HIDE DEF g, n
<1>3. g[1..0] = 0
    <2>1. 1..0 = {} /\ {} \in SUBSET (1..n)
        OBVIOUS
    <2> QED
        BY <1>0, <1>1, <2>1, ReadAt DEF Read
<1>4. ASSUME NEW k \in 1..n
      PROVE  g[1..k] = 10 * g[1..(k - 1)] + frac[k]
    <2>1. k \in Nat /\ 1..k \in SUBSET (1..n) /\ 1..k \in SUBSET (1..k) /\ k \in 1..k
        BY <1>0
    <2>2. 1..k # {}
        BY <2>1
    <2>3. Max(1..k) = k
        <3>1. Max(1..k) \in 1..k /\ \A x \in 1..k : x <= Max(1..k)
            BY <2>1, <2>2, MaxIn
        <3> QED
            BY <2>1, <3>1
    <2>4. (1..k) \ {k} = 1..(k - 1)
        BY <2>1
    <2>5. g[1..k] = 10 * g[(1..k) \ {Max(1..k)}] + frac[Max(1..k)]
        <3> DEFINE s == 1..k
        <3>1. n \in Nat /\ s \in SUBSET (1..n) /\ s # {}
            BY <1>0, <2>1, <2>2
        <3> HIDE DEF s
        <3>2. g[s] = Read(g, frac, s)
            BY <1>1, <3>1, ReadAt
        <3>3. g[s] = 10 * g[s \ {Max(s)}] + frac[Max(s)]
            BY <3>1, <3>2 DEF Read
        <3> QED
            BY <3>3 DEF s
    <2> QED
        BY <2>3, <2>4, <2>5
<1>5. \A k \in 0..n : g[1..k] \in Nat
    <2> DEFINE B == {k \in 0..n : g[1..k] \notin Nat}
    <2> SUFFICES ASSUME B # {} PROVE FALSE
        OBVIOUS
    <2>1. PICK k \in B : \A j \in B : k <= j
        <3>1. B \in SUBSET Nat
            OBVIOUS
        <3> HIDE DEF B
        <3> QED
            BY <3>1, SmallestNumber
    <2>2. k # 0
        BY <1>3, <2>1
    <2>3. k - 1 \in 0..n /\ k - 1 \notin B /\ k \in 1..n
        BY <1>0, <2>1, <2>2
    <2>4. g[1..(k - 1)] \in Nat /\ frac[k] \in Nat
        BY <1>0, <2>3
    <2>5. g[1..k] = 10 * g[1..(k - 1)] + frac[k]
        BY <1>4, <2>3
    <2> QED
        BY <2>1, <2>4, <2>5
<1>6. v \in [0..n -> Nat] /\ v[0] = 0 /\ FractionValue(frac) = v[n]
    BY <1>0, <1>2, <1>3, <1>5
<1>7. ASSUME NEW k \in 1..n
      PROVE  v[k] = 10 * v[k - 1] + frac[k]
    <2>1. k \in 0..n /\ k - 1 \in 0..n
        BY <1>0
    <2>2. v[k] = g[1..k] /\ v[k - 1] = g[1..(k - 1)]
        BY <2>1
    <2> QED
        BY <1>4, <2>2
<1> HIDE DEF v
<1> QED
    BY <1>6, <1>7 DEF n

(* What is left of a fraction without its zeros at the end. *)
LEMMA Trimmed ==
    ASSUME NEW frac \in Seq(Nat)
    PROVE  \E m \in 0..Len(frac) :
              /\ TrimZeros(frac) \in Seq(Nat) /\ Len(TrimZeros(frac)) = m
              /\ \A i \in 1..m : TrimZeros(frac)[i] = frac[i]
              /\ \A i \in 1..Len(frac) : i > m => frac[i] = 0
              /\ m # 0 => frac[m] # 0
<1> DEFINE S == {0} \cup {i \in DOMAIN frac : frac[i] # 0}
           m == Max(S)
<1>1. S \in SUBSET Nat /\ S # {} /\ Len(frac) \in Nat /\ \A x \in S : x <= Len(frac)
    OBVIOUS
<1>2. m \in S /\ \A x \in S : x <= m
    <2> HIDE DEF S
    <2> QED
        BY <1>1, GreatestNumber
<1>3. m \in 0..Len(frac)
    <2> HIDE DEF m
    <2> QED
        BY <1>2
<1>4. TrimZeros(frac) = SubSeq(frac, 1, m) /\ (m # 0 => frac[m] # 0)
    <2>1. m # 0 => frac[m] # 0
        <3> HIDE DEF m
        <3> QED
            BY <1>2
    <2> QED
        BY <2>1 DEF TrimZeros
<1> HIDE DEF m
<1>5. \A i \in 1..Len(frac) : i > m => frac[i] = 0
    <2> SUFFICES ASSUME NEW i \in 1..Len(frac), i > m, frac[i] # 0 PROVE FALSE
        OBVIOUS
    <2>1. i \in S
        OBVIOUS
    <2> HIDE DEF S
    <2> QED
        BY <1>2, <1>3, <2>1
<1>6. /\ SubSeq(frac, 1, m) \in Seq(Nat) /\ Len(SubSeq(frac, 1, m)) = m
      /\ \A i \in 1..m : SubSeq(frac, 1, m)[i] = frac[i]
    BY <1>3
<1> QED
    BY <1>3, <1>4, <1>5, <1>6

(* Padded to a length, a short sequence has zeros at the end. *)
Padded(frac, n) == [i \in 1..n |-> IF i <= Len(frac) THEN frac[i] ELSE 0]

LEMMA PadIs ==
    ASSUME NEW frac \in Seq(Nat), NEW n \in Nat, Len(frac) <= n
    PROVE  Pad(frac, n) = Padded(frac, n)
BY DEF Pad, Padded

LEMMA PadTrimmed ==
    ASSUME NEW frac \in Seq(Nat), NEW n \in Nat, \A i \in 1..Len(frac) : i > n => frac[i] = 0
    PROVE  /\ TrimZeros(frac) \in Seq(Nat) /\ Len(TrimZeros(frac)) <= n
           /\ Len(TrimZeros(frac)) <= Len(frac)
           /\ Pad(TrimZeros(frac), n) = Padded(frac, n)
<1>1. PICK m \in 0..Len(frac) :
              /\ TrimZeros(frac) \in Seq(Nat) /\ Len(TrimZeros(frac)) = m
              /\ \A i \in 1..m : TrimZeros(frac)[i] = frac[i]
              /\ \A i \in 1..Len(frac) : i > m => frac[i] = 0
              /\ m # 0 => frac[m] # 0
    BY Trimmed
<1>2. m <= n
    BY <1>1
<1>3. Pad(TrimZeros(frac), n) = Padded(frac, n)
    <2> DEFINE t == TrimZeros(frac)
    <2>1. Pad(t, n) = Padded(t, n)
        BY <1>1, <1>2, PadIs
    <2>2. \A i \in 1..n : (IF i <= Len(t) THEN t[i] ELSE 0)
                          = (IF i <= Len(frac) THEN frac[i] ELSE 0)
        BY <1>1
    <2> HIDE DEF t
    <2>3. Padded(t, n) = Padded(frac, n)
        BY <2>2 DEF Padded
    <2> QED
        BY <2>1, <2>3 DEF t
<1> QED
    BY <1>1, <1>2, <1>3

(* Powers of ten and the digits they cut out.                              *)
LEMMA PowerValues ==
    /\ \A n \in 0..11 : pow10(n) = 10^n
    /\ pow10(0) = 1 /\ pow10(1) = 10 /\ pow10(2) = 100 /\ pow10(3) = 1000 /\ pow10(4) = 10000
<1>1. ASSUME NEW n \in 0..11
      PROVE  pow10(n) = 10^n
    <2>1. n \in Int /\ Up(n) = n
        BY UpValue
    <2> QED
        BY <2>1, PowerUp
<1>2. pow10(0) = 10^0 /\ pow10(1) = 10^1 /\ pow10(2) = 10^2 /\ pow10(3) = 10^3 /\ pow10(4) = 10^4
    BY <1>1
<1> QED
    BY <1>1, <1>2, TenTo

LEMMA DigitsAre ==
    ASSUME NEW n \in Nat, NEW count \in 0..4
    PROVE  /\ DigitsOf(n, count) \in Seq(Nat) /\ Len(DigitsOf(n, count)) = count
           /\ \A i \in 1..count : DigitsOf(n, count)[i] = (n \div pow10(count - i)) % 10
<1>1. ASSUME NEW i \in 1..count
      PROVE  (n \div pow10(count - i)) % 10 \in Nat
    <2>1. count - i = 0 \/ count - i = 1 \/ count - i = 2 \/ count - i = 3
        OBVIOUS
    <2>2. pow10(count - i) = 1 \/ pow10(count - i) = 10 \/ pow10(count - i) = 100
          \/ pow10(count - i) = 1000
        BY <2>1, PowerValues
    <2> QED
        BY <2>2
<1> QED
    BY <1>1 DEF DigitsOf

LEMMA OneDigit ==
    ASSUME NEW n \in Nat
    PROVE  DigitsOf(n, 1)[1] = n % 10
<1> DEFINE f(i) == (n \div pow10(1 - i)) % 10
<1>1. DigitsOf(n, 1)[1] = f(1)
    BY DEF DigitsOf
<1>2. pow10(1 - 1) = 1
    <2>1. 1 - 1 = 0
        OBVIOUS
    <2> QED
        BY <2>1, PowerValues
<1>3. n \div 1 = n
    OBVIOUS
<1> QED
    BY <1>1, <1>2, <1>3

LEMMA TwoDigits ==
    ASSUME NEW n \in Nat
    PROVE  DigitsOf(n, 2)[1] = (n \div 10) % 10 /\ DigitsOf(n, 2)[2] = n % 10
<1> DEFINE f(i) == (n \div pow10(2 - i)) % 10
<1>1. DigitsOf(n, 2)[1] = f(1) /\ DigitsOf(n, 2)[2] = f(2)
    BY DEF DigitsOf
<1>2. pow10(2 - 1) = 10 /\ pow10(2 - 2) = 1
    <2>1. 2 - 1 = 1 /\ 2 - 2 = 0
        OBVIOUS
    <2> QED
        BY <2>1, PowerValues
<1>3. n \div 1 = n
    OBVIOUS
<1> QED
    BY <1>1, <1>2, <1>3

LEMMA ThreeDigits ==
    ASSUME NEW n \in Nat
    PROVE  DigitsOf(n, 3)[1] = (n \div 100) % 10 /\ DigitsOf(n, 3)[2] = (n \div 10) % 10 /\ DigitsOf(n, 3)[3] = n % 10
<1> DEFINE f(i) == (n \div pow10(3 - i)) % 10
<1>1. DigitsOf(n, 3)[1] = f(1) /\ DigitsOf(n, 3)[2] = f(2) /\ DigitsOf(n, 3)[3] = f(3)
    BY DEF DigitsOf
<1>2. pow10(3 - 1) = 100 /\ pow10(3 - 2) = 10 /\ pow10(3 - 3) = 1
    <2>1. 3 - 1 = 2 /\ 3 - 2 = 1 /\ 3 - 3 = 0
        OBVIOUS
    <2> QED
        BY <2>1, PowerValues
<1>3. n \div 1 = n
    OBVIOUS
<1> QED
    BY <1>1, <1>2, <1>3

Thousands(frac, n) ==
    /\ frac[1] = (n \div 1000) % 10 /\ frac[2] = (n \div 100) % 10
    /\ frac[3] = (n \div 10) % 10 /\ frac[4] = n % 10

LEMMA FourDigits == ASSUME NEW n \in Nat PROVE Thousands(DigitsOf(n, 4), n)
<1> DEFINE f(i) == (n \div pow10(4 - i)) % 10
<1>1. DigitsOf(n, 4)[1] = f(1) /\ DigitsOf(n, 4)[2] = f(2) /\ DigitsOf(n, 4)[3] = f(3) /\ DigitsOf(n, 4)[4] = f(4)
    BY DEF DigitsOf
<1>2. pow10(4 - 1) = 1000 /\ pow10(4 - 2) = 100 /\ pow10(4 - 3) = 10 /\ pow10(4 - 4) = 1
    <2>1. 4 - 1 = 3 /\ 4 - 2 = 2 /\ 4 - 3 = 1 /\ 4 - 4 = 0
        OBVIOUS
    <2> QED
        BY <2>1, PowerValues
<1>3. n \div 1 = n
    OBVIOUS
<1> QED
    BY <1>1, <1>2, <1>3 DEF Thousands

(* The powers by which a Numeric differs from its column.                  *)
LEMMA UpTens ==
    ASSUME NEW x \in Int
    PROVE  /\ x <= 0 => 10^Up(x) = 1
           /\ x = 1 => 10^Up(x) = 10
           /\ x = 2 => 10^Up(x) = 100
<1>1. CASE x <= 0
    <2>1. Up(x) = 0
        BY <1>1, UpValue
    <2> QED
        BY <1>1, <2>1, TenTo
<1>2. CASE x = 1
    <2>1. Up(x) = 1
        BY <1>2, UpValue
    <2>2. 10^Up(x) = 10^1
        BY <2>1
    <2> QED
        BY <1>2, <2>2, TenTo
<1>3. CASE x = 2
    <2>1. Up(x) = 2
        BY <1>3, UpValue
    <2>2. 10^Up(x) = 10^2
        BY <2>1
    <2> QED
        BY <1>3, <2>2, TenTo
<1> QED
    BY <1>1, <1>2, <1>3

(* What a Numeric with decimal places shows: the integer part of the       *)
(* column, its digits, and zeros behind them.                              *)
Shows(v, n, scale, d) ==
    /\ v.int \div pow10(d) = n \div pow10(scale)
    /\ \A i \in 1..d : i <= scale =>
          DigitsOf(v.int % pow10(d), d)[i] = DigitsOf(n % pow10(scale), scale)[i]
    /\ \A i \in 1..d : i > scale => DigitsOf(v.int % pow10(d), d)[i] = 0
    /\ \A i \in 1..scale : i > d => DigitsOf(n % pow10(scale), scale)[i] = 0

LEMMA DigitsShown ==
    ASSUME NEW v \in Numeric, NEW n \in Nat, NEW scale \in {2, 3}, Delivered(v, n, scale),
           NEW d \in 1..scale + 1, v.exp = 0 - d
    PROVE  Shows(v, n, scale, d)
<1> DEFINE w == v.int
           F == DigitsOf(w % pow10(d), d)
           D == DigitsOf(n % pow10(scale), scale)
           a == 10^Up(scale - d)
           b == 10^Up(d - scale)
<1>1. w * a = n * b
    <2>1. v.exp + scale = scale - d /\ 0 - scale - v.exp = d - scale
        OBVIOUS
    <2> QED
        BY <2>1 DEF Delivered
<1>2. w \in Nat /\ scale - d \in Int /\ d - scale \in Int
    BY DEF Numeric
<1> HIDE DEF F, D, w, a, b
<1>3. CASE scale = 2 /\ d = 1
    <2>1. w * 10 = n
        <3>1. a = 10 /\ b = 1
            BY <1>2, <1>3, UpTens DEF a, b
        <3> QED
            BY <1>1, <1>2, <3>1
    <2>2. w \div 10 = n \div 100
        BY <1>2, <2>1
    <2> DEFINE x == w % 10
               y == n % 100
    <2>3. x \in Nat /\ y \in Nat
        BY <1>2
    <2>4. pow10(d) = 10 /\ pow10(scale) = 100
        BY <1>3, PowerValues
    <2>5. F = DigitsOf(x, 1) /\ D = DigitsOf(y, 2)
        BY <1>3, <2>4 DEF F, D
    <2> HIDE DEF x, y
    <2>6. F[1] = x % 10
        BY <2>3, <2>5, OneDigit
    <2>9. D[1] = (y \div 10) % 10 /\ D[2] = y % 10
        BY <2>3, <2>5, TwoDigits
    <2>7. F[1] = D[1] /\ D[2] = 0
        BY <1>2, <2>1, <2>6, <2>9 DEF x, y
    <2>8. /\ w \div pow10(d) = n \div pow10(scale)
          /\ \A i \in 1..d : i <= scale => F[i] = D[i]
          /\ \A i \in 1..d : i > scale => F[i] = 0
          /\ \A i \in 1..scale : i > d => D[i] = 0
        BY <1>3, <2>2, <2>4, <2>7
    <2> QED
        BY <2>8 DEF Shows, F, D, w
<1>4. CASE scale = 2 /\ d = 2
    <2>1. w = n
        <3>1. a = 1 /\ b = 1
            BY <1>2, <1>4, UpTens DEF a, b
        <3> QED
            BY <1>1, <1>2, <3>1
    <2>2. w \div 100 = n \div 100
        BY <1>2, <2>1
    <2> DEFINE x == w % 100
               y == n % 100
    <2>3. x \in Nat /\ y \in Nat
        BY <1>2
    <2>4. pow10(d) = 100 /\ pow10(scale) = 100
        BY <1>4, PowerValues
    <2>5. F = DigitsOf(x, 2) /\ D = DigitsOf(y, 2)
        BY <1>4, <2>4 DEF F, D
    <2> HIDE DEF x, y
    <2>6. F[1] = (x \div 10) % 10 /\ F[2] = x % 10
        BY <2>3, <2>5, TwoDigits
    <2>9. D[1] = (y \div 10) % 10 /\ D[2] = y % 10
        BY <2>3, <2>5, TwoDigits
    <2>7. F[1] = D[1] /\ F[2] = D[2]
        BY <1>2, <2>1, <2>6, <2>9 DEF x, y
    <2>8. /\ w \div pow10(d) = n \div pow10(scale)
          /\ \A i \in 1..d : i <= scale => F[i] = D[i]
          /\ \A i \in 1..d : i > scale => F[i] = 0
          /\ \A i \in 1..scale : i > d => D[i] = 0
        BY <1>4, <2>2, <2>4, <2>7
    <2> QED
        BY <2>8 DEF Shows, F, D, w
<1>5. CASE scale = 2 /\ d = 3
    <2>1. w = n * 10
        <3>1. a = 1 /\ b = 10
            BY <1>2, <1>5, UpTens DEF a, b
        <3> QED
            BY <1>1, <1>2, <3>1
    <2>2. w \div 1000 = n \div 100
        BY <1>2, <2>1
    <2> DEFINE x == w % 1000
               y == n % 100
    <2>3. x \in Nat /\ y \in Nat
        BY <1>2
    <2>4. pow10(d) = 1000 /\ pow10(scale) = 100
        BY <1>5, PowerValues
    <2>5. F = DigitsOf(x, 3) /\ D = DigitsOf(y, 2)
        BY <1>5, <2>4 DEF F, D
    <2> HIDE DEF x, y
    <2>6. F[1] = (x \div 100) % 10 /\ F[2] = (x \div 10) % 10 /\ F[3] = x % 10
        BY <2>3, <2>5, ThreeDigits
    <2>9. D[1] = (y \div 10) % 10 /\ D[2] = y % 10
        BY <2>3, <2>5, TwoDigits
    <2>7. F[1] = D[1] /\ F[2] = D[2] /\ F[3] = 0
        BY <1>2, <2>1, <2>6, <2>9 DEF x, y
    <2>8. /\ w \div pow10(d) = n \div pow10(scale)
          /\ \A i \in 1..d : i <= scale => F[i] = D[i]
          /\ \A i \in 1..d : i > scale => F[i] = 0
          /\ \A i \in 1..scale : i > d => D[i] = 0
        BY <1>5, <2>2, <2>4, <2>7
    <2> QED
        BY <2>8 DEF Shows, F, D, w
<1>6. CASE scale = 3 /\ d = 1
    <2>1. w * 100 = n
        <3>1. a = 100 /\ b = 1
            BY <1>2, <1>6, UpTens DEF a, b
        <3> QED
            BY <1>1, <1>2, <3>1
    <2>2. w \div 10 = n \div 1000
        BY <1>2, <2>1
    <2> DEFINE x == w % 10
               y == n % 1000
    <2>3. x \in Nat /\ y \in Nat
        BY <1>2
    <2>4. pow10(d) = 10 /\ pow10(scale) = 1000
        BY <1>6, PowerValues
    <2>5. F = DigitsOf(x, 1) /\ D = DigitsOf(y, 3)
        BY <1>6, <2>4 DEF F, D
    <2> HIDE DEF x, y
    <2>6. F[1] = x % 10
        BY <2>3, <2>5, OneDigit
    <2>9. D[1] = (y \div 100) % 10 /\ D[2] = (y \div 10) % 10 /\ D[3] = y % 10
        BY <2>3, <2>5, ThreeDigits
    <2>7. F[1] = D[1] /\ D[2] = 0 /\ D[3] = 0
        BY <1>2, <2>1, <2>6, <2>9 DEF x, y
    <2>8. /\ w \div pow10(d) = n \div pow10(scale)
          /\ \A i \in 1..d : i <= scale => F[i] = D[i]
          /\ \A i \in 1..d : i > scale => F[i] = 0
          /\ \A i \in 1..scale : i > d => D[i] = 0
        BY <1>6, <2>2, <2>4, <2>7
    <2> QED
        BY <2>8 DEF Shows, F, D, w
<1>7. CASE scale = 3 /\ d = 2
    <2>1. w * 10 = n
        <3>1. a = 10 /\ b = 1
            BY <1>2, <1>7, UpTens DEF a, b
        <3> QED
            BY <1>1, <1>2, <3>1
    <2>2. w \div 100 = n \div 1000
        BY <1>2, <2>1
    <2> DEFINE x == w % 100
               y == n % 1000
    <2>3. x \in Nat /\ y \in Nat
        BY <1>2
    <2>4. pow10(d) = 100 /\ pow10(scale) = 1000
        BY <1>7, PowerValues
    <2>5. F = DigitsOf(x, 2) /\ D = DigitsOf(y, 3)
        BY <1>7, <2>4 DEF F, D
    <2> HIDE DEF x, y
    <2>6. F[1] = (x \div 10) % 10 /\ F[2] = x % 10
        BY <2>3, <2>5, TwoDigits
    <2>9. D[1] = (y \div 100) % 10 /\ D[2] = (y \div 10) % 10 /\ D[3] = y % 10
        BY <2>3, <2>5, ThreeDigits
    <2>7. F[1] = D[1] /\ F[2] = D[2] /\ D[3] = 0
        BY <1>2, <2>1, <2>6, <2>9 DEF x, y
    <2>8. /\ w \div pow10(d) = n \div pow10(scale)
          /\ \A i \in 1..d : i <= scale => F[i] = D[i]
          /\ \A i \in 1..d : i > scale => F[i] = 0
          /\ \A i \in 1..scale : i > d => D[i] = 0
        BY <1>7, <2>2, <2>4, <2>7
    <2> QED
        BY <2>8 DEF Shows, F, D, w
<1>8. CASE scale = 3 /\ d = 3
    <2>1. w = n
        <3>1. a = 1 /\ b = 1
            BY <1>2, <1>8, UpTens DEF a, b
        <3> QED
            BY <1>1, <1>2, <3>1
    <2>2. w \div 1000 = n \div 1000
        BY <1>2, <2>1
    <2> DEFINE x == w % 1000
               y == n % 1000
    <2>3. x \in Nat /\ y \in Nat
        BY <1>2
    <2>4. pow10(d) = 1000 /\ pow10(scale) = 1000
        BY <1>8, PowerValues
    <2>5. F = DigitsOf(x, 3) /\ D = DigitsOf(y, 3)
        BY <1>8, <2>4 DEF F, D
    <2> HIDE DEF x, y
    <2>6. F[1] = (x \div 100) % 10 /\ F[2] = (x \div 10) % 10 /\ F[3] = x % 10
        BY <2>3, <2>5, ThreeDigits
    <2>9. D[1] = (y \div 100) % 10 /\ D[2] = (y \div 10) % 10 /\ D[3] = y % 10
        BY <2>3, <2>5, ThreeDigits
    <2>7. F[1] = D[1] /\ F[2] = D[2] /\ F[3] = D[3]
        BY <1>2, <2>1, <2>6, <2>9 DEF x, y
    <2>8. /\ w \div pow10(d) = n \div pow10(scale)
          /\ \A i \in 1..d : i <= scale => F[i] = D[i]
          /\ \A i \in 1..d : i > scale => F[i] = 0
          /\ \A i \in 1..scale : i > d => D[i] = 0
        BY <1>8, <2>2, <2>4, <2>7
    <2> QED
        BY <2>8 DEF Shows, F, D, w
<1>9. CASE scale = 3 /\ d = 4
    <2>1. w = n * 10
        <3>1. a = 1 /\ b = 10
            BY <1>2, <1>9, UpTens DEF a, b
        <3> QED
            BY <1>1, <1>2, <3>1
    <2>2. w \div 10000 = n \div 1000
        BY <1>2, <2>1
    <2> DEFINE x == w % 10000
               y == n % 1000
    <2>3. x \in Nat /\ y \in Nat
        BY <1>2
    <2>4. pow10(d) = 10000 /\ pow10(scale) = 1000
        BY <1>9, PowerValues
    <2>5. F = DigitsOf(x, 4) /\ D = DigitsOf(y, 3)
        BY <1>9, <2>4 DEF F, D
    <2> HIDE DEF x, y
    <2>6. F[1] = (x \div 1000) % 10 /\ F[2] = (x \div 100) % 10 /\ F[3] = (x \div 10) % 10 /\ F[4] = x % 10
        <3>1. x \in Nat
            BY <2>3
        <3>2. Thousands(DigitsOf(x, 4), x)
            BY <3>1, FourDigits
        <3> QED
            BY <2>5, <3>2 DEF Thousands
    <2>9. D[1] = (y \div 100) % 10 /\ D[2] = (y \div 10) % 10 /\ D[3] = y % 10
        BY <2>3, <2>5, ThreeDigits
    <2>7. F[1] = D[1] /\ F[2] = D[2] /\ F[3] = D[3] /\ F[4] = 0
        BY <1>2, <2>1, <2>6, <2>9 DEF x, y
    <2>8. /\ w \div pow10(d) = n \div pow10(scale)
          /\ \A i \in 1..d : i <= scale => F[i] = D[i]
          /\ \A i \in 1..d : i > scale => F[i] = 0
          /\ \A i \in 1..scale : i > d => D[i] = 0
        BY <1>9, <2>2, <2>4, <2>7
    <2> QED
        BY <2>8 DEF Shows, F, D, w
<1> QED
    BY <1>3, <1>4, <1>5, <1>6, <1>7, <1>8, <1>9

-----------------------------------------------------------------------------
(* Texts of columns. *)

(* v comes from a column that holds n with that scale. *)
FromColumn(v, n, scale) ==
    /\ v \in Numeric /\ n \in Nat /\ scale \in {2, 3}
    /\ v.exp \in 0 - (scale + 1)..1 /\ Delivered(v, n, scale)

(* The digits that are shown. *)
DecimalsOf(n, scale) == DigitsOf(n % pow10(scale), scale)

(* A text that means n / 10^scale: any number of zeros at the end. *)
Means(t, n, scale) ==
    /\ t.sign = "" /\ t.whole \in Nat /\ t.whole = n \div pow10(scale)
    /\ t.frac \in Seq(Nat) /\ Len(t.frac) <= 4
    /\ t.dot \in BOOLEAN /\ (t.dot <=> Len(t.frac) > 0)
    /\ \A i \in 1..Len(t.frac) : i > scale => t.frac[i] = 0
    /\ Padded(t.frac, scale) = DecimalsOf(n, scale)

(* The digits that are shown are a sequence of that length.                *)
LEMMA DecimalsAre ==
    ASSUME NEW n \in Nat, NEW scale \in {2, 3}
    PROVE  /\ n % pow10(scale) \in Nat
           /\ DecimalsOf(n, scale) = [i \in 1..scale |-> DecimalsOf(n, scale)[i]]
<1>1. n % pow10(scale) \in Nat
    BY PowerValues
<1>2. DecimalsOf(n, scale) = [i \in 1..scale |-> DecimalsOf(n, scale)[i]]
    BY DEF DigitsOf, DecimalsOf
<1> QED
    BY <1>1, <1>2

(* A whole number. *)
LEMMA WholeShown ==
    ASSUME NEW v, NEW n, NEW scale, FromColumn(v, n, scale), v.exp >= 0
    PROVE  /\ v.int * pow10(v.exp) \in Nat /\ v.int * pow10(v.exp) = n \div pow10(scale)
           /\ \A i \in 1..scale : DecimalsOf(n, scale)[i] = 0
<1> DEFINE w == v.int
           e == v.exp
           D == DecimalsOf(n, scale)
           a == 10^Up(e + scale)
           b == 10^Up(0 - scale - e)
           y == n % pow10(scale)
<1>1. /\ w \in Nat /\ n \in Nat /\ e \in Int /\ scale \in {2, 3} /\ e \in {0, 1} /\ w * a = n * b
      /\ 0 - scale - e \in Int
    BY DEF FromColumn, Numeric, Delivered
<1>2. D = DigitsOf(y, scale)
    BY DEF DecimalsOf
<1> HIDE DEF w, e, D, a, b
<1>3. b = 1
    <2>1. 0 - scale - e <= 0
        BY <1>1
    <2> QED
        BY <1>1, <2>1, UpTens DEF b
<1>4. CASE scale = 2 /\ e = 0
    <2>1. a = 100
        <3>1. e + scale = 2 /\ Up(2) = 2
            BY <1>4, UpValue
        <3>2. a = 10^2
            BY <3>1 DEF a
        <3> QED
            BY <3>2, TenTo
    <2>2. n = w * 100
        BY <1>1, <1>3, <2>1
    <2>3. pow10(e) = 1 /\ pow10(scale) = 100
        BY <1>4, PowerValues
    <2>4. w * 1 \in Nat /\ w * 1 = n \div 100 /\ n % 100 = 0
        BY <1>1, <2>2
    <2>5. y = 0 /\ D = DigitsOf(0, 2)
        BY <1>2, <1>4, <2>3, <2>4
    <2>6. D[1] = 0 /\ D[2] = 0
        BY <2>5, TwoDigits
    <2> QED
        BY <1>4, <2>3, <2>4, <2>6 DEF w, e, D
<1>5. CASE scale = 2 /\ e = 1
    <2>1. a = 1000
        <3>1. e + scale = 3 /\ Up(3) = 3
            BY <1>5, UpValue
        <3>2. a = 10^3
            BY <3>1 DEF a
        <3> QED
            BY <3>2, TenTo
    <2>2. n = w * 1000
        BY <1>1, <1>3, <2>1
    <2>3. pow10(e) = 10 /\ pow10(scale) = 100
        BY <1>5, PowerValues
    <2>4. w * 10 \in Nat /\ w * 10 = n \div 100 /\ n % 100 = 0
        BY <1>1, <2>2
    <2>5. y = 0 /\ D = DigitsOf(0, 2)
        BY <1>2, <1>5, <2>3, <2>4
    <2>6. D[1] = 0 /\ D[2] = 0
        BY <2>5, TwoDigits
    <2> QED
        BY <1>5, <2>3, <2>4, <2>6 DEF w, e, D
<1>6. CASE scale = 3 /\ e = 0
    <2>1. a = 1000
        <3>1. e + scale = 3 /\ Up(3) = 3
            BY <1>6, UpValue
        <3>2. a = 10^3
            BY <3>1 DEF a
        <3> QED
            BY <3>2, TenTo
    <2>2. n = w * 1000
        BY <1>1, <1>3, <2>1
    <2>3. pow10(e) = 1 /\ pow10(scale) = 1000
        BY <1>6, PowerValues
    <2>4. w * 1 \in Nat /\ w * 1 = n \div 1000 /\ n % 1000 = 0
        BY <1>1, <2>2
    <2>5. y = 0 /\ D = DigitsOf(0, 3)
        BY <1>2, <1>6, <2>3, <2>4
    <2>6. D[1] = 0 /\ D[2] = 0 /\ D[3] = 0
        BY <2>5, ThreeDigits
    <2> QED
        BY <1>6, <2>3, <2>4, <2>6 DEF w, e, D
<1>7. CASE scale = 3 /\ e = 1
    <2>1. a = 10000
        <3>1. e + scale = 4 /\ Up(4) = 4
            BY <1>7, UpValue
        <3>2. a = 10^4
            BY <3>1 DEF a
        <3> QED
            BY <3>2, TenTo
    <2>2. n = w * 10000
        BY <1>1, <1>3, <2>1
    <2>3. pow10(e) = 10 /\ pow10(scale) = 1000
        BY <1>7, PowerValues
    <2>4. w * 10 \in Nat /\ w * 10 = n \div 1000 /\ n % 1000 = 0
        BY <1>1, <2>2
    <2>5. y = 0 /\ D = DigitsOf(0, 3)
        BY <1>2, <1>7, <2>3, <2>4
    <2>6. D[1] = 0 /\ D[2] = 0 /\ D[3] = 0
        BY <2>5, ThreeDigits
    <2> QED
        BY <1>7, <2>3, <2>4, <2>6 DEF w, e, D
<1> QED
    BY <1>1, <1>4, <1>5, <1>6, <1>7

(* What the driver writes. *)
LEMMA DriverText ==
    ASSUME NEW v, NEW n, NEW scale, FromColumn(v, n, scale)
    PROVE  Means(DriverValue(v), n, scale)
<1> DEFINE t == DriverValue(v)
           D == DecimalsOf(n, scale)
<1>1. /\ v.int \in Nat /\ n \in Nat /\ v.exp \in Int /\ scale \in {2, 3} /\ v \in Numeric
      /\ Delivered(v, n, scale)
    BY DEF FromColumn, Numeric
<1>2. D = [i \in 1..scale |-> D[i]]
    BY <1>1, DecimalsAre
<1>3. CASE v.exp >= 0
    <2>1. t = [sign |-> "", whole |-> v.int * pow10(v.exp), dot |-> FALSE, frac |-> <<>>]
        BY <1>3 DEF DriverValue
    <2> HIDE DEF t, D
    <2>2. /\ t.sign = "" /\ t.whole = v.int * pow10(v.exp) /\ t.dot = FALSE /\ t.frac = <<>>
        BY <2>1
    <2>3. /\ v.int * pow10(v.exp) \in Nat /\ v.int * pow10(v.exp) = n \div pow10(scale)
          /\ \A i \in 1..scale : D[i] = 0
        BY <1>3, WholeShown DEF D
    <2>4. Padded(<<>>, scale) = D
        <3>1. Len(<<>>) = 0
            OBVIOUS
        <3>2. Padded(<<>>, scale) = [i \in 1..scale |-> 0]
            BY <1>1, <3>1 DEF Padded
        <3> QED
            BY <1>2, <2>3, <3>2
    <2>5. <<>> \in Seq(Nat) /\ Len(<<>>) = 0
        OBVIOUS
    <2>6. Padded(<<>>, scale) = DecimalsOf(n, scale)
        BY <2>4 DEF D
    <2>8. Means(t, n, scale)
        <3>1. t.sign = "" /\ t.whole \in Nat /\ t.whole = n \div pow10(scale)
            BY <2>2, <2>3
        <3>2. /\ t.frac \in Seq(Nat) /\ Len(t.frac) <= 4
              /\ t.dot \in BOOLEAN /\ (t.dot <=> Len(t.frac) > 0)
            <4>1. t.frac \in Seq(Nat) /\ Len(t.frac) = 0
                BY <2>2, <2>5
            <4>2. t.dot \in BOOLEAN /\ ~t.dot
                BY <2>2
            <4> QED
                BY <4>1, <4>2
        <3>3. \A i \in 1..Len(t.frac) : i > scale => t.frac[i] = 0
            <4>1. t.frac = <<>>
                BY <2>2
            <4>2. 1..Len(t.frac) = {}
                BY <4>1
            <4> QED
                BY <4>2
        <3>4. Padded(t.frac, scale) = DecimalsOf(n, scale)
            BY <2>2, <2>6
        <3> QED
            BY <3>1, <3>2, <3>3, <3>4 DEF Means
    <2> QED
        BY <2>8 DEF t
<1>4. CASE ~(v.exp >= 0)
    <2> DEFINE d == 0 - v.exp
               x == v.int % pow10(d)
               F == DigitsOf(x, d)
    <2>1. d \in 1..scale + 1 /\ d \in 0..4 /\ v.exp = 0 - d
        BY <1>1, <1>4 DEF FromColumn
    <2>2. t = Shown(v.int \div pow10(d), F)
        BY <1>4 DEF DriverValue
    <2> HIDE DEF t, F, d, x
    <2>3. t.sign = "" /\ t.whole = v.int \div pow10(d) /\ t.dot = TRUE /\ t.frac = F
        BY <2>2 DEF Shown
    <2>4. Shows(v, n, scale, d)
        BY <1>1, <2>1, DigitsShown
    <2>5. x \in Nat /\ v.int \div pow10(d) \in Nat
        <3>1. d = 1 \/ d = 2 \/ d = 3 \/ d = 4
            BY <1>1, <2>1
        <3>2. pow10(d) = 10 \/ pow10(d) = 100 \/ pow10(d) = 1000 \/ pow10(d) = 10000
            BY <3>1, PowerValues
        <3> QED
            BY <1>1, <3>2 DEF x
    <2>6. F \in Seq(Nat) /\ Len(F) = d
        BY <2>1, <2>5, DigitsAre DEF F
    <2>7. /\ v.int \div pow10(d) = n \div pow10(scale)
          /\ \A i \in 1..d : i <= scale => F[i] = D[i]
          /\ \A i \in 1..d : i > scale => F[i] = 0
          /\ \A i \in 1..scale : i > d => D[i] = 0
        BY <2>4 DEF Shows, DecimalsOf, F, D, x
    <2> HIDE DEF D
    <2>8. Padded(F, scale) = D
        <3>1. \A i \in 1..scale : (IF i <= Len(F) THEN F[i] ELSE 0) = D[i]
            BY <1>1, <2>1, <2>6, <2>7
        <3>2. Padded(F, scale) = [i \in 1..scale |-> D[i]]
            BY <3>1 DEF Padded
        <3> QED
            BY <1>2, <3>2
    <2>9. Padded(F, scale) = DecimalsOf(n, scale)
        BY <2>8 DEF D
    <2>10. Means(t, n, scale)
        <3>1. t.sign = "" /\ t.whole \in Nat /\ t.whole = n \div pow10(scale)
            BY <2>3, <2>5, <2>7
        <3>2. /\ t.frac \in Seq(Nat) /\ Len(t.frac) <= 4
              /\ t.dot \in BOOLEAN /\ (t.dot <=> Len(t.frac) > 0)
            <4>0. t.frac = F
                BY <2>3
            <4>1. t.frac \in Seq(Nat) /\ Len(t.frac) <= 4 /\ Len(t.frac) > 0
                BY <1>1, <2>1, <2>6, <4>0
            <4>2. t.dot \in BOOLEAN /\ t.dot
                BY <2>3
            <4> QED
                BY <4>1, <4>2
        <3>3. \A i \in 1..Len(t.frac) : i > scale => t.frac[i] = 0
            BY <2>3, <2>6, <2>7
        <3>4. Padded(t.frac, scale) = DecimalsOf(n, scale)
            BY <2>3, <2>9
        <3> QED
            BY <3>1, <3>2, <3>3, <3>4 DEF Means
    <2> QED
        BY <2>10 DEF t
<1> QED
    BY <1>3, <1>4

(* Cut to the scale of the column, its digits are those of the number.      *)
LEMMA CutText ==
    ASSUME NEW t, NEW n \in Nat, NEW scale \in {2, 3}, Means(t, n, scale)
    PROVE  /\ TrimZeros(t.frac) \in Seq(Nat)
           /\ Len(TrimZeros(t.frac)) <= scale
           /\ Pad(TrimZeros(t.frac), scale) = DecimalsOf(n, scale)
           /\ Len(t.frac) <= scale => Pad(t.frac, scale) = DecimalsOf(n, scale)
           /\ ~t.dot => Pad(<<>>, scale) = DecimalsOf(n, scale) /\ Padded(<<>>, scale) = DecimalsOf(n, scale)
<1>1. /\ t.frac \in Seq(Nat) /\ scale \in Nat
      /\ \A i \in 1..Len(t.frac) : i > scale => t.frac[i] = 0
      /\ Padded(t.frac, scale) = DecimalsOf(n, scale)
    <2>1. t.frac \in Seq(Nat)
        BY DEF Means
    <2>2. \A i \in 1..Len(t.frac) : i > scale => t.frac[i] = 0
        BY DEF Means
    <2>3. Padded(t.frac, scale) = DecimalsOf(n, scale)
        BY DEF Means
    <2>4. scale \in Nat
        OBVIOUS
    <2> QED
        BY <2>1, <2>2, <2>3, <2>4
<1>2. /\ TrimZeros(t.frac) \in Seq(Nat)
      /\ Len(TrimZeros(t.frac)) <= scale
      /\ Pad(TrimZeros(t.frac), scale) = DecimalsOf(n, scale)
    BY <1>1, PadTrimmed
<1>3. Len(t.frac) <= scale => Pad(t.frac, scale) = DecimalsOf(n, scale)
    BY <1>1, PadIs
<1>4. ASSUME ~t.dot PROVE Pad(<<>>, scale) = DecimalsOf(n, scale) /\ Padded(<<>>, scale) = DecimalsOf(n, scale)
    <2>1. ~(Len(t.frac) > 0)
        BY <1>4 DEF Means
    <2>2. t.frac = <<>>
        BY <1>1, <2>1
    <2>3. <<>> \in Seq(Nat) /\ Len(<<>>) <= scale
        BY <1>1
    <2>4. Pad(<<>>, scale) = Padded(<<>>, scale)
        BY <1>1, <2>3, PadIs
    <2> QED
        BY <1>1, <2>2, <2>4
<1> QED
    BY <1>2, <1>3, <1>4

(* The text of a scaled integer in sales, checkout, receipt and payments.  *)
LEMMA NumberShown ==
    ASSUME NEW n, NEW scale
    PROVE  /\ scaledIntToString(n, scale) = Shown(n \div pow10(scale), DecimalsOf(n, scale))
           /\ scaledIntToString(n, scale).sign = ""
BY DEF scaledIntToString, DecimalsOf, Shown

(* catalog's text of a column. *)
LEMMA FixedScale ==
    ASSUME NEW v, NEW n \in Nat, NEW scale \in {2, 3}, FromColumn(v, n, scale)
    PROVE  numericToFixedScaleString(v, scale) = scaledIntToString(n, scale)
<1> DEFINE t == DriverValue(v)
<1>1. Means(t, n, scale)
    BY DriverText
<1>2. numericToPlainString(v) = t
    BY DEF numericToPlainString, DriverValue
<1> HIDE DEF t
<1>3. t.whole = n \div pow10(scale)
    BY <1>1 DEF Means
<1>4. CASE ~t.dot
    <2>1. Pad(<<>>, scale) = DecimalsOf(n, scale)
        BY <1>1, <1>4, CutText
    <2>2. numericToFixedScaleString(v, scale) = Shown(t.whole, Pad(<<>>, scale))
        BY <1>2, <1>4 DEF numericToFixedScaleString
    <2> QED
        BY <1>3, <2>1, <2>2, NumberShown
<1>5. CASE t.dot
    <2>1. Pad(TrimZeros(t.frac), scale) = DecimalsOf(n, scale)
        BY <1>1, CutText
    <2>2. ~(Len(TrimZeros(t.frac)) > scale)
        <3>1. Len(TrimZeros(t.frac)) <= scale /\ TrimZeros(t.frac) \in Seq(Nat)
            BY <1>1, CutText
        <3> QED
            BY <3>1
    <2>3. numericToFixedScaleString(v, scale) = Shown(t.whole, Pad(TrimZeros(t.frac), scale))
        BY <1>2, <1>5, <2>2 DEF numericToFixedScaleString
    <2> QED
        BY <1>3, <2>1, <2>3, NumberShown
<1> QED
    BY <1>4, <1>5

(* products' text of a text that means an amount. *)
LEMMA MoneyShown ==
    ASSUME NEW t, NEW n \in Nat, Means(t, n, 2)
    PROVE  formatMoneyString(t) = scaledIntToString(n, 2)
<1>1. t.whole = n \div pow10(2)
    BY DEF Means
<1>2. CASE ~t.dot
    <2>1. Padded(<<>>, 2) = DecimalsOf(n, 2)
        BY <1>2, CutText
    <2>2. Padded(<<>>, 2) = <<0, 0>>
        BY DEF Padded
    <2>3. formatMoneyString(t) = Shown(t.whole, <<0, 0>>)
        BY <1>2 DEF formatMoneyString
    <2> QED
        BY <1>1, <2>1, <2>2, <2>3, NumberShown
<1>3. CASE t.dot
    <2>1. Pad(TrimZeros(t.frac), 2) = DecimalsOf(n, 2)
        BY CutText
    <2>2. ~(Len(TrimZeros(t.frac)) > 2)
        <3>1. Len(TrimZeros(t.frac)) <= 2 /\ TrimZeros(t.frac) \in Seq(Nat)
            BY CutText
        <3> QED
            BY <3>1
    <2>3. formatMoneyString(t) = Shown(t.whole, Pad(TrimZeros(t.frac), 2))
        BY <1>3, <2>2 DEF formatMoneyString
    <2> QED
        BY <1>1, <2>1, <2>3, NumberShown
<1> QED
    BY <1>2, <1>3

(* inventory's text of a column: through the reader of requests. *)
LEMMA QuantityShown ==
    ASSUME NEW v, NEW n \in Nat, FromColumn(v, n, 3)
    PROVE  inventoryQuantityString(v) = scaledIntToString(n, 3)
<1> DEFINE t == DriverValue(v)
           kept == IF Len(t.frac) > 3 THEN TrimZeros(t.frac) ELSE t.frac
<1>1. Means(t, n, 3)
    BY DriverText
<1> HIDE DEF t
<1>3. t.whole = n \div pow10(3) /\ t.sign = "" /\ t.whole \in Nat
    BY <1>1 DEF Means
<1>4. t.frac \in Seq(Nat)
    BY <1>1 DEF Means
<1>5. Pad(kept, 3) = DecimalsOf(n, 3)
    <2>1. CASE Len(t.frac) > 3
        BY <1>1, <2>1, CutText
    <2>2. CASE ~(Len(t.frac) > 3)
        <3>1. Len(t.frac) <= 3
            BY <1>4, <2>2
        <3> QED
            BY <1>1, <2>2, <3>1, CutText
    <2> QED
        BY <2>1, <2>2
<1>6. Len(kept) <= 3
    <2>1. CASE Len(t.frac) > 3
        BY <1>1, <2>1, CutText
    <2>2. CASE ~(Len(t.frac) > 3)
        BY <1>4, <2>2
    <2> QED
        BY <2>1, <2>2
<1>7. t.dot => Len(t.frac) > 0
    BY <1>1 DEF Means
<1>8. Unsigned(t) /\ AllDigits(t)
    <2>1. t.whole >= 0
        <3>1. t.whole \in Nat
            BY <1>1 DEF Means
        <3> QED
            BY <3>1
    <2> QED
        BY <1>3, <2>1 DEF Unsigned, AllDigits
<1> HIDE DEF kept
<1>9. normalizeQuantityString(t)
        = Shown(t.whole, IF t.dot THEN Pad(kept, 3) ELSE <<0, 0, 0>>)
    BY <1>6, <1>7, <1>8 DEF normalizeQuantityString, kept
<1>10. (IF t.dot THEN Pad(kept, 3) ELSE <<0, 0, 0>>) = DecimalsOf(n, 3)
    <2>1. CASE t.dot
        BY <1>5, <2>1
    <2>2. CASE ~t.dot
        <3>1. Padded(<<>>, 3) = DecimalsOf(n, 3)
            BY <1>1, <2>2, CutText
        <3>2. Padded(<<>>, 3) = <<0, 0, 0>>
            BY DEF Padded
        <3> QED
            BY <2>2, <3>1, <3>2
    <2> QED
        BY <2>1, <2>2
<1>12. normalizeQuantityString(t) = Shown(n \div pow10(3), DecimalsOf(n, 3))
    BY <1>3, <1>9, <1>10
<1> QED
    BY <1>12, NumberShown DEF inventoryQuantityString, t

LEMMA PowerIs ==
    ASSUME NEW n \in 0..11
    PROVE  pow10(n) = 10^n
<1>1. n \in Int /\ Up(n) = n
    BY UpValue
<1> QED
    BY <1>1, PowerUp

LEMMA Length ==
    ASSUME NEW f \in Seq(Nat)
    PROVE  Len(f) \in Nat /\ \A i \in 1..Len(f) : f[i] \in Nat
OBVIOUS

LEMMA TwoDecimals ==
    ASSUME NEW n \in Nat
    PROVE  DecimalsOf(n, 2) = DigitsOf(n % 100, 2)
BY PowerValues DEF DecimalsOf

(* A value of a column is a number of the column. *)
LEMMA StoredColumn ==
    ASSUME NEW n \in Nat, NEW scale \in {2, 3}, NEW v \in Stored(n, scale)
    PROVE  FromColumn(v, n, scale)
<1>1. ASSUME NEW extra \in 0..1, v = [int |-> n * pow10(extra), exp |-> 0 - scale - extra]
      PROVE  FromColumn(v, n, scale)
    <2>1. v.int = n * pow10(extra) /\ v.exp = 0 - scale - extra
        BY <1>1
    <2>2. extra = 0 \/ extra = 1
        OBVIOUS
    <2>3. n * pow10(extra) \in Nat
        BY <2>2, PowerValues
    <2>4. v \in Numeric
        BY <1>1, <2>3 DEF Numeric
    <2>5. v.exp \in 0 - (scale + 1)..1
        BY <2>1, <2>2
    <2>6. Delivered(v, n, scale)
        <3>1. v.exp + scale = 0 - extra /\ 0 - scale - v.exp = extra
            BY <2>1
        <3>2. Up(0 - extra) = 0 /\ Up(extra) = extra
            BY <2>2, UpValue
        <3>3. v.int * 10^0 = n * 10^extra
            <4>1. CASE extra = 0
                BY <2>1, <4>1, TenTo, PowerValues
            <4>2. CASE extra = 1
                BY <2>1, <4>2, TenTo, PowerValues
            <4> QED
                BY <2>2, <4>1, <4>2
        <3> QED
            BY <3>1, <3>2, <3>3 DEF Delivered
    <2> QED
        BY <2>4, <2>5, <2>6 DEF FromColumn
<1>2. ASSUME NEW cut \in 1..(scale + 1), n % pow10(cut) = 0,
             v = [int |-> n \div pow10(cut), exp |-> cut - scale]
      PROVE  FromColumn(v, n, scale)
    <2>1. v.int = n \div pow10(cut) /\ v.exp = cut - scale
        BY <1>2
    <2>2. cut = 1 \/ cut = 2 \/ cut = 3 \/ cut = 4
        OBVIOUS
    <2>3. pow10(cut) \in {10, 100, 1000, 10000} /\ pow10(cut) = 10^cut
        <3>1. pow10(cut) \in {10, 100, 1000, 10000}
            BY <2>2, PowerValues
        <3>2. cut \in 0..11
            BY <2>2
        <3>3. pow10(cut) = 10^cut
            BY <3>2, PowerIs
        <3> QED
            BY <3>1, <3>3
    <2>4. n \div pow10(cut) \in Nat /\ (n \div pow10(cut)) * pow10(cut) = n
        <3> DEFINE p == pow10(cut)
        <3>1. n % p = 0 /\ (p = 10 \/ p = 100 \/ p = 1000 \/ p = 10000)
            BY <1>2, <2>3
        <3> HIDE DEF p
        <3>2. n \div p \in Nat /\ (n \div p) * p = n
            BY <3>1
        <3> QED
            BY <3>2 DEF p
    <2>5. v \in Numeric
        BY <1>2, <2>4 DEF Numeric
    <2>6. v.exp \in 0 - (scale + 1)..1
        BY <2>1, <2>2
    <2>7. Delivered(v, n, scale)
        <3>1. v.exp + scale = cut /\ 0 - scale - v.exp = 0 - cut
            BY <2>1
        <3>2. Up(cut) = cut /\ Up(0 - cut) = 0
            BY <2>2, UpValue
        <3>3. n * 10^0 = n
            BY TenTo
        <3>4. v.int * 10^cut = n * 10^0
            BY <2>1, <2>3, <2>4, <3>3
        <3> QED
            BY <3>1, <3>2, <3>4 DEF Delivered
    <2> QED
        BY <2>5, <2>6, <2>7 DEF FromColumn
<1> QED
    BY <1>1, <1>2 DEF Stored

(* The unit of Meaning and Worth. *)
LEMMA FractionPowers ==
    /\ pow10(MaxFraction) \in Nat \ {0}
    /\ pow10(MaxFraction + 1) = 10 * pow10(MaxFraction)
    /\ pow10(MaxFraction + 2) = 100 * pow10(MaxFraction)
    /\ pow10(MaxFraction + 3) = 1000 * pow10(MaxFraction)
    /\ pow10(MaxFraction + 4) = 10000 * pow10(MaxFraction)
<1> DEFINE m == MaxFraction
<1>1. m \in 0..7
    BY SamplesAssumption
<1> HIDE DEF m
<1>2. /\ m \in 0..10 /\ m + 1 \in 0..10 /\ m + 2 \in 0..10 /\ m + 3 \in 0..10
      /\ m \in TenExponents
    BY <1>1 DEF TenExponents
<1>3. /\ pow10(m) = 10^m /\ pow10(m + 1) = 10^(m + 1) /\ pow10(m + 2) = 10^(m + 2)
      /\ pow10(m + 3) = 10^(m + 3) /\ pow10(m + 4) = 10^(m + 4)
    <2>1. m \in 0..11 /\ m + 1 \in 0..11 /\ m + 2 \in 0..11 /\ m + 3 \in 0..11 /\ m + 4 \in 0..11
        BY <1>1
    <2>2. pow10(m) = 10^m
        BY <2>1, PowerIs
    <2>3. pow10(m + 1) = 10^(m + 1)
        BY <2>1, PowerIs
    <2>4. pow10(m + 2) = 10^(m + 2)
        BY <2>1, PowerIs
    <2>5. pow10(m + 3) = 10^(m + 3)
        BY <2>1, PowerIs
    <2>6. pow10(m + 4) = 10^(m + 4)
        BY <2>1, PowerIs
    <2> QED
        BY <2>2, <2>3, <2>4, <2>5, <2>6
<1>4. 10^m \in Nat \ {0}
    BY <1>2, TenNatural
<1>5. 10^(m + 1) = 10 * 10^m
    BY <1>2, TenNext
<1>6. 10^(m + 2) = 10 * 10^(m + 1)
    <2>1. (m + 1) + 1 = m + 2
        BY <1>1
    <2>2. 10^((m + 1) + 1) = 10 * 10^(m + 1)
        BY <1>2, TenNext
    <2> QED
        BY <2>1, <2>2
<1>7. 10^(m + 3) = 10 * 10^(m + 2)
    <2>1. (m + 2) + 1 = m + 3
        BY <1>1
    <2>2. 10^((m + 2) + 1) = 10 * 10^(m + 2)
        BY <1>2, TenNext
    <2> QED
        BY <2>1, <2>2
<1>8. 10^(m + 4) = 10 * 10^(m + 3)
    <2>1. (m + 3) + 1 = m + 4
        BY <1>1
    <2>2. 10^((m + 3) + 1) = 10 * 10^(m + 3)
        BY <1>2, TenNext
    <2> QED
        BY <2>1, <2>2
<1> QED
    BY <1>3, <1>4, <1>5, <1>6, <1>7, <1>8 DEF m

(* What a Numeric from a column of money is worth. *)
LEMMA WorthOfMoney ==
    ASSUME NEW v, NEW n \in Nat, FromColumn(v, n, 2)
    PROVE  Worth(v) = n * (10 * pow10(MaxFraction))
<1> DEFINE q == pow10(MaxFraction)
           w == v.int
           e == v.exp
           a == 10^Up(e + 2)
           b == 10^Up(0 - 2 - e)
<1>1. w \in Nat /\ e \in -3..1 /\ w * a = n * b
    <2>1. 0 - (2 + 1) = -3
        OBVIOUS
    <2> QED
        BY <2>1 DEF FromColumn, Numeric, Delivered
<1>2. q \in Nat
    BY FractionPowers
<1>3. Worth(v) = w * pow10(e + MaxFraction + 3)
    BY DEF Worth
<1> HIDE DEF q, w, e, a, b
<1>4. MaxFraction \in Int
    BY SamplesAssumption
<1>5. e + 2 \in Int /\ 0 - 2 - e \in Int
    BY <1>1
<1>6. CASE e = -3
    <2>1. e + MaxFraction + 3 = MaxFraction
        BY <1>4, <1>6
    <2>2. e + 2 <= 0 /\ 0 - 2 - e = 1
        BY <1>6
    <2>3. a = 1 /\ b = 10
        BY <1>5, <2>2, UpTens DEF a, b
    <2>4. w = n * 10
        BY <1>1, <2>3
    <2>5. w * q = n * (10 * q)
        BY <1>2, <2>4
    <2> QED
        BY <1>3, <2>1, <2>5 DEF q
<1>7. CASE e = -2
    <2>1. e + MaxFraction + 3 = MaxFraction + 1
        BY <1>4, <1>7
    <2>2. e + 2 <= 0 /\ 0 - 2 - e <= 0
        BY <1>7
    <2>3. a = 1 /\ b = 1
        BY <1>5, <2>2, UpTens DEF a, b
    <2>4. w = n
        BY <1>1, <2>3
    <2>5. Worth(v) = w * (10 * q)
        BY <1>3, <2>1, FractionPowers DEF q
    <2> QED
        BY <2>4, <2>5 DEF q
<1>8. CASE e = -1
    <2>1. e + MaxFraction + 3 = MaxFraction + 2
        BY <1>4, <1>8
    <2>2. e + 2 = 1 /\ 0 - 2 - e <= 0
        BY <1>8
    <2>3. a = 10 /\ b = 1
        BY <1>5, <2>2, UpTens DEF a, b
    <2>4. w * 10 = n
        BY <1>1, <2>3
    <2>5. Worth(v) = w * (100 * q)
        BY <1>3, <2>1, FractionPowers DEF q
    <2>6. w * (100 * q) = (w * 10) * (10 * q)
        BY <1>1, <1>2
    <2> QED
        BY <2>4, <2>5, <2>6 DEF q
<1>9. CASE e = 0
    <2>1. e + MaxFraction + 3 = MaxFraction + 3
        BY <1>4, <1>9
    <2>2. e + 2 = 2 /\ 0 - 2 - e <= 0
        BY <1>9
    <2>3. a = 100 /\ b = 1
        BY <1>5, <2>2, UpTens DEF a, b
    <2>4. w * 100 = n
        BY <1>1, <2>3
    <2>5. Worth(v) = w * (1000 * q)
        BY <1>3, <2>1, FractionPowers DEF q
    <2>6. w * (1000 * q) = (w * 100) * (10 * q)
        BY <1>1, <1>2
    <2> QED
        BY <2>4, <2>5, <2>6 DEF q
<1>10. CASE e = 1
    <2>1. e + MaxFraction + 3 = MaxFraction + 4
        BY <1>4, <1>10
    <2>2. e + 2 = 3 /\ 0 - 2 - e <= 0 /\ Up(3) = 3
        BY <1>10, UpValue
    <2>3. a = 1000 /\ b = 1
        <3>1. a = 10^3
            BY <2>2 DEF a
        <3>2. b = 1
            BY <1>5, <2>2, UpTens DEF b
        <3> QED
            BY <3>1, <3>2, TenTo
    <2>4. w * 1000 = n
        BY <1>1, <2>3
    <2>5. Worth(v) = w * (10000 * q)
        BY <1>3, <2>1, FractionPowers DEF q
    <2>6. w * (10000 * q) = (w * 1000) * (10 * q)
        BY <1>1, <1>2
    <2> QED
        BY <2>4, <2>5, <2>6 DEF q
<1> QED
    BY <1>1, <1>6, <1>7, <1>8, <1>9, <1>10

(* Short fractions. *)
LEMMA ShortFractions ==
    ASSUME NEW frac \in Seq(Nat)
    PROVE  /\ Len(frac) = 0 => FractionValue(frac) = 0
           /\ Len(frac) = 1 => FractionValue(frac) = frac[1]
           /\ Len(frac) = 2 => FractionValue(frac) = 10 * frac[1] + frac[2]
           /\ Len(frac) = 3 => FractionValue(frac) = 100 * frac[1] + 10 * frac[2] + frac[3]
<1>1. PICK v \in [0..Len(frac) -> Nat] :
              /\ v[0] = 0
              /\ \A k \in 1..Len(frac) : v[k] = 10 * v[k - 1] + frac[k]
              /\ FractionValue(frac) = v[Len(frac)]
    BY FractionIs
<1>2. \A k \in 1..Len(frac) : frac[k] \in Nat
    OBVIOUS
<1>3. ASSUME Len(frac) >= 1 PROVE v[1] = frac[1]
    <2>1. v[1] = 10 * v[1 - 1] + frac[1] /\ frac[1] \in Nat
        BY <1>1, <1>2, <1>3
    <2>2. 1 - 1 = 0
        OBVIOUS
    <2> QED
        BY <1>1, <2>1, <2>2
<1>4. ASSUME Len(frac) >= 2 PROVE v[2] = 10 * frac[1] + frac[2]
    <2>1. v[2] = 10 * v[2 - 1] + frac[2]
        BY <1>1, <1>4
    <2>2. 2 - 1 = 1
        OBVIOUS
    <2> QED
        BY <1>3, <1>4, <2>1, <2>2
<1>5. ASSUME Len(frac) >= 3 PROVE v[3] = 100 * frac[1] + 10 * frac[2] + frac[3]
    <2>1. v[3] = 10 * v[3 - 1] + frac[3]
        BY <1>1, <1>5
    <2>2. 3 - 1 = 2 /\ frac[1] \in Nat /\ frac[2] \in Nat /\ frac[3] \in Nat
        BY <1>2, <1>5
    <2> QED
        BY <1>4, <1>5, <2>1, <2>2
<1>6. Len(frac) = 0 => FractionValue(frac) = 0
    BY <1>1
<1>7. Len(frac) = 1 => FractionValue(frac) = frac[1]
    BY <1>1, <1>3
<1>8. Len(frac) = 2 => FractionValue(frac) = 10 * frac[1] + frac[2]
    BY <1>1, <1>4
<1>9. Len(frac) = 3 => FractionValue(frac) = 100 * frac[1] + 10 * frac[2] + frac[3]
    BY <1>1, <1>5
<1> QED
    BY <1>6, <1>7, <1>8, <1>9

LEMMA TwoPlaces ==
    ASSUME NEW n \in Nat
    PROVE  /\ n \div 100 \in Nat /\ n % 100 \in Nat
           /\ n = 100 * (n \div 100) + 10 * (((n % 100) \div 10) % 10) + ((n % 100) % 10)
<1> DEFINE y == n % 100
           w == n \div 100
<1>1. y \in 0..99 /\ w \in Nat /\ n = 100 * w + y
    OBVIOUS
<1> HIDE DEF y, w
<1>2. y = 10 * ((y \div 10) % 10) + (y % 10)
    BY <1>1
<1>3. n = 100 * w + 10 * ((y \div 10) % 10) + (y % 10)
    BY <1>1, <1>2
<1> QED
    BY <1>1, <1>3 DEF y, w

LEMMA UpToTwo == ASSUME NEW k \in Nat, k <= 2 PROVE k \in {0, 1, 2}
OBVIOUS

(* Read again, a text that means an amount is that amount. *)
LEMMA MoneyScanned ==
    ASSUME NEW t, NEW n \in Nat, t.whole = n \div pow10(2), t.frac \in Seq(Nat),
           Len(t.frac) <= 2, Padded(t.frac, 2) = DecimalsOf(n, 2)
    PROVE  /\ FromColumn(ScanScientific(t), n, 2)
           /\ Len(t.frac) = 2 => ScanScientific(t) = [int |-> n, exp |-> -2]
<1> DEFINE f == t.frac
           w == t.whole
           r == ScanScientific(t)
           D == DecimalsOf(n, 2)
<1>1. w \in Nat /\ w = n \div 100
    BY PowerValues
<1>2. D[1] = ((n % 100) \div 10) % 10 /\ D[2] = (n % 100) % 10
    <2>1. n % 100 \in Nat
        BY TwoPlaces
    <2>2. D = DigitsOf(n % 100, 2)
        BY TwoDecimals
    <2> DEFINE y == n % 100
    <2> HIDE DEF D, y
    <2>3. y \in Nat /\ D = DigitsOf(y, 2)
        BY <2>1, <2>2 DEF y
    <2>4. D[1] = (y \div 10) % 10 /\ D[2] = y % 10
        BY <2>3, TwoDigits
    <2> QED
        BY <2>4 DEF y
<1>3. n = 100 * w + 10 * D[1] + D[2]
    <2> HIDE DEF w, D
    <2> QED
        BY <1>1, <1>2, TwoPlaces
<1>4. D[1] = (IF 1 <= Len(f) THEN f[1] ELSE 0) /\ D[2] = (IF 2 <= Len(f) THEN f[2] ELSE 0)
    <2> DEFINE P(i) == IF i <= Len(f) THEN f[i] ELSE 0
    <2>1. D = [i \in 1..2 |-> P(i)]
        BY DEF Padded
    <2> HIDE DEF P, D
    <2>2. D[1] = P(1) /\ D[2] = P(2)
        BY <2>1
    <2> QED
        BY <2>2 DEF P
<1>5. r = [int |-> w * pow10(Len(f)) + FractionValue(f), exp |-> 0 - Len(f)]
    BY DEF ScanScientific
<1>6. f \in Seq(Nat) /\ Len(f) \in {0, 1, 2}
    <2>1. f \in Seq(Nat)
        OBVIOUS
    <2>2. Len(f) <= 2
        OBVIOUS
    <2> HIDE DEF f
    <2>3. Len(f) \in Nat
        BY <2>1, Length
    <2>4. Len(f) \in {0, 1, 2}
        BY <2>2, <2>3, UpToTwo
    <2> QED
        BY <2>1, <2>4
<1>7. \A i \in 1..Len(f) : f[i] \in Nat
    BY <1>6
<1> HIDE DEF f, w, r, D
<1>8. CASE Len(f) = 0
    <2>1. FractionValue(f) = 0 /\ pow10(Len(f)) = 1
        <3>1. FractionValue(f) = 0
            BY <1>6, <1>8, ShortFractions
        <3> QED
            BY <1>8, <3>1, PowerValues
    <2>2. r = [int |-> w, exp |-> 0]
        BY <1>1, <1>5, <1>8, <2>1
    <2>3. n = w * 100
        BY <1>1, <1>3, <1>4, <1>8
    <2>4. r \in Numeric /\ r.int = w /\ r.exp = 0
        BY <1>1, <2>2 DEF Numeric
    <2>5. Up(0 + 2) = 2 /\ Up(0 - 2 - 0) = 0 /\ w * 10^2 = n * 10^0
        BY <1>1, <2>3, UpValue, TenTo
    <2>6. Delivered(r, n, 2)
        BY <2>4, <2>5 DEF Delivered
    <2> QED
        BY <1>8, <2>4, <2>6 DEF FromColumn, r, f
<1>9. CASE Len(f) = 1
    <2>1. FractionValue(f) = f[1] /\ pow10(Len(f)) = 10 /\ f[1] \in Nat
        <3>1. FractionValue(f) = f[1]
            BY <1>6, <1>9, ShortFractions
        <3>2. 1 \in 1..Len(f)
            BY <1>9
        <3>3. pow10(Len(f)) = 10
            BY <1>9, PowerValues
        <3> QED
            BY <1>7, <3>1, <3>2, <3>3
    <2>2. r = [int |-> w * 10 + f[1], exp |-> -1]
        BY <1>5, <1>9, <2>1
    <2>3. n = (w * 10 + f[1]) * 10 /\ w * 10 + f[1] \in Nat
        <3>1. w \in Nat
            BY <1>1
        <3>2. D[1] = f[1] /\ D[2] = 0
            BY <1>4, <1>9
        <3> QED
            BY <1>3, <2>1, <3>1, <3>2
    <2>4. r \in Numeric /\ r.int = w * 10 + f[1] /\ r.exp = -1
        BY <2>2, <2>3 DEF Numeric
    <2>5. Up(-1 + 2) = 1 /\ Up(0 - 2 - (-1)) = 0 /\ (w * 10 + f[1]) * 10^1 = n * 10^0
        BY <2>3, UpValue, TenTo
    <2>6. Delivered(r, n, 2)
        BY <2>4, <2>5 DEF Delivered
    <2> QED
        BY <1>9, <2>4, <2>6 DEF FromColumn, r, f
<1>10. CASE Len(f) = 2
    <2>1. FractionValue(f) = 10 * f[1] + f[2] /\ pow10(Len(f)) = 100 /\ f[1] \in Nat /\ f[2] \in Nat
        <3>1. FractionValue(f) = 10 * f[1] + f[2]
            BY <1>6, <1>10, ShortFractions
        <3>2. 1 \in 1..Len(f) /\ 2 \in 1..Len(f)
            BY <1>10
        <3>3. pow10(Len(f)) = 100
            BY <1>10, PowerValues
        <3> QED
            BY <1>7, <3>1, <3>2, <3>3
    <2>2. w * pow10(Len(f)) + FractionValue(f) = n
        BY <1>1, <1>3, <1>4, <1>10, <2>1
    <2>3. r = [int |-> n, exp |-> -2]
        BY <1>5, <1>10, <2>2
    <2>4. r \in Numeric /\ r.int = n /\ r.exp = -2
        BY <2>3 DEF Numeric
    <2>5. Up(-2 + 2) = 0 /\ Up(0 - 2 - (-2)) = 0 /\ n * 10^0 = n
        BY UpValue, TenTo
    <2>6. Delivered(r, n, 2)
        BY <2>4, <2>5 DEF Delivered
    <2> QED
        BY <2>3, <2>4, <2>6 DEF FromColumn, r
<1> QED
    BY <1>6, <1>8, <1>9, <1>10

(* stores' text, without zeros at the end, keeps the value. *)
LEMMA FeeScanned ==
    ASSUME NEW v, NEW n \in Nat, FromColumn(v, n, 2)
    PROVE  FromColumn(ScanScientific(numericString(v)), n, 2)
<1> DEFINE t == DriverValue(v)
           kept == TrimZeros(t.frac)
           u == numericString(v)
<1>1. Means(t, n, 2)
    BY DriverText
<1>2. u.whole = t.whole /\ u.frac = kept
    BY DEF numericString
<1> HIDE DEF t, u
<1>3. t.whole = n \div pow10(2)
    BY <1>1 DEF Means
<1>4. kept \in Seq(Nat) /\ Len(kept) <= 2 /\ Pad(kept, 2) = DecimalsOf(n, 2)
    BY <1>1, CutText
<1> HIDE DEF kept
<1>5. Padded(kept, 2) = DecimalsOf(n, 2)
    <2>1. 2 \in Nat
        OBVIOUS
    <2> QED
        BY <1>4, <2>1, PadIs
<1>6. u.whole = n \div pow10(2) /\ u.frac \in Seq(Nat) /\ Len(u.frac) <= 2
      /\ Padded(u.frac, 2) = DecimalsOf(n, 2)
    BY <1>2, <1>3, <1>4, <1>5
<1>7. FromColumn(ScanScientific(u), n, 2)
    BY <1>6, MoneyScanned
<1> QED
    BY <1>7 DEF u

(* Every package reads the number of the column, and its powers are small. *)
LEMMA ColumnBounds ==
    ASSUME NEW v, NEW n, NEW scale, FromColumn(v, n, scale)
    PROVE  /\ numericToScaledInt(v, scale) = n
           /\ Up(v.exp + scale) <= scale + 1 /\ Up(0 - scale - v.exp) <= 1
           /\ Up(v.exp + scale) \in Nat /\ Up(0 - scale - v.exp) \in Nat
<1>1. v \in Numeric /\ n \in Nat /\ scale \in 0..3 /\ scale \in {2, 3} /\ Delivered(v, n, scale)
      /\ v.exp \in 0 - (scale + 1)..1
    BY DEF FromColumn
<1> DEFINE e == v.exp
<1>2. e \in Int /\ e >= 0 - (scale + 1) /\ e <= 1
    BY <1>1
<1> HIDE DEF e
<1>3. e + scale <= scale + 1 /\ 0 - scale - e <= 1 /\ e + scale \in Int /\ 0 - scale - e \in Int
      /\ e + scale <= 11 /\ 0 - scale - e <= 11
    BY <1>1, <1>2
<1>4. numericToScaledInt(v, scale) = n
    BY <1>1, <1>3, ColumnRead DEF e
<1>5. Up(e + scale) <= scale + 1 /\ Up(e + scale) \in Nat
    BY <1>1, <1>3, UpValue
<1>6. Up(0 - scale - e) <= 1 /\ Up(0 - scale - e) \in Nat
    BY <1>3, UpValue
<1> QED
    BY <1>4, <1>5, <1>6 DEF e

(* The values the columns of a price and a quantity give. *)
LEMMA AmountsOf ==
    ASSUME NEW price \in StoredMoney, NEW quantity \in StoredQuantity
    PROVE  \E cents \in Nat, thousandths \in Nat :
              FromColumn(price, cents, 2) /\ FromColumn(quantity, thousandths, 3)
<1>1. PICK cents \in Cents : price \in Stored(cents, 2)
    BY DEF StoredMoney
<1>2. PICK thousandths \in Thousandths : quantity \in Stored(thousandths, 3)
    BY DEF StoredQuantity
<1>3. cents \in Nat /\ thousandths \in Nat
    BY SamplesAssumption
<1>4. FromColumn(price, cents, 2)
    BY <1>1, <1>3, StoredColumn
<1>5. FromColumn(quantity, thousandths, 3)
    BY <1>2, <1>3, StoredColumn
<1> QED
    BY <1>3, <1>4, <1>5

(* The texts. *)
AmountTexts(price, quantity) ==
    LET money == scaledIntToString(numericToScaledInt(price, 2), 2)
        amount == scaledIntToString(numericToScaledInt(quantity, 3), 3)
    IN  /\ numericToFixedScaleString(price, 2) = money
        /\ formatMoneyString(DriverValue(price)) = money
        /\ numericToFixedScaleString(quantity, 3) = amount
        /\ inventoryQuantityString(quantity) = amount
        /\ Worth(ScanScientific(numericString(price))) = Worth(price)

(* All packages show the same text.                                        *)
LEMMA TextsAgree ==
    ASSUME NEW price, NEW quantity, NEW cents \in Nat, NEW thousandths \in Nat,
           FromColumn(price, cents, 2), FromColumn(quantity, thousandths, 3)
    PROVE  AmountTexts(price, quantity)
<1>1. numericToScaledInt(price, 2) = cents /\ numericToScaledInt(quantity, 3) = thousandths
    BY ColumnBounds
<1>2. numericToFixedScaleString(price, 2) = scaledIntToString(cents, 2)
    BY FixedScale
<1>3. numericToFixedScaleString(quantity, 3) = scaledIntToString(thousandths, 3)
    BY FixedScale
<1>4. inventoryQuantityString(quantity) = scaledIntToString(thousandths, 3)
    BY QuantityShown
<1>5. formatMoneyString(DriverValue(price)) = scaledIntToString(cents, 2)
    BY DriverText, MoneyShown
<1>6. Worth(ScanScientific(numericString(price))) = Worth(price)
    BY FeeScanned, WorthOfMoney
<1> QED
    BY <1>1, <1>2, <1>3, <1>4, <1>5, <1>6 DEF AmountTexts

AmountCents(price, quantity) ==
    LET inSales == multiplyMoneyQuantity(price, quantity)
        cents == numericToScaledInt(inSales, 2)
        exact == numericToScaledInt(price, 2) * numericToScaledInt(quantity, 3)
    IN  /\ compareMoney(inSales, checkoutMultiply(price, quantity)) = 0
        /\ compareMoney(inSales, receiptMultiply(price, quantity)) = 0
        /\ cents = DatabaseRound(price, quantity)
        /\ 2 * (1000 * cents - exact) <= 1000
        /\ 2 * (exact - 1000 * cents) < 1000

(* All packages compute the same cents, for the exponents of columns.      *)
LEMMA CentsAgree ==
    ASSUME NEW price, NEW quantity, NEW cents \in Nat, NEW thousandths \in Nat,
           FromColumn(price, cents, 2), FromColumn(quantity, thousandths, 3)
    PROVE  AmountCents(price, quantity)
<1>1. /\ price \in Numeric /\ quantity \in Numeric
      /\ Delivered(price, cents, 2) /\ Delivered(quantity, thousandths, 3)
    BY DEF FromColumn
<1>2. /\ numericToScaledInt(price, 2) = cents
      /\ Up(price.exp + 2) <= 2 + 1 /\ Up(0 - 2 - price.exp) <= 1
      /\ Up(price.exp + 2) \in Nat /\ Up(0 - 2 - price.exp) \in Nat
    BY ColumnBounds
<1>3. /\ numericToScaledInt(quantity, 3) = thousandths
      /\ Up(quantity.exp + 3) <= 3 + 1 /\ Up(0 - 3 - quantity.exp) <= 1
      /\ Up(quantity.exp + 3) \in Nat /\ Up(0 - 3 - quantity.exp) \in Nat
    BY ColumnBounds
<1>4. /\ Up(price.exp + 2) + Up(quantity.exp + 3) <= 11
      /\ Up(0 - 2 - price.exp) + Up(0 - 3 - quantity.exp) <= 8
    <2> DEFINE a == Up(price.exp + 2)
               b == Up(quantity.exp + 3)
               c == Up(0 - 2 - price.exp)
               d == Up(0 - 3 - quantity.exp)
    <2>1. a \in Nat /\ b \in Nat /\ c \in Nat /\ d \in Nat /\ a <= 3 /\ b <= 4 /\ c <= 1 /\ d <= 1
        BY <1>2, <1>3
    <2> HIDE DEF a, b, c, d
    <2>2. a + b <= 11 /\ c + d <= 8
        BY <2>1
    <2> QED
        BY <2>2 DEF a, b, c, d
<1> QED
    BY <1>1, <1>2, <1>3, <1>4, LinesAgree DEF AmountCents

-----------------------------------------------------------------------------
(* Texts of requests. *)

(* The fields of a text. *)
LEMMA TextFields ==
    ASSUME NEW t \in Text
    PROVE  /\ t.whole \in Nat \cup {Missing, Garbage}
           /\ t.frac \in Seq(Nat) /\ Len(t.frac) <= MaxFraction
           /\ \A i \in 1..Len(t.frac) : t.frac[i] <= 9
           /\ t.dot \in BOOLEAN /\ (~t.dot => t.frac = <<>>)
<1>1. ASSUME NEW f \in Fractions
      PROVE  f \in Seq(Nat) /\ Len(f) <= MaxFraction /\ \A i \in 1..Len(f) : f[i] <= 9
    <2>1. PICK n \in 0..MaxFraction : f \in [1..n -> Digits]
        BY DEF Fractions
    <2>2. Digits \subseteq 0..9 /\ MaxFraction \in Nat
        BY SamplesAssumption
    <2>3. \A i \in 1..n : f[i] \in 0..9
        BY <2>1, <2>2
    <2>4. n \in Nat /\ n <= MaxFraction
        BY <2>1, <2>2
    <2>5. f \in Seq(Nat) /\ Len(f) = n
        BY <2>1, <2>3, <2>4
    <2>6. Len(f) <= MaxFraction
        BY <2>4, <2>5
    <2>7. \A i \in 1..Len(f) : f[i] <= 9
        <3>1. \A d \in 0..9 : d <= 9
            OBVIOUS
        <3> QED
            BY <2>3, <2>5, <3>1, Zenon
    <2> QED
        BY <2>5, <2>6, <2>7
<1>2. <<>> \in Seq(Nat) /\ Len(<<>>) <= MaxFraction /\ \A i \in 1..Len(<<>>) : <<>>[i] <= 9
    BY SamplesAssumption
<1>3. t.whole \in Nat \cup {Missing, Garbage}
    BY SamplesAssumption DEF Text
<1>4. t.dot \in BOOLEAN /\ (~t.dot => t.frac = <<>>) /\ (t.frac \in Fractions \/ t.frac = <<>>)
    BY DEF Text
<1>5. t.frac \in Seq(Nat) /\ Len(t.frac) <= MaxFraction /\ \A i \in 1..Len(t.frac) : t.frac[i] <= 9
    BY <1>1, <1>2, <1>4
<1> QED
    BY <1>3, <1>4, <1>5

(* One more digit behind a value. *)
Split(value, front, power, tail) ==
    tail \in Nat /\ value = front * power + tail /\ tail < power

Longer(next, wide, value, power, digit) == next = 10 * value + digit /\ wide = 10 * power

Lengthened(next, front, wide, tail, digit) ==
    \E rest \in Nat : Split(next, front, wide, rest) /\ (rest = 0 <=> tail = 0 /\ digit = 0)

LEMMA DigitBehind ==
    ASSUME NEW value \in Nat, NEW front \in Nat, NEW power \in Nat, NEW tail \in Nat,
           Split(value, front, power, tail), NEW digit \in 0..9,
           NEW next, NEW wide, Longer(next, wide, value, power, digit)
    PROVE  Lengthened(next, front, wide, tail, digit)
<1>1. value = front * power + tail /\ tail + 1 <= power
    BY DEF Split
<1>2. front * (10 * power) = 10 * (front * power) /\ front * power \in Nat
    OBVIOUS
<1> DEFINE x == front * power
           y == front * (10 * power)
           rest == 10 * tail + digit
<1>3. value = x + tail /\ y = 10 * x /\ x \in Nat
    BY <1>1, <1>2
<1>4. rest \in Nat /\ (rest = 0 <=> tail = 0 /\ digit = 0)
    OBVIOUS
<1>5. rest = 10 * tail + digit
    OBVIOUS
<1> HIDE DEF x, y, rest
<1>6. 10 * value + digit = y + rest /\ rest < 10 * power
    BY <1>1, <1>3, <1>5
<1>7. Split(next, front, wide, rest)
    BY <1>4, <1>6 DEF Split, Longer, y
<1> QED
    BY <1>4, <1>7 DEF Lengthened

(* A fraction read to its end, cut after its first digits. *)
ReadFrom(v, frac, L) == \A k \in 1..L : v[k] = 10 * v[k - 1] + frac[k]
CutAt(v, frac, j, k) ==
    \E tail \in Nat :
        /\ Split(v[k], v[j], 10^(k - j), tail)
        /\ tail = 0 <=> \A i \in (j + 1)..k : frac[i] = 0

LEMMA Tails ==
    ASSUME NEW L \in 0..7, NEW frac \in [1..L -> 0..9], NEW v \in [0..L -> Nat],
           ReadFrom(v, frac, L), NEW j \in 0..L, NEW x \in j..L
    PROVE  CutAt(v, frac, j, x)
<1> DEFINE P(k) == \E tail \in Nat :
              /\ Split(v[k], v[j], 10^(k - j), tail)
              /\ tail = 0 <=> \A i \in (j + 1)..k : frac[i] = 0
           B == {k \in j..L : ~P(k)}
<1>0. \A k \in 1..L : v[k] = 10 * v[k - 1] + frac[k]
    BY DEF ReadFrom
<1> SUFFICES ASSUME B # {} PROVE FALSE
    BY DEF CutAt
<1>1. PICK k \in B : \A y \in B : k <= y
    <2>1. B \in SUBSET Nat
        OBVIOUS
    <2> HIDE DEF B
    <2> QED
        BY <2>1, SmallestNumber
<1>2. CASE k = j
    <2>1. v[j] \in Nat /\ k - j = 0 /\ 10^(k - j) = 1
        BY <1>2, TenTo
    <2>2. v[j] = v[j] * 1 + 0
        BY <2>1
    <2>3. Split(v[k], v[j], 10^(k - j), 0)
        BY <1>2, <2>1, <2>2 DEF Split
    <2>4. \A i \in (j + 1)..k : frac[i] = 0
        BY <1>2
    <2>5. P(k)
        BY <2>3, <2>4
    <2> QED
        BY <1>1, <2>5
<1>3. CASE k # j
    <2>1. k - 1 \in j..L /\ k \in 1..L /\ k - 1 \notin B /\ k \in 0..L /\ k - 1 \in 0..L
        <3>1. k \in j..L
            BY <1>1
        <3>2. k - 1 \in j..L /\ k \in 1..L /\ k \in 0..L /\ k - 1 \in 0..L
            BY <1>3, <3>1
        <3>3. ~(k <= k - 1)
            BY <3>1
        <3> HIDE DEF B
        <3>4. k - 1 \notin B
            BY <1>1, <3>3
        <3> QED
            BY <3>2, <3>4
    <2>2. P(k - 1)
        BY <2>1
    <2>3. PICK tail \in Nat : /\ Split(v[k - 1], v[j], 10^(k - 1 - j), tail)
                              /\ tail = 0 <=> \A i \in (j + 1)..(k - 1) : frac[i] = 0
        BY <2>2
    <2> HIDE DEF P, B
    <2>4. v[k] = 10 * v[k - 1] + frac[k] /\ frac[k] \in 0..9 /\ v[k - 1] \in Nat /\ v[j] \in Nat
        <3>1. v[k] = 10 * v[k - 1] + frac[k]
            BY <1>0, <2>1
        <3>2. frac[k] \in 0..9
            BY <2>1
        <3>3. v[k - 1] \in Nat /\ v[j] \in Nat
            BY <2>1
        <3> QED
            BY <3>1, <3>2, <3>3
    <2>5. k - 1 - j \in 0..10 /\ (k - 1 - j) + 1 = k - j /\ k - 1 - j \in TenExponents
        <3>1. k \in Int /\ j \in Int /\ L \in Int /\ j <= k - 1 /\ k - 1 <= L /\ L <= 7 /\ 0 <= j
            BY <2>1
        <3>2. k - 1 - j \in 0..10 /\ (k - 1 - j) + 1 = k - j /\ k - 1 - j \in 0..11
            BY <3>1
        <3> QED
            BY <3>2 DEF TenExponents
    <2>6. 10^(k - j) = 10 * 10^(k - 1 - j) /\ 10^(k - 1 - j) \in Nat
        <3>1. 10^((k - 1 - j) + 1) = 10 * 10^(k - 1 - j)
            BY <2>5, TenNext
        <3>2. 10^(k - 1 - j) \in Nat \ {0}
            BY <2>5, TenNatural
        <3> QED
            BY <2>5, <3>1, <3>2
    <2>7. PICK new \in Nat : /\ Split(v[k], v[j], 10^(k - j), new)
                             /\ new = 0 <=> tail = 0 /\ frac[k] = 0
        <3> DEFINE a == v[k - 1]
                   b == v[j]
                   c == 10^(k - 1 - j)
                   d == frac[k]
                   e == v[k]
                   p == 10^(k - j)
        <3>1. a \in Nat /\ b \in Nat /\ c \in Nat /\ d \in 0..9 /\ e = 10 * a + d /\ p = 10 * c
            BY <2>4, <2>6
        <3>2. Split(a, b, c, tail)
            BY <2>3
        <3> HIDE DEF a, b, c, d, e, p
        <3>4. Longer(e, p, a, c, d)
            BY <3>1 DEF Longer
        <3>3. Lengthened(e, b, p, tail, d)
            <4>1. a \in Nat /\ b \in Nat /\ c \in Nat /\ d \in 0..9 /\ tail \in Nat
                BY <3>1
            <4> QED
                BY <3>2, <3>4, <4>1, DigitBehind
        <3> QED
            BY <3>3 DEF Lengthened, b, d, e, p
    <2>8. (\A i \in (j + 1)..k : frac[i] = 0)
             <=> (\A i \in (j + 1)..(k - 1) : frac[i] = 0) /\ frac[k] = 0
        <3>1. (j + 1)..k = (j + 1)..(k - 1) \cup {k}
            BY <1>3, <2>1
        <3>2. k \in (j + 1)..k
            BY <1>3, <2>1
        <3> DEFINE A == (j + 1)..(k - 1)
                   C == (j + 1)..k
        <3>3. C = A \cup {k}
            BY <3>1
        <3> HIDE DEF A, C
        <3>4. (\A i \in C : frac[i] = 0) <=> (\A i \in A : frac[i] = 0) /\ frac[k] = 0
            BY <3>3, Zenon
        <3> QED
            BY <3>4, Zenon DEF A, C
    <2>11. new = 0 <=> \A i \in (j + 1)..k : frac[i] = 0
        BY <2>3, <2>7, <2>8
    <2>12. P(k)
        BY <2>7, <2>11 DEF P
    <2> QED
        BY <1>1, <2>12 DEF B
<1> QED
    BY <1>2, <1>3

(* A fraction, brought to a length.                                        *)
LEMMA PaddedIs ==
    ASSUME NEW frac \in Seq(Nat), NEW n \in {2, 3}
    PROVE  /\ Padded(frac, n) \in Seq(Nat) /\ Len(Padded(frac, n)) = n
           /\ \A i \in 1..n : Padded(frac, n)[i] = (IF i <= Len(frac) THEN frac[i] ELSE 0)
<1>1. \A i \in 1..n : (IF i <= Len(frac) THEN frac[i] ELSE 0) \in Nat
    BY Length
<1> QED
    BY <1>1 DEF Padded

(* The value of a short fraction with zeros behind it. *)
LEMMA ShortRead ==
    ASSUME NEW frac \in Seq(Nat), NEW n \in {2, 3}, Len(frac) <= n
    PROVE  FractionValue(Padded(frac, n)) = FractionValue(frac) * pow10(n - Len(frac))
<1> DEFINE p == Padded(frac, n)
           L == Len(frac)
<1>1. p \in Seq(Nat) /\ Len(p) = n
    BY PaddedIs
<1>2. \A i \in 1..n : p[i] = (IF i <= L THEN frac[i] ELSE 0)
    BY PaddedIs
<1>3. L \in Nat /\ \A i \in 1..L : frac[i] \in Nat
    BY Length
<1> HIDE DEF p, L
<1>4. L <= n
    BY DEF L
<1>5. /\ n = 2 => FractionValue(p) = 10 * p[1] + p[2]
      /\ n = 3 => FractionValue(p) = 100 * p[1] + 10 * p[2] + p[3]
    BY <1>1, ShortFractions
<1>6. /\ L = 0 => FractionValue(frac) = 0
      /\ L = 1 => FractionValue(frac) = frac[1]
      /\ L = 2 => FractionValue(frac) = 10 * frac[1] + frac[2]
      /\ L = 3 => FractionValue(frac) = 100 * frac[1] + 10 * frac[2] + frac[3]
    BY ShortFractions DEF L
<1> DEFINE fv == FractionValue(frac)
           pv == FractionValue(p)
           q == pow10(n - L)
<1> SUFFICES pv = fv * q
    BY DEF p, L
<1>7. /\ n - L = 0 => q = 1
      /\ n - L = 1 => q = 10
      /\ n - L = 2 => q = 100
      /\ n - L = 3 => q = 1000
    BY PowerValues
<1> HIDE DEF fv, pv, q
<1>8. CASE n = 2
    <2>1. pv = 10 * p[1] + p[2]
        BY <1>5, <1>8 DEF pv
    <2>2. p[1] = (IF 1 <= L THEN frac[1] ELSE 0) /\ p[2] = (IF 2 <= L THEN frac[2] ELSE 0)
        BY <1>2, <1>8
    <2>3. CASE L = 0
        <3>1. fv = 0 /\ q = 100 /\ p[1] = 0 /\ p[2] = 0
            BY <1>6, <1>7, <1>8, <2>2, <2>3 DEF fv
        <3> QED
            BY <2>1, <3>1
    <2>4. CASE L = 1
        <3>1. fv = frac[1] /\ q = 10 /\ p[1] = frac[1] /\ p[2] = 0 /\ frac[1] \in Nat
            BY <1>3, <1>6, <1>7, <1>8, <2>2, <2>4 DEF fv
        <3> QED
            BY <2>1, <3>1
    <2>5. CASE L = 2
        <3>1. fv = 10 * frac[1] + frac[2] /\ q = 1 /\ p[1] = frac[1] /\ p[2] = frac[2]
            BY <1>6, <1>7, <1>8, <2>2, <2>5 DEF fv
        <3>2. frac[1] \in Nat /\ frac[2] \in Nat
            BY <1>3, <2>5
        <3> QED
            BY <2>1, <3>1, <3>2
    <2> QED
        BY <1>3, <1>4, <1>8, <2>3, <2>4, <2>5
<1>9. CASE n = 3
    <2>1. pv = 100 * p[1] + 10 * p[2] + p[3]
        BY <1>5, <1>9 DEF pv
    <2>2. /\ p[1] = (IF 1 <= L THEN frac[1] ELSE 0) /\ p[2] = (IF 2 <= L THEN frac[2] ELSE 0)
          /\ p[3] = (IF 3 <= L THEN frac[3] ELSE 0)
        BY <1>2, <1>9
    <2>3. CASE L = 0
        <3>1. fv = 0 /\ q = 1000 /\ p[1] = 0 /\ p[2] = 0 /\ p[3] = 0
            BY <1>6, <1>7, <1>9, <2>2, <2>3 DEF fv
        <3> QED
            BY <2>1, <3>1
    <2>4. CASE L = 1
        <3>1. fv = frac[1] /\ q = 100 /\ p[1] = frac[1] /\ p[2] = 0 /\ p[3] = 0 /\ frac[1] \in Nat
            BY <1>3, <1>6, <1>7, <1>9, <2>2, <2>4 DEF fv
        <3> QED
            BY <2>1, <3>1
    <2>5. CASE L = 2
        <3>1. fv = 10 * frac[1] + frac[2] /\ q = 10 /\ p[1] = frac[1] /\ p[2] = frac[2] /\ p[3] = 0
            BY <1>6, <1>7, <1>9, <2>2, <2>5 DEF fv
        <3>2. frac[1] \in Nat /\ frac[2] \in Nat
            BY <1>3, <2>5
        <3>3. fv * q = (10 * frac[1] + frac[2]) * 10
            BY <3>1
        <3>4. pv = 100 * frac[1] + 10 * frac[2]
            <4>1. 10 * frac[2] + 0 = 10 * frac[2] /\ 100 * frac[1] \in Nat /\ 10 * frac[2] \in Nat
                BY <3>2
            <4>2. pv = 100 * frac[1] + 10 * frac[2] + 0
                BY <2>1, <3>1
            <4> HIDE DEF pv
            <4> QED
                BY <4>1, <4>2
        <3> DEFINE x == frac[1]
                   y == frac[2]
                   m == fv * q
        <3>5. x \in Nat /\ y \in Nat /\ m = (10 * x + y) * 10 /\ pv = 100 * x + 10 * y
            BY <3>2, <3>3, <3>4
        <3> HIDE DEF x, y, m
        <3>6. pv = m
            BY <3>5
        <3> QED
            BY <3>6 DEF m
    <2>6. CASE L = 3
        <3>1. /\ fv = 100 * frac[1] + 10 * frac[2] + frac[3] /\ q = 1
              /\ p[1] = frac[1] /\ p[2] = frac[2] /\ p[3] = frac[3]
            BY <1>6, <1>7, <1>9, <2>2, <2>6 DEF fv
        <3>2. frac[1] \in Nat /\ frac[2] \in Nat /\ frac[3] \in Nat
            BY <1>3, <2>6
        <3> QED
            BY <2>1, <3>1, <3>2
    <2> QED
        BY <1>3, <1>4, <1>9, <2>3, <2>4, <2>5, <2>6
<1> QED
    BY <1>8, <1>9

(* Units of texts of different lengths. *)
LEMMA Units ==
    ASSUME NEW a \in Nat, NEW b \in Nat, a + b <= 11
    PROVE  /\ pow10(a + b) = pow10(a) * pow10(b)
           /\ pow10(a) \in Nat \ {0} /\ pow10(b) \in Nat \ {0}
<1>1. a \in TenExponents /\ b \in TenExponents /\ a + b \in TenExponents
    BY DEF TenExponents
<1>2. 10^(a + b) = 10^a * 10^b
    BY <1>1, TenSum
<1>3. pow10(a) = 10^a /\ pow10(b) = 10^b
    BY <1>1, PowerIs DEF TenExponents
<1>4. pow10(a + b) = 10^(a + b)
    BY <1>1, PowerIs DEF TenExponents
<1> QED
    BY <1>1, <1>2, <1>3, <1>4, TenNatural

(* The rest scales with the value.                                         *)
LEMMA SplitScaled ==
    ASSUME NEW value \in Nat, NEW front \in Nat, NEW power \in Nat, NEW tail \in Nat,
           Split(value, front, power, tail), NEW b \in Nat \ {0}
    PROVE  /\ Split(value * b, front, power * b, tail * b)
           /\ tail * b \in Nat
           /\ tail * b = 0 => tail = 0
<1>1. value = front * power + tail /\ tail + 1 <= power
    BY DEF Split
<1>2. (tail + 1) * b <= power * b /\ (tail + 1) * b = tail * b + b /\ tail * b \in Nat
    BY <1>1, TimesMonotonic
<1>3. power * b \in Nat /\ front * power \in Nat
    OBVIOUS
<1>4. tail * b < power * b
    BY <1>2, <1>3
<1>5. (front * power + tail) * b = (front * power) * b + tail * b
    OBVIOUS
<1>6. (front * power) * b = front * (power * b)
    OBVIOUS
<1>7. tail * b = 0 => tail = 0
    <2>1. CASE tail = 0
        BY <2>1
    <2>2. CASE tail # 0
        <3>1. 1 * b <= tail * b /\ 1 * b = b
            BY <2>2, TimesMonotonic
        <3> QED
            BY <1>2, <3>1
    <2> QED
        BY <2>1, <2>2
<1> QED
    BY <1>1, <1>2, <1>4, <1>5, <1>6, <1>7 DEF Split

(* A fraction, in the unit of Meaning: its first digits and the rest. *)
CutAfter(frac, n, rest) ==
    /\ rest \in Nat
    /\ Split(FractionValue(frac) * pow10(MaxFraction + 3 - Len(frac)),
             FractionValue(Padded(frac, n)), pow10(MaxFraction + 3 - n), rest)
    /\ rest = 0 <=> \A i \in 1..Len(frac) : i > n => frac[i] = 0

LEMMA OneOrTwo == ASSUME NEW x \in 1..2 PROVE x \in Nat /\ x <= 2
OBVIOUS

LEMMA FourToSeven ==
    ASSUME NEW x \in Nat, x > 3, x <= 7
    PROVE  x \in 0..7 /\ x \in 3..x /\ 3 \in 0..x
OBVIOUS

LEMMA FractionNatural ==
    ASSUME NEW frac \in Seq(Nat)
    PROVE  FractionValue(frac) \in Nat
<1>1. PICK v \in [0..Len(frac) -> Nat] :
              /\ v[0] = 0
              /\ \A k \in 1..Len(frac) : v[k] = 10 * v[k - 1] + frac[k]
              /\ FractionValue(frac) = v[Len(frac)]
    BY FractionIs
<1>2. Len(frac) \in 0..Len(frac)
    OBVIOUS
<1> QED
    BY <1>1, <1>2

(* A fraction within its digits leaves no rest.                            *)
LEMMA CutShort ==
    ASSUME NEW frac \in Seq(Nat), NEW n \in {2, 3}, Len(frac) <= n, Len(frac) <= MaxFraction
    PROVE  CutAfter(frac, n, 0)
<1> DEFINE L == Len(frac)
           fv == FractionValue(frac)
           pv == FractionValue(Padded(frac, n))
           a == n - L
           b == MaxFraction + 3 - n
<1>1. L \in Nat /\ MaxFraction \in 0..7
    BY Length, SamplesAssumption
<1>2. pv = fv * pow10(a)
    BY ShortRead
<1>3. fv \in Nat
    BY FractionNatural
<1>4. L <= n
    OBVIOUS
<1>5. \A i \in 1..Len(frac) : i > n => frac[i] = 0
    <2> SUFFICES ASSUME NEW i \in 1..L, i > n PROVE FALSE
        OBVIOUS
    <2> HIDE DEF L
    <2> QED
        BY <1>1, <1>4
<1> HIDE DEF fv, pv, L
<1>6. a \in Nat /\ b \in Nat /\ a + b = MaxFraction + 3 - L /\ a + b <= 11
    BY <1>1, <1>4
<1> DEFINE c == MaxFraction + 3 - L
<1>7. a + b = c
    BY <1>6
<1> HIDE DEF a, b, c
<1>8. pow10(a + b) = pow10(a) * pow10(b) /\ pow10(a) \in Nat \ {0} /\ pow10(b) \in Nat \ {0}
    BY <1>6, Units
<1> DEFINE p == pow10(a)
           q == pow10(b)
<1>9. pow10(c) = p * q /\ p \in Nat \ {0} /\ q \in Nat \ {0} /\ pv = fv * p
    BY <1>2, <1>7, <1>8
<1> HIDE DEF p, q
<1>10. fv * (p * q) = (fv * p) * q
    BY <1>3, <1>9
<1>11. Split(fv * pow10(c), pv, q, 0)
    <2>1. pv * q \in Nat /\ 0 < q
        BY <1>3, <1>9
    <2> DEFINE x == fv * pow10(c)
               y == pv * q
    <2>2. x = y /\ y \in Nat
        BY <1>9, <1>10, <2>1
    <2> HIDE DEF x, y
    <2>3. x = y + 0 /\ 0 \in Nat
        BY <2>2
    <2> QED
        BY <2>1, <2>3 DEF Split, x, y
<1> QED
    BY <1>5, <1>11 DEF CutAfter, fv, pv, q, c, b, L

(* A longer one leaves none exactly if only zeros follow.                  *)
LEMMA CutLong ==
    ASSUME NEW frac \in Seq(Nat), Len(frac) > 3, Len(frac) <= MaxFraction,
           \A i \in 1..Len(frac) : frac[i] <= 9
    PROVE  \E rest : CutAfter(frac, 3, rest)
<1> DEFINE L == Len(frac)
           P == Padded(frac, 3)
<1>1. PICK v \in [0..L -> Nat] :
              /\ v[0] = 0
              /\ \A k \in 1..L : v[k] = 10 * v[k - 1] + frac[k]
              /\ FractionValue(frac) = v[L]
    BY FractionIs
<1>2. L \in Nat /\ MaxFraction \in 0..7 /\ \A i \in 1..L : frac[i] \in Nat
    BY Length, SamplesAssumption
<1>3. L > 3 /\ L <= MaxFraction /\ \A i \in 1..L : frac[i] <= 9
    OBVIOUS
<1>4. frac = [i \in 1..L |-> frac[i]]
    OBVIOUS
<1>5. P \in Seq(Nat) /\ Len(P) = 3 /\ \A i \in 1..3 : P[i] = (IF i <= L THEN frac[i] ELSE 0)
    BY PaddedIs
<1>6. FractionValue(P) = 100 * P[1] + 10 * P[2] + P[3]
    BY <1>5, ShortFractions
<1> HIDE DEF L, P
<1>7. L \in 0..7 /\ L \in 3..L /\ 3 \in 0..L
    <2>1. L \in Nat /\ L > 3 /\ L <= MaxFraction
        BY <1>2, <1>3
    <2>2. L <= 7
        BY <1>2, <2>1
    <2> QED
        BY <2>1, <2>2, FourToSeven
<1>8. frac \in [1..L -> 0..9]
    <2>1. \A i \in 1..L : frac[i] \in 0..9
        <3>1. \A d \in Nat : d <= 9 => d \in 0..9
            OBVIOUS
        <3> QED
            BY <1>2, <1>3, <3>1, Zenon
    <2> QED
        BY <1>4, <2>1
<1>9. \A k \in 1..L : v[k] = 10 * v[k - 1] + frac[k]
    BY <1>1
<1>10. PICK tail \in Nat :
              /\ Split(v[L], v[3], 10^(L - 3), tail)
              /\ tail = 0 <=> \A i \in (3 + 1)..L : frac[i] = 0
    <2>1. v \in [0..L -> Nat]
        OBVIOUS
    <2> DEFINE j == 3
    <2>2. L \in 0..7 /\ L \in j..L /\ j \in 0..L
        BY <1>7
    <2> HIDE DEF j
    <2>3. ReadFrom(v, frac, L)
        BY <1>9 DEF ReadFrom
    <2>5. CutAt(v, frac, j, L)
        BY <1>8, <2>1, <2>2, <2>3, Tails
    <2>4. \E tail \in Nat :
              /\ Split(v[L], v[j], 10^(L - j), tail)
              /\ tail = 0 <=> \A i \in (j + 1)..L : frac[i] = 0
        BY <2>5 DEF CutAt
    <2> QED
        BY <2>4 DEF j
<1>11. v[3] = FractionValue(P)
    <2>1. 1 \in 1..L /\ 2 \in 1..L /\ 3 \in 1..L
        BY <1>2, <1>3
    <2>2. v[1] = 10 * v[1 - 1] + frac[1] /\ v[2] = 10 * v[2 - 1] + frac[2] /\ v[3] = 10 * v[3 - 1] + frac[3]
        BY <1>9, <2>1
    <2>3. 1 - 1 = 0 /\ 2 - 1 = 1 /\ 3 - 1 = 2
        OBVIOUS
    <2>4. frac[1] \in Nat /\ frac[2] \in Nat /\ frac[3] \in Nat
        BY <1>2, <2>1
    <2>5. P[1] = frac[1] /\ P[2] = frac[2] /\ P[3] = frac[3]
        BY <1>2, <1>3, <1>5
    <2>6. v[1] = frac[1]
        BY <1>1, <2>2, <2>3, <2>4
    <2>7. v[2] = 10 * frac[1] + frac[2]
        BY <2>2, <2>3, <2>6
    <2>8. v[3] = 100 * frac[1] + 10 * frac[2] + frac[3]
        <3> DEFINE x == frac[1]
                   y == frac[2]
                   z == frac[3]
                   b == v[2]
                   c == v[3]
        <3>1. x \in Nat /\ y \in Nat /\ z \in Nat /\ b = 10 * x + y /\ c = 10 * b + z
            BY <2>2, <2>3, <2>4, <2>7
        <3> HIDE DEF x, y, z, b, c
        <3>2. c = 100 * x + 10 * y + z
            BY <3>1
        <3> QED
            BY <3>2 DEF x, y, z, c
    <2> QED
        BY <1>6, <2>5, <2>8
<1> DEFINE a == L - 3
           b == MaxFraction + 3 - L
<1>12. a \in Nat /\ b \in Nat /\ a + b <= 11 /\ a + b = MaxFraction /\ a \in 0..11
    BY <1>2, <1>3
<1> HIDE DEF a, b
<1>13. /\ pow10(a + b) = pow10(a) * pow10(b) /\ pow10(a) = 10^a
       /\ pow10(a) \in Nat \ {0} /\ pow10(b) \in Nat \ {0}
    BY <1>12, Units, PowerIs
<1> DEFINE q == pow10(b)
           p == 10^a
           value == v[L]
           front == v[3]
<1>14. /\ value \in Nat /\ front \in Nat /\ p \in Nat /\ q \in Nat \ {0}
       /\ Split(value, front, p, tail)
    BY <1>7, <1>10, <1>13 DEF a
<1> HIDE DEF q, p, value, front
<1>15. /\ Split(value * q, front, p * q, tail * q)
       /\ tail * q \in Nat
       /\ tail * q = 0 => tail = 0
    BY <1>14, SplitScaled
<1>16. tail = 0 => tail * q = 0
    BY <1>14
<1>17. p * q = pow10(MaxFraction + 3 - 3)
    <2>1. MaxFraction + 3 - 3 = MaxFraction
        BY <1>2
    <2> QED
        BY <1>12, <1>13, <2>1 DEF p, q
<1>18. (\A i \in (3 + 1)..L : frac[i] = 0) <=> (\A i \in 1..L : i > 3 => frac[i] = 0)
    BY <1>2, <1>3
<1> DEFINE rest == tail * q
<1>19. Split(FractionValue(frac) * pow10(MaxFraction + 3 - L), FractionValue(P),
             pow10(MaxFraction + 3 - 3), rest)
    BY <1>1, <1>11, <1>15, <1>17 DEF value, front, q, b
<1>20. rest = 0 <=> \A i \in 1..L : i > 3 => frac[i] = 0
    BY <1>10, <1>15, <1>16, <1>18
<1>21. rest \in Nat
    BY <1>15
<1> HIDE DEF rest
<1>22. CutAfter(frac, 3, rest)
    BY <1>19, <1>20, <1>21 DEF CutAfter, L, P
<1> QED
    BY <1>22

(* What parseQuantity and parseMoney make of a text. *)
Regular(t) == t.sign = "" /\ t.whole >= 0
QuantityFits(t) ==
    Regular(t) /\ (t.dot => Len(t.frac) > 0 /\ \A i \in 1..Len(t.frac) : i > 3 => t.frac[i] = 0)
MoneyFits(t) == Regular(t) /\ (t.dot => Len(t.frac) \in 1..2)

LEMMA PadNothing ==
    Padded(<<>>, 2) = <<0, 0>> /\ Padded(<<>>, 3) = <<0, 0, 0>>
BY DEF Padded

(* What the normalizers accept, and the digits they give.                  *)
LEMMA MoneyNormal ==
    ASSUME NEW t \in Text
    PROVE  normalizeMoneyString(t)
             = IF MoneyFits(t) THEN Shown(t.whole, Padded(t.frac, 2)) ELSE Rejected
<1>1. /\ t.frac \in Seq(Nat) /\ t.dot \in BOOLEAN
      /\ ~t.dot => t.frac = <<>>
    BY TextFields
<1>2. normalizeMoneyString(t)
        = IF MoneyFits(t)
          THEN Shown(t.whole, IF t.dot THEN Pad(t.frac, 2) ELSE <<0, 0>>) ELSE Rejected
    BY DEF normalizeMoneyString, MoneyFits, Regular, Unsigned, AllDigits
<1>3. ASSUME MoneyFits(t)
      PROVE  (IF t.dot THEN Pad(t.frac, 2) ELSE <<0, 0>>) = Padded(t.frac, 2)
    <2>1. CASE t.dot
        <3>1. Len(t.frac) \in 1..2
            BY <1>3, <2>1, Zenon DEF MoneyFits
        <3>2. Len(t.frac) <= 2 /\ 2 \in Nat
            BY <3>1, OneOrTwo
        <3>3. Pad(t.frac, 2) = Padded(t.frac, 2)
            BY <1>1, <3>2, PadIs
        <3> QED
            BY <2>1, <3>3
    <2>2. CASE ~t.dot
        BY <1>1, <2>2, PadNothing
    <2> QED
        BY <2>1, <2>2
<1> QED
    BY <1>2, <1>3

LEMMA QuantityNormal ==
    ASSUME NEW t \in Text
    PROVE  normalizeQuantityString(t)
             = IF QuantityFits(t) THEN Shown(t.whole, Padded(t.frac, 3)) ELSE Rejected
<1> DEFINE frac == t.frac
           kept == IF Len(frac) > 3 THEN TrimZeros(frac) ELSE frac
           zeros == \A i \in 1..Len(frac) : i > 3 => frac[i] = 0
<1>1. frac \in Seq(Nat)
    BY TextFields
<1>2. t.dot \in BOOLEAN /\ (~t.dot => frac = <<>>)
    BY TextFields
<1>3. Len(frac) \in Nat /\ 3 \in Nat
    BY <1>1, Length
<1> HIDE DEF frac
<1>4. Len(kept) <= 3 <=> zeros
    <2>1. CASE Len(frac) > 3
        <3>1. PICK m \in 0..Len(frac) :
              /\ TrimZeros(frac) \in Seq(Nat) /\ Len(TrimZeros(frac)) = m
              /\ \A i \in 1..m : TrimZeros(frac)[i] = frac[i]
              /\ \A i \in 1..Len(frac) : i > m => frac[i] = 0
              /\ m # 0 => frac[m] # 0
            BY <1>1, Trimmed
        <3>2. kept = TrimZeros(frac)
            BY <2>1
        <3>3. ASSUME zeros PROVE m <= 3
            <4>1. CASE m = 0
                BY <4>1
            <4>2. CASE m # 0
                <5>1. m \in 1..Len(frac) /\ frac[m] # 0
                    BY <1>3, <3>1, <4>2
                <5>2. ~(m > 3)
                    BY <3>3, <5>1
                <5> QED
                    BY <5>1, <5>2
            <4> QED
                BY <4>1, <4>2
        <3>4. ASSUME m <= 3 PROVE zeros
            <4> SUFFICES ASSUME NEW i \in 1..Len(frac), i > 3 PROVE frac[i] = 0
                OBVIOUS
            <4>1. i > m
                BY <3>1, <3>4
            <4> QED
                BY <3>1, <4>1
        <3> QED
            BY <3>1, <3>2, <3>3, <3>4
    <2>2. CASE ~(Len(frac) > 3)
        <3>1. kept = frac /\ Len(frac) <= 3
            BY <1>3, <2>2
        <3>2. zeros
            BY <1>3, <3>1
        <3> QED
            BY <3>1, <3>2
    <2> QED
        BY <2>1, <2>2
<1>5. normalizeQuantityString(t)
        = IF QuantityFits(t)
          THEN Shown(t.whole, IF t.dot THEN Pad(kept, 3) ELSE <<0, 0, 0>>) ELSE Rejected
    <2>1. QuantityFits(t) <=> Regular(t) /\ (t.dot => Len(frac) > 0 /\ zeros)
        BY DEF QuantityFits, frac
    <2> DEFINE fits == Regular(t) /\ (t.dot => Len(frac) > 0 /\ Len(kept) <= 3)
    <2>2. fits <=> QuantityFits(t)
        <3> HIDE DEF kept, zeros
        <3> QED
            BY <1>4, <2>1
    <2>3. normalizeQuantityString(t)
            = IF fits THEN Shown(t.whole, IF t.dot THEN Pad(kept, 3) ELSE <<0, 0, 0>>) ELSE Rejected
        BY DEF normalizeQuantityString, Regular, Unsigned, AllDigits, frac
    <2> HIDE DEF fits, kept
    <2> QED
        BY <2>2, <2>3
<1>6. ASSUME QuantityFits(t)
      PROVE  (IF t.dot THEN Pad(kept, 3) ELSE <<0, 0, 0>>) = Padded(frac, 3)
    <2>1. CASE t.dot
        <3>1. zeros
            BY <1>6, <2>1 DEF QuantityFits, frac
        <3>2. Pad(kept, 3) = Padded(frac, 3)
            <4>1. CASE Len(frac) > 3
                <5>1. kept = TrimZeros(frac)
                    BY <4>1
                <5>2. Pad(TrimZeros(frac), 3) = Padded(frac, 3)
                    BY <1>1, <1>3, <3>1, PadTrimmed
                <5> QED
                    BY <5>1, <5>2
            <4>2. CASE ~(Len(frac) > 3)
                <5>1. kept = frac /\ Len(frac) <= 3
                    BY <1>3, <4>2
                <5> QED
                    BY <1>1, <1>3, <5>1, PadIs
            <4> QED
                BY <4>1, <4>2
        <3> QED
            BY <2>1, <3>2
    <2>2. CASE ~t.dot
        BY <1>2, <2>2, PadNothing
    <2> QED
        BY <2>1, <2>2
<1> HIDE DEF kept
<1> QED
    BY <1>5, <1>6 DEF frac

(* A number read from a text with n decimals. *)
Scaled(t, n) == t.whole * pow10(n) + FractionValue(Padded(t.frac, n))

LEMMA RegularWhole ==
    ASSUME NEW t \in Text, Regular(t)
    PROVE  t.whole \in Nat
<1>1. t.whole \in Nat \cup {0 - 1, 0 - 2}
    BY TextFields DEF Missing, Garbage
<1>2. t.whole >= 0
    BY DEF Regular
<1> QED
    BY <1>1, <1>2

LEMMA ScaledNatural ==
    ASSUME NEW t \in Text, Regular(t), NEW n \in {2, 3}
    PROVE  Scaled(t, n) \in Nat
<1>1. t.whole \in Nat
    BY RegularWhole
<1>2. Padded(t.frac, n) \in Seq(Nat)
    BY TextFields, PaddedIs
<1>3. FractionValue(Padded(t.frac, n)) \in Nat
    BY <1>2, FractionNatural
<1>4. pow10(n) \in Nat
    BY PowerValues
<1> QED
    BY <1>1, <1>3, <1>4 DEF Scaled

LEMMA Rescanned ==
    ASSUME NEW t \in Text, NEW n \in {2, 3}
    PROVE  ScanScientific(Shown(t.whole, Padded(t.frac, n))) = [int |-> Scaled(t, n), exp |-> 0 - n]
<1>1. Len(Padded(t.frac, n)) = n
    <2>1. t.frac \in Seq(Nat)
        BY TextFields
    <2> QED
        BY <2>1, PaddedIs
<1> QED
    BY <1>1 DEF ScanScientific, Shown, Scaled

(* What the readers of requests return.                                    *)
LEMMA MoneyRead ==
    ASSUME NEW t \in Text
    PROVE  parseMoney(t) = IF MoneyFits(t) THEN [int |-> Scaled(t, 2), exp |-> 0 - 2] ELSE NoNumeric
<1>1. Shown(t.whole, Padded(t.frac, 2)) # Rejected
    BY DEF Shown, Rejected
<1>2. ScanScientific(Shown(t.whole, Padded(t.frac, 2))) = [int |-> Scaled(t, 2), exp |-> 0 - 2]
    BY Rescanned
<1>3. CASE MoneyFits(t)
    <2>1. normalizeMoneyString(t) = Shown(t.whole, Padded(t.frac, 2))
        BY <1>3, MoneyNormal
    <2> QED
        BY <1>1, <1>2, <1>3, <2>1 DEF parseMoney
<1>4. CASE ~MoneyFits(t)
    <2>1. normalizeMoneyString(t) = Rejected
        BY <1>4, MoneyNormal
    <2> QED
        BY <1>4, <2>1 DEF parseMoney
<1> QED
    BY <1>3, <1>4

LEMMA PositiveDigits ==
    ASSUME NEW t \in Text, Regular(t)
    PROVE  hasPositiveDigit(Shown(t.whole, Padded(t.frac, 3))) <=> Scaled(t, 3) > 0
<1> DEFINE p == Padded(t.frac, 3)
           w == t.whole
           s == Shown(w, p)
<1>1. p \in Seq(Nat) /\ Len(p) = 3
    BY TextFields, PaddedIs
<1>2. w \in Nat
    BY RegularWhole
<1>3. Scaled(t, 3) = w * pow10(3) + FractionValue(p)
    BY DEF Scaled
<1>4. s.whole = w /\ s.frac = p
    BY DEF Shown
<1> HIDE DEF p, w, s
<1>5. FractionValue(p) = 100 * p[1] + 10 * p[2] + p[3]
    BY <1>1, ShortFractions
<1>6. p[1] \in Nat /\ p[2] \in Nat /\ p[3] \in Nat /\ DOMAIN p = {1, 2, 3}
    <2>1. DOMAIN p = 1..3
        BY <1>1
    <2>2. 1..3 = {1, 2, 3}
        OBVIOUS
    <2>3. \A i \in 1..Len(p) : p[i] \in Nat
        BY <1>1, Length
    <2>4. p[1] \in Nat /\ p[2] \in Nat /\ p[3] \in Nat
        BY <1>1, <2>2, <2>3
    <2> QED
        BY <2>1, <2>2, <2>4
<1>7. hasPositiveDigit(s) <=> w > 0 \/ p[1] > 0 \/ p[2] > 0 \/ p[3] > 0
    BY <1>4, <1>6 DEF hasPositiveDigit
<1> DEFINE a == p[1]
           b == p[2]
           c == p[3]
           x == Scaled(t, 3)
<1>8. x = w * 1000 + 100 * a + 10 * b + c /\ a \in Nat /\ b \in Nat /\ c \in Nat
    <2>1. pow10(3) = 1000
        BY PowerValues
    <2> DEFINE y == FractionValue(p)
    <2>2. x = w * 1000 + y /\ y = 100 * a + 10 * b + c
        BY <1>3, <1>5, <2>1
    <2> HIDE DEF a, b, c, x, y
    <2>3. a \in Nat /\ b \in Nat /\ c \in Nat
        BY <1>6 DEF a, b, c
    <2> QED
        BY <1>2, <2>2, <2>3
<1> HIDE DEF a, b, c, x
<1>9. x > 0 <=> w > 0 \/ a > 0 \/ b > 0 \/ c > 0
    BY <1>2, <1>8
<1> QED
    BY <1>7, <1>9 DEF a, b, c, x, s, w, p

LEMMA QuantityRead ==
    ASSUME NEW t \in Text
    PROVE  parseQuantity(t)
             = IF QuantityFits(t) /\ Scaled(t, 3) > 0
               THEN [int |-> Scaled(t, 3), exp |-> 0 - 3] ELSE NoNumeric
<1> DEFINE s == Shown(t.whole, Padded(t.frac, 3))
           N == Scaled(t, 3)
<1>1. s # Rejected
    BY DEF Shown, Rejected
<1>2. ScanScientific(s) = [int |-> N, exp |-> 0 - 3]
    BY Rescanned
<1>3. Regular(t) => (hasPositiveDigit(s) <=> N > 0)
    BY PositiveDigits
<1>4. QuantityFits(t) => Regular(t)
    BY DEF QuantityFits
<1>5. normalizeQuantityString(t) = IF QuantityFits(t) THEN s ELSE Rejected
    BY QuantityNormal
<1> HIDE DEF s, N
<1> DEFINE positive == N > 0
<1>6. Regular(t) => (hasPositiveDigit(s) <=> positive)
    BY <1>3
<1> SUFFICES parseQuantity(t) = IF QuantityFits(t) /\ positive THEN [int |-> N, exp |-> 0 - 3] ELSE NoNumeric
    BY DEF N
<1> HIDE DEF positive
<1>7. CASE QuantityFits(t) /\ positive
    <2>1. normalizeQuantityString(t) = s
        BY <1>5, <1>7
    <2>2. hasPositiveDigit(s)
        BY <1>4, <1>6, <1>7
    <2>3. parseQuantity(t) = ScanScientific(s)
        BY <1>1, <2>1, <2>2, Zenon DEF parseQuantity
    <2> QED
        BY <1>2, <1>7, <2>3
<1>8. CASE QuantityFits(t) /\ ~positive
    <2>1. normalizeQuantityString(t) = s
        BY <1>5, <1>8
    <2>2. ~hasPositiveDigit(s)
        BY <1>4, <1>6, <1>8
    <2>3. parseQuantity(t) = NoNumeric
        BY <2>1, <2>2, Zenon DEF parseQuantity
    <2> QED
        BY <1>8, <2>3
<1>9. CASE ~QuantityFits(t)
    <2>1. normalizeQuantityString(t) = Rejected
        BY <1>5, <1>9
    <2>2. parseQuantity(t) = NoNumeric
        BY <2>1, Zenon DEF parseQuantity
    <2> QED
        BY <1>9, <2>2
<1> QED
    BY <1>7, <1>8, <1>9

(* What a text means, in whole units and a rest. *)
LEMMA MeaningIs ==
    ASSUME NEW t \in Text, Regular(t), NEW n \in {2, 3}, NEW rest, CutAfter(t.frac, n, rest)
    PROVE  Split(Meaning(t), Scaled(t, n), pow10(MaxFraction + 3 - n), rest)
<1> DEFINE w == t.whole
           fv == FractionValue(t.frac) * pow10(MaxFraction + 3 - Len(t.frac))
           pv == FractionValue(Padded(t.frac, n))
           b == MaxFraction + 3 - n
           q == pow10(b)
           p == pow10(n)
<1>1. w \in Nat
    BY RegularWhole
<1>2. MaxFraction \in 0..7
    BY SamplesAssumption
<1>3. pow10(MaxFraction + 3) = p * q /\ p \in Nat /\ q \in Nat
    <2>1. n \in Nat /\ b \in Nat /\ n + b <= 11 /\ n + b = MaxFraction + 3
        BY <1>2
    <2> HIDE DEF b
    <2>2. pow10(n + b) = pow10(n) * pow10(b) /\ pow10(n) \in Nat \ {0} /\ pow10(b) \in Nat \ {0}
        BY <2>1, Units
    <2> QED
        BY <2>1, <2>2
<1>4. Split(fv, pv, q, rest) /\ rest \in Nat
    BY DEF CutAfter
<1>5. Padded(t.frac, n) \in Seq(Nat)
    BY TextFields, PaddedIs
<1>6. pv \in Nat
    BY <1>5, FractionNatural
<1>7. Meaning(t) = w * pow10(MaxFraction + 3) + fv /\ Scaled(t, n) = w * p + pv
    BY DEF Meaning, Scaled
<1> HIDE DEF w, fv, pv, q, p
<1>8. fv = pv * q + rest /\ rest < q
    BY <1>4 DEF Split
<1>9. w * (p * q) = (w * p) * q /\ (w * p + pv) * q = (w * p) * q + pv * q
    BY <1>1, <1>3, <1>6
<1> DEFINE x == (w * p) * q
           y == pv * q
           m == (w * p + pv) * q
<1>10. x \in Nat /\ y \in Nat
    <2>1. w * p \in Nat
        BY <1>1, <1>3
    <2> QED
        BY <1>3, <1>6, <2>1
<1>11. fv = y + rest /\ m = x + y /\ w * pow10(MaxFraction + 3) = x
    BY <1>3, <1>8, <1>9
<1>12. Meaning(t) = x + fv
    BY <1>7, <1>11
<1>13. Split(Meaning(t), w * p + pv, q, rest)
    <2> DEFINE z == Meaning(t)
    <2>1. z = x + fv
        BY <1>12
    <2> HIDE DEF x, y, z, m
    <2>2. z = m + rest
        BY <1>4, <1>10, <1>11, <2>1
    <2> QED
        BY <1>4, <1>8, <2>2 DEF Split, z, m
<1> QED
    BY <1>7, <1>13 DEF q, b

(* The rest is the remainder.                                              *)
LEMMA RestIs ==
    ASSUME NEW value, NEW front \in Nat, NEW power \in Nat \ {0}, NEW rest,
           Split(value, front, power, rest)
    PROVE  /\ value % power = rest
           /\ rest = 0 => value = front * power /\ (value > 0 <=> front > 0)
<1>1. rest \in 0..power - 1 /\ rest \in Nat /\ value = front * power + rest
    BY DEF Split
<1>2. value % power = rest
    BY <1>1, DivisionUnique
<1>3. ASSUME rest = 0 PROVE value = front * power /\ (value > 0 <=> front > 0)
    <2> DEFINE x == front * power
    <2>1. x \in Nat /\ (front = 0 => x = 0)
        OBVIOUS
    <2>2. front > 0 => x > 0
        <3> SUFFICES ASSUME front > 0 PROVE x > 0
            OBVIOUS
        <3>1. 1 * power <= front * power /\ 1 * power = power
            BY TimesMonotonic
        <3> QED
            BY <2>1, <3>1
    <2>3. value = x + rest
        BY <1>1
    <2> HIDE DEF x
    <2>4. value = x
        BY <1>3, <2>1, <2>3
    <2>5. x > 0 <=> front > 0
        BY <2>1, <2>2
    <2> QED
        BY <2>4, <2>5 DEF x
<1> QED
    BY <1>2, <1>3

LEMMA WorthOf ==
    ASSUME NEW x \in Nat, NEW n \in {2, 3}
    PROVE  Worth([int |-> x, exp |-> 0 - n]) = x * pow10(MaxFraction + 3 - n)
<1>1. MaxFraction \in Int
    BY SamplesAssumption
<1>2. (0 - n) + MaxFraction + 3 = MaxFraction + 3 - n
    BY <1>1
<1> QED
    BY <1>2 DEF Worth

(* A quantity is accepted exactly if it is positive and a whole number of  *)
(* thousandths, and keeps its value.                                       *)
QuantityExact(t) ==
    LET quantity == parseQuantity(t)
    IN  /\ WellFormed(t) =>
              (quantity # NoNumeric)
                 <=> (Meaning(t) > 0 /\ Meaning(t) % pow10(MaxFraction) = 0)
        /\ ~WellFormed(t) => quantity = NoNumeric
        /\ quantity # NoNumeric => Worth(quantity) = Meaning(t)

LEMMA WellFormedFields ==
    ASSUME NEW t \in Text
    PROVE  /\ WellFormed(t) <=> Regular(t) /\ (t.dot => Len(t.frac) > 0)
           /\ Regular(t) \in BOOLEAN /\ WellFormed(t) \in BOOLEAN
<1>1. /\ t.frac \in Seq(Nat) /\ t.dot \in BOOLEAN
      /\ ~t.dot => t.frac = <<>>
    BY TextFields
<1>2. t.frac # <<>> <=> Len(t.frac) > 0
    BY <1>1
<1> DEFINE some == Len(t.frac) > 0
           sound == t.whole >= 0
<1>3. t.frac # <<>> <=> some
    BY <1>2
<1>4. WellFormed(t) <=> t.sign = "" /\ sound /\ (t.dot <=> t.frac # <<>>)
    BY DEF WellFormed
<1>5. Regular(t) <=> t.sign = "" /\ sound
    BY DEF Regular
<1>6. Regular(t) \in BOOLEAN /\ WellFormed(t) \in BOOLEAN
    BY DEF Regular, WellFormed
<1> HIDE DEF some, sound
<1>7. WellFormed(t) <=> Regular(t) /\ (t.dot => some)
    BY <1>1, <1>3, <1>4, <1>5
<1> QED
    BY <1>6, <1>7 DEF some

LEMMA QuantitiesExact == ASSUME NEW t \in Text PROVE QuantityExact(t)
<1> DEFINE frac == t.frac
           zeros == \A i \in 1..Len(frac) : i > 3 => frac[i] = 0
           N == Scaled(t, 3)
           Q == pow10(MaxFraction)
           numeric == [int |-> N, exp |-> 0 - 3]
           positive == N > 0
           some == Len(frac) > 0
<1>1. parseQuantity(t) = IF QuantityFits(t) /\ positive THEN numeric ELSE NoNumeric
    BY QuantityRead
<1>2. QuantityFits(t) <=> Regular(t) /\ (t.dot => some /\ zeros)
    BY DEF QuantityFits
<1>3. WellFormed(t) <=> Regular(t) /\ (t.dot => some)
    BY WellFormedFields
<1>4. numeric # NoNumeric
    <2>1. numeric.exp = 0 - 3 /\ NoNumeric.exp = 0
        BY DEF NoNumeric
    <2>2. 0 - 3 # 0
        OBVIOUS
    <2> QED
        BY <2>1, <2>2
<1>5. t.dot \in BOOLEAN /\ (~t.dot => frac = <<>>)
    BY TextFields
<1>6. ~t.dot => zeros
    <2> SUFFICES ASSUME ~t.dot PROVE zeros
        OBVIOUS
    <2>1. frac = <<>>
        BY <1>5
    <2> HIDE DEF frac
    <2> QED
        BY <2>1
<1>7. ASSUME Regular(t)
      PROVE  /\ (Meaning(t) % Q = 0) <=> zeros
             /\ zeros => Meaning(t) = N * Q /\ (Meaning(t) > 0 <=> positive)
    <2>1. frac \in Seq(Nat) /\ Len(frac) <= MaxFraction /\ \A i \in 1..Len(frac) : frac[i] <= 9
        BY TextFields
    <2>2. PICK rest : CutAfter(frac, 3, rest)
        <3> HIDE DEF frac
        <3>1. CASE Len(frac) <= 3
            BY <2>1, <3>1, CutShort
        <3>2. CASE ~(Len(frac) <= 3)
            <4>1. Len(frac) > 3
                BY <2>1, <3>2, Length
            <4> QED
                BY <2>1, <4>1, CutLong
        <3> QED
            BY <3>1, <3>2
    <2>3. rest = 0 <=> zeros
        BY <2>2 DEF CutAfter
    <2>4. N \in Nat
        BY <1>7, ScaledNatural
    <2>5. MaxFraction + 3 - 3 = MaxFraction
        BY SamplesAssumption
    <2>6. Split(Meaning(t), N, Q, rest)
        BY <1>7, <2>2, <2>5, MeaningIs
    <2>7. Q \in Nat \ {0}
        BY FractionPowers
    <2> HIDE DEF N, Q, zeros, positive
    <2>8. /\ Meaning(t) % Q = rest
          /\ rest = 0 => Meaning(t) = N * Q /\ (Meaning(t) > 0 <=> N > 0)
        BY <2>4, <2>6, <2>7, RestIs
    <2> QED
        BY <2>3, <2>8 DEF positive
<1>8. Regular(t) => Worth(numeric) = N * Q
    <2>1. Regular(t) => N \in Nat
        BY ScaledNatural
    <2>2. MaxFraction + 3 - 3 = MaxFraction
        BY SamplesAssumption
    <2> HIDE DEF N
    <2>3. N \in Nat => Worth([int |-> N, exp |-> 0 - 3]) = N * pow10(MaxFraction + 3 - 3)
        BY WorthOf
    <2> QED
        BY <2>1, <2>2, <2>3
<1> DEFINE whole == Meaning(t) % Q = 0
           more == Meaning(t) > 0
           same == Meaning(t) = N * Q
<1>9. Regular(t) => (whole <=> zeros) /\ (zeros => same /\ (more <=> positive))
    BY <1>7
<1> HIDE DEF whole, more, same, positive, some, zeros
<1>10. WellFormed(t) => ((parseQuantity(t) # NoNumeric) <=> (more /\ whole))
    BY <1>1, <1>2, <1>3, <1>4, <1>6, <1>9, <1>5
<1>11. ~WellFormed(t) => parseQuantity(t) = NoNumeric
    BY <1>1, <1>2, <1>3
<1>12. parseQuantity(t) # NoNumeric => Worth(parseQuantity(t)) = Meaning(t)
    <2> SUFFICES ASSUME parseQuantity(t) # NoNumeric PROVE Worth(parseQuantity(t)) = Meaning(t)
        OBVIOUS
    <2>1. QuantityFits(t) /\ parseQuantity(t) = numeric
        BY <1>1
    <2>2. Regular(t) /\ zeros
        BY <1>2, <1>5, <1>6, <2>1
    <2>3. same
        BY <1>9, <2>2
    <2> HIDE DEF numeric
    <2> QED
        BY <1>8, <2>1, <2>2, <2>3 DEF same
<1> QED
    BY <1>10, <1>11, <1>12 DEF QuantityExact, more, whole

(* Money that is accepted keeps its value, and comes back from its column. *)
MoneyExact(t) ==
    LET money == parseMoney(t)
    IN  /\ ~WellFormed(t) => money = NoNumeric
        /\ money # NoNumeric =>
              /\ Worth(money) = Meaning(t)
              /\ \A v \in Stored(numericToScaledInt(money, 2), 2) :
                    parseMoney(formatMoneyString(DriverValue(v))) = money

(* The text of an amount is read as the amount. *)
LEMMA ShownMoneyRead ==
    ASSUME NEW n \in Nat
    PROVE  parseMoney(scaledIntToString(n, 2)) = [int |-> n, exp |-> 0 - 2]
<1> DEFINE D == DecimalsOf(n, 2)
           s == Shown(n \div pow10(2), D)
<1>1. scaledIntToString(n, 2) = s
    BY NumberShown
<1>2. n \div pow10(2) \in Nat /\ n \div pow10(2) >= 0
    <2>1. pow10(2) = 100
        BY PowerValues
    <2>2. n \div 100 \in Nat
        OBVIOUS
    <2>3. n \div 100 >= 0
        BY <2>2
    <2> QED
        BY <2>1, <2>2, <2>3
<1>3. D \in Seq(Nat) /\ Len(D) = 2
    <2>1. n % 100 \in Nat
        BY TwoPlaces
    <2>2. D = DigitsOf(n % 100, 2)
        BY TwoDecimals
    <2> DEFINE y == n % 100
    <2> HIDE DEF y, D
    <2>3. y \in Nat /\ 2 \in 0..4 /\ D = DigitsOf(y, 2)
        BY <2>1, <2>2 DEF y
    <2> QED
        BY <2>3, DigitsAre
<1>4. s.sign = "" /\ s.dot = TRUE /\ s.whole = n \div pow10(2) /\ s.frac = D
    BY DEF Shown
<1> HIDE DEF D, s
<1>5. Padded(D, 2) = D
    <2>1. D = [i \in 1..2 |-> D[i]]
        BY <1>3
    <2>2. Padded(D, 2) = [i \in 1..2 |-> D[i]]
        BY <1>3 DEF Padded
    <2> QED
        BY <2>1, <2>2
<1>6. Pad(D, 2) = D
    <2>1. 2 \in Nat /\ Len(D) <= 2
        BY <1>3
    <2> QED
        BY <1>3, <1>5, <2>1, PadIs
<1>7. normalizeMoneyString(s) = Shown(n \div pow10(2), D)
    <2>1. Len(s.frac) \in 1..2
        <3>1. s.frac = D
            BY <1>4
        <3>2. Len(s.frac) = 2
            BY <1>3, <3>1
        <3>3. 2 \in 1..2
            OBVIOUS
        <3> QED
            BY <3>2, <3>3
    <2>2. Unsigned(s)
        BY <1>4 DEF Unsigned
    <2>3. s.whole >= 0
        BY <1>2, <1>4
    <2>4. AllDigits(s)
        BY <2>3 DEF AllDigits
    <2>5. normalizeMoneyString(s) = Shown(s.whole, IF s.dot THEN Pad(s.frac, 2) ELSE <<0, 0>>)
        BY <2>1, <2>2, <2>4, Zenon DEF normalizeMoneyString
    <2> QED
        BY <1>4, <1>6, <2>5
<1>8. normalizeMoneyString(s) = s
    BY <1>7 DEF s
<1>9. s # Rejected
    <2>1. Rejected.sign = "rejected"
        BY DEF Rejected
    <2> QED
        BY <1>4, <2>1
<1>10. ScanScientific(s) = [int |-> n, exp |-> -2]
    <2>1. s.whole = n \div pow10(2) /\ s.frac \in Seq(Nat) /\ Len(s.frac) <= 2
          /\ Padded(s.frac, 2) = DecimalsOf(n, 2) /\ Len(s.frac) = 2
        <3>1. s.frac \in Seq(Nat) /\ Len(s.frac) = 2
            BY <1>3, <1>4
        <3>2. Len(s.frac) <= 2
            BY <3>1
        <3>3. Padded(s.frac, 2) = DecimalsOf(n, 2)
            BY <1>4, <1>5 DEF D
        <3> QED
            BY <1>4, <3>1, <3>2, <3>3
    <2> QED
        BY <2>1, MoneyScanned
<1>11. parseMoney(s) = ScanScientific(s)
    BY <1>8, <1>9, Zenon DEF parseMoney
<1>12. -2 = 0 - 2
    OBVIOUS
<1> QED
    BY <1>1, <1>10, <1>11, <1>12

LEMMA MoneysExact == ASSUME NEW t \in Text PROVE MoneyExact(t)
<1> DEFINE N == Scaled(t, 2)
           money == parseMoney(t)
           numeric == [int |-> N, exp |-> 0 - 2]
<1>1. money = IF MoneyFits(t) THEN numeric ELSE NoNumeric
    BY MoneyRead
<1>2. ~WellFormed(t) => money = NoNumeric
    <2>1. MoneyFits(t) => Regular(t) /\ (t.dot => Len(t.frac) > 0)
        BY DEF MoneyFits
    <2> HIDE DEF money, numeric
    <2>2. MoneyFits(t) => WellFormed(t)
        BY <2>1, WellFormedFields
    <2> QED
        BY <1>1, <2>2
<1>3. ASSUME MoneyFits(t) PROVE Worth(numeric) = Meaning(t) /\ N \in Nat
    <2>1. Regular(t)
        BY <1>3 DEF MoneyFits
    <2>2. N \in Nat
        BY <2>1, ScaledNatural
    <2>3. /\ t.frac \in Seq(Nat) /\ Len(t.frac) <= MaxFraction /\ (~t.dot => t.frac = <<>>)
        BY TextFields
    <2>4. Len(t.frac) <= 2
        <3>1. CASE t.dot
            <4>1. Len(t.frac) \in 1..2
                BY <1>3, <3>1, Zenon DEF MoneyFits
            <4> QED
                BY <4>1, OneOrTwo
        <3>2. CASE ~t.dot
            <4>1. t.frac = <<>>
                BY <2>3, <3>2
            <4> QED
                BY <4>1
        <3> QED
            BY <3>1, <3>2
    <2>5. CutAfter(t.frac, 2, 0)
        BY <2>3, <2>4, CutShort
    <2> DEFINE Q == pow10(MaxFraction + 3 - 2)
    <2>6. Split(Meaning(t), N, Q, 0)
        BY <2>1, <2>5, MeaningIs
    <2>7. Worth([int |-> N, exp |-> 0 - 2]) = N * Q
        <3> HIDE DEF N
        <3> QED
            BY <2>2, WorthOf
    <2>8. Meaning(t) = N * Q + 0 /\ 0 < Q
        <3> HIDE DEF N, Q
        <3> QED
            BY <2>6 DEF Split
    <2>9. Q \in Nat
        <3>1. MaxFraction + 3 - 2 = MaxFraction + 1
            BY SamplesAssumption
        <3>2. pow10(MaxFraction + 1) = 10 * pow10(MaxFraction) /\ pow10(MaxFraction) \in Nat
            BY FractionPowers
        <3> DEFINE z == pow10(MaxFraction)
        <3>3. Q = 10 * z /\ z \in Nat
            BY <3>1, <3>2
        <3> HIDE DEF z, Q
        <3> QED
            BY <3>3
    <2> HIDE DEF N, Q
    <2>10. N * Q \in Nat
        BY <2>2, <2>9
    <2>11. N * Q + 0 = N * Q
        BY <2>10
    <2> QED
        BY <2>2, <2>7, <2>8, <2>11
<1>4. ASSUME MoneyFits(t), NEW v \in Stored(numericToScaledInt(numeric, 2), 2)
      PROVE  parseMoney(formatMoneyString(DriverValue(v))) = numeric
    <2>1. N \in Nat
        BY <1>3, <1>4
    <2> HIDE DEF N
    <2>2. numericToScaledInt(numeric, 2) = N
        <3>1. numeric.exp = 0 - 2 /\ numeric.int = N
            OBVIOUS
        <3>2. 0 - 2 >= 0 - 2 /\ (0 - 2) + 2 = 0 /\ pow10(0) = 1
            BY PowerValues
        <3>3. numericToScaledInt(numeric, 2) = N * 1
            BY <3>1, <3>2 DEF numericToScaledInt
        <3> QED
            BY <2>1, <3>3
    <2>3. v \in Stored(N, 2)
        BY <1>4, <2>2
    <2>4. FromColumn(v, N, 2)
        BY <2>1, <2>3, StoredColumn
    <2>5. Means(DriverValue(v), N, 2)
        BY <2>4, DriverText
    <2>6. formatMoneyString(DriverValue(v)) = scaledIntToString(N, 2)
        BY <2>1, <2>5, MoneyShown
    <2> QED
        BY <2>1, <2>6, ShownMoneyRead
<1>5. money # NoNumeric => MoneyFits(t) /\ money = numeric
    BY <1>1
<1> HIDE DEF numeric, money
<1>6. money # NoNumeric =>
          /\ Worth(money) = Meaning(t)
          /\ \A v \in Stored(numericToScaledInt(money, 2), 2) :
                parseMoney(formatMoneyString(DriverValue(v))) = money
    BY <1>3, <1>4, <1>5
<1> QED
    BY <1>2, <1>6 DEF MoneyExact, money


-----------------------------------------------------------------------------
(* Rules of payment methods. *)

(* Inputs with any number of installments, any fee and any delay; a fee    *)
(* with at most four places is a multiple of 10^-4.                        *)
MethodInput ==
    {input \in [code : {"text", "blank"}, kind : PaymentMethodKind \cup {"unknown"},
                provider : {"null", "blank", "text"}, allowsChange : BOOLEAN,
                requiresExternalReference : BOOLEAN, allowsInstallments : BOOLEAN,
                maxInstallments : Int, feePercentage : [value : Nat, places : Int],
                settlementDays : Int, isActive : {"null", "TRUE", "FALSE"}] :
        input.feePercentage.places <= 4 => input.feePercentage.value % 10 = 0}

(* The shortest text of a fee has no more places than it needs. *)
LEMMA ShortFee ==
    ASSUME NEW value \in Nat, value % 10 = 0
    PROVE  feeString(value).value = value /\ feeString(value).places <= 4
<1> DEFINE Cut(p) == value % 10^(5 - p) = 0
           P(p) == Cut(p) /\ \A q \in 0..(p - 1) : ~Cut(q)
<1>1. Cut(4)
    <2>1. 10^(5 - 4) = 10
        OBVIOUS
    <2> QED
        BY <2>1
<1>2. feeString(value) = [value |-> value, places |-> CHOOSE p \in 0..5 : P(p)]
    BY DEF feeString
<1> HIDE DEF Cut
<1>3. \E p \in 0..4 : P(p)
    <2>1. 0..(0 - 1) = {} /\ 0..(1 - 1) = {0} /\ 0..(2 - 1) = {0, 1} /\ 0..(3 - 1) = {0, 1, 2}
          /\ 0..(4 - 1) = {0, 1, 2, 3}
        OBVIOUS
    <2> QED
        BY <1>1, <2>1
<1>4. \A p \in 0..5 : P(p) => p <= 4
    BY <1>1
<1> HIDE DEF P
<1>5. (CHOOSE p \in 0..5 : P(p)) <= 4
    <2>1. \E p \in 0..5 : P(p)
        BY <1>3
    <2> QED
        BY <1>4, <2>1
<1> QED
    BY <1>2, <1>5

(* What the service accepts as a payment method obeys the constraints of   *)
(* the table, and sending back what was shown, with or without isActive,   *)
(* is accepted and leaves the row as it was.                               *)
THEOREM MethodRows ==
    ASSUME NEW input \in MethodInput, Accepted(input)
    PROVE  RuleHolds(input)
<1> DEFINE row == CreatePaymentMethodForOrganization(input)
           shown == toPaymentMethodResponse(row)
           fee == input.feePercentage.value
<1>1. fee \in Nat /\ fee % 10 = 0
    BY DEF MethodInput, Accepted, decimalPattern
<1>2. feeString(fee).value = fee /\ feeString(fee).places <= 4
    BY <1>1, ShortFee
<1> DEFINE active == IF input.isActive # "null" THEN input.isActive ELSE "TRUE"
<1>3. row = [input EXCEPT !.isActive = active, !.feePercentage = fee]
    BY DEF CreatePaymentMethodForOrganization, normalizePaymentMethodInput
<1>4. active # "null"
    OBVIOUS
<1> HIDE DEF fee, active
<1>5. /\ DOMAIN row = DOMAIN input /\ row = [f \in DOMAIN input |-> row[f]]
      /\ row.isActive = active /\ row.feePercentage = fee
      /\ \A f \in DOMAIN input \ {"isActive", "feePercentage"} : row[f] = input[f]
    BY <1>3 DEF MethodInput
<1> HIDE DEF row
<1>6. DOMAIN input = {"code", "kind", "provider", "allowsChange", "requiresExternalReference",
                      "allowsInstallments", "maxInstallments", "feePercentage", "settlementDays", "isActive"}
    BY DEF MethodInput
<1>7. /\ row.code = input.code /\ row.kind = input.kind /\ row.provider = input.provider
      /\ row.allowsChange = input.allowsChange /\ row.allowsInstallments = input.allowsInstallments
      /\ row.requiresExternalReference = input.requiresExternalReference
      /\ row.maxInstallments = input.maxInstallments /\ row.settlementDays = input.settlementDays
    BY <1>5, <1>6
<1>8. Constraints(row)
    BY <1>1, <1>5, <1>7 DEF Accepted, Constraints
<1>9. ASSUME NEW back \in {shown, [shown EXCEPT !.isActive = "null"]}
      PROVE  Accepted(back) /\ UpdatePaymentMethodForOrganization(row, back) = row
    <2>1. shown = [row EXCEPT !.feePercentage = feeString(fee)]
        BY <1>5 DEF toPaymentMethodResponse
    <2>2. /\ DOMAIN back = DOMAIN input
          /\ back.feePercentage = feeString(fee)
          /\ \A f \in DOMAIN input \ {"isActive", "feePercentage"} : back[f] = row[f]
        BY <1>5, <1>6, <2>1
    <2>3. Accepted(back)
        BY <1>2, <1>5, <1>6, <1>7, <2>2 DEF Accepted, decimalPattern
    <2> DEFINE normal == normalizePaymentMethodInput(back, FALSE)
               after == UpdatePaymentMethodForOrganization(row, back)
    <2>4. /\ DOMAIN normal = DOMAIN back
          /\ normal.feePercentage = back.feePercentage.value
          /\ \A f \in DOMAIN back \ {"isActive", "feePercentage"} : normal[f] = back[f]
        BY <1>6, <2>2 DEF normalizePaymentMethodInput
    <2>5. after = [normal EXCEPT !.isActive = row.isActive]
        BY DEF UpdatePaymentMethodForOrganization
    <2> HIDE DEF normal
    <2>6. after = [f \in DOMAIN normal |-> IF f = "isActive" THEN row.isActive ELSE normal[f]]
        BY <2>5
    <2> HIDE DEF after
    <2>7. \A f \in DOMAIN input : after[f] = row[f]
        BY <1>2, <1>5, <1>6, <2>2, <2>4, <2>6
    <2>8. after = [f \in DOMAIN input |-> row[f]]
        BY <2>2, <2>4, <2>6, <2>7
    <2> QED
        BY <1>5, <2>3, <2>8 DEF after
<1> QED
    BY <1>8, <1>9 DEF RuleHolds, row

-----------------------------------------------------------------------------
(* Samples. *)

SampleOK == sample \in Samples \cup {Nothing}

(* The sample is one of the samples, or none has been taken. *)
LEMMA SamplesTried == MoneySpec => []SampleOK
<1>1. MoneyInit => SampleOK
    BY DEF MoneyInit, SampleOK
<1>2. SampleOK /\ [MoneyNext]_<<vars, sample>> => SampleOK'
    BY DEF SampleOK, MoneyNext, TrySample
<1> QED
    BY <1>1, <1>2, PTL DEF MoneySpec

(* What a sample holds.                                                    *)
LEMMA SampleFields ==
    ASSUME SampleOK
    PROVE  /\ sample.of = "amounts" => sample.price \in StoredMoney /\ sample.quantity \in StoredQuantity
           /\ sample.of = "text" => sample.text \in Text
           /\ sample.of = "method" => sample.input \in AcceptedInputs
BY DEF SampleOK, Samples, Nothing

(* Whatever money and quantities the columns hold and whichever exponents *)
(* the driver chooses, all packages compute the same cents and show the    *)
(* same texts.                                                             *)
THEOREM AmountsSound == MoneySpec => []AmountsAgree
<1>1. SampleOK => AmountsAgree
    <2> SUFFICES ASSUME SampleOK, sample.of = "amounts"
                 PROVE  AmountCents(sample.price, sample.quantity)
                        /\ AmountTexts(sample.price, sample.quantity)
        BY DEF AmountsAgree, AmountCents, AmountTexts
    <2>1. sample.price \in StoredMoney /\ sample.quantity \in StoredQuantity
        BY SampleFields
    <2>2. PICK cents \in Nat, thousandths \in Nat :
              FromColumn(sample.price, cents, 2) /\ FromColumn(sample.quantity, thousandths, 3)
        BY <2>1, AmountsOf
    <2> QED
        BY <2>2, TextsAgree, CentsAgree
<1> QED
    BY <1>1, SamplesTried, PTL

(* Whatever text a request has, quantities and amounts are read exactly or *)
(* refused.                                                                *)
THEOREM TextsSound == MoneySpec => []TextsReadExactly
<1>1. SampleOK => TextsReadExactly
    <2> SUFFICES ASSUME SampleOK, sample.of = "text"
                 PROVE  QuantityExact(sample.text) /\ MoneyExact(sample.text)
        BY DEF TextsReadExactly, QuantityExact, MoneyExact
    <2>1. sample.text \in Text
        BY SampleFields
    <2> QED
        BY <2>1, QuantitiesExact, MoneysExact
<1> QED
    BY <1>1, SamplesTried, PTL

(* Whatever methods are sent, the ones that are accepted obey the table's  *)
(* constraints and survive an edit.                                        *)
THEOREM MethodsSound == MoneySpec => []MethodRulesHold
<1>1. SampleOK => MethodRulesHold
    <2> SUFFICES ASSUME SampleOK, sample.of = "method"
                 PROVE  RuleHolds(sample.input)
        BY DEF MethodRulesHold
    <2>1. sample.input \in AcceptedInputs
        BY SampleFields
    <2>2. sample.input \in UpsertPaymentMethodInput /\ Accepted(sample.input)
        BY <2>1 DEF AcceptedInputs
    <2>3. sample.input \in MethodInput
        BY <2>2 DEF UpsertPaymentMethodInput, MethodInput, FeeText
    <2> QED
        BY <2>2, <2>3, MethodRows
<1> QED
    BY <1>1, SamplesTried, PTL

(* A caller who tries a sample changes nothing of the sale. *)
LEMMA MoneyRefinesSale == MoneySpec => Spec
<1>1. MoneyInit => Init
    BY DEF MoneyInit
<1>2. [MoneyNext]_<<vars, sample>> => [Next]_vars
    BY DEF MoneyNext, TrySample, vars
<1> QED
    BY <1>1, <1>2, PTL DEF MoneySpec, Spec

-----------------------------------------------------------------------------
(* Products and categories. *)

GoodsRow ==
    [org : Orgs, sku : Skus, barcode : Barcodes \cup {None}, category : Categories \cup {None},
     active : BOOLEAN]

CategoryRow ==
    [org : Orgs, name : Names, slug : {slugify(name) : name \in Names}, active : BOOLEAN]

RowRead ==
    [org : Orgs \cup {None}, sku : Skus \cup {None}, barcode : Barcodes \cup {None},
     category : Categories \cup {None}, active : BOOLEAN]

GoodsOps == {"create", "update", "activate", "deactivate"}
CategoryOps == {"categorize", "recategorize", "open", "close"}

Asked ==
    [op : GoodsOps \cup CategoryOps \cup {"none"},
     pc : {"idle", "sku", "barcode", "name", "slug", "write"},
     org : Orgs \cup {None}, id : ProductIds \cup Categories \cup {None}, canonical : BOOLEAN,
     sku : Skus \cup {None}, barcode : Barcodes \cup {None}, category : Categories \cup {None},
     name : Names \cup {<<>>}, read : RowRead,
     answer : {"none", "ok", "conflict", "failed", "notfound"}]

GoodsTypeOK ==
    /\ products \in [ProductIds -> GoodsRow \cup {NoProduct}]
    /\ category \in [Categories -> CategoryRow \cup {NoCategory}]
    /\ req \in [Requests -> Asked]

(* What a request that is at work may rely on: its row is not there yet,   *)
(* or is its organization's.                                               *)
Sound(q) ==
    q.pc # "idle" =>
        /\ q.op # "none" /\ q.answer = "none" /\ q.org \in Orgs
        /\ q.op \in GoodsOps => q.id \in ProductIds
        /\ q.op \in {"create", "update"} => q.sku \in Skus
        /\ q.op = "create" => products[q.id] = NoProduct
        /\ q.op \in GoodsOps \ {"create"} => products[q.id].org = q.org
        /\ q.op \in CategoryOps => q.id \in Categories
        /\ q.op \in {"categorize", "recategorize"} => q.name \in Names
        /\ q.op = "categorize" => category[q.id] = NoCategory

(* Two new rows do not get one id. *)
Apart(q, other) ==
    q.pc # "idle" /\ other.pc # "idle" /\ q.op = other.op /\ q.op \in {"create", "categorize"}
        => q.id # other.id

(* A product's category is its organization's. *)
CategoriesOwn ==
    \A p \in ProductIds : products[p].category # None => category[products[p].category].org = products[p].org

GoodsInv ==
    /\ GoodsTypeOK
    /\ \A r \in Requests : Sound(req[r])
    /\ \A r, s \in Requests : r # s => Apart(req[r], req[s])
    /\ CategoriesOwn

(* The three kinds of step: one that writes no row, one that writes the    *)
(* product and one that writes the category a request is about.            *)
Quiet(r) ==
    /\ UNCHANGED <<products, category>>
    /\ \E q \in Asked :
          /\ req' = [req EXCEPT ![r] = q]
          /\ Sound(q)
          /\ \A s \in Requests \ {r} : Apart(q, req[s])
          /\ req[r].pc # "idle" /\ q.answer = "failed" => Hopeless(r)

Stocks(r) ==
    LET q == req[r]
    IN  /\ q.pc # "idle" /\ q.op \in GoodsOps
        /\ UNCHANGED category
        /\ req' = [req EXCEPT ![r] = [Idle EXCEPT !.answer = "ok"]]
        /\ \E row \in GoodsRow :
              /\ products' = [products EXCEPT ![q.id] = row]
              /\ row.org = q.org
              /\ row.category # None => category[row.category].org = row.org
              /\ products[q.id] # NoProduct =>
                    \/ row.active = products[q.id].active
                    \/ row = [products[q.id] EXCEPT !.active = ~products[q.id].active]

Files(r) ==
    LET q == req[r]
    IN  /\ q.pc # "idle" /\ q.op \in CategoryOps
        /\ UNCHANGED products
        /\ req' = [req EXCEPT ![r] = [Idle EXCEPT !.answer = "ok"]]
        /\ q.op = "categorize" \/ category[q.id].org = q.org
        /\ \E row \in CategoryRow : category' = [category EXCEPT ![q.id] = row] /\ row.org = q.org

LEMMA GoodsStart == NoneIsNothing /\ CatalogueInit => GoodsInv
<1> SUFFICES ASSUME NoneIsNothing, CatalogueInit PROVE GoodsInv
    OBVIOUS
<1>1. products \in [ProductIds -> GoodsRow \cup {NoProduct}]
    BY DEF CatalogueInit
<1>2. category \in [Categories -> CategoryRow \cup {NoCategory}]
    <2> DEFINE There == {[org |-> o, name |-> name, slug |-> slugify(name), active |-> TRUE] :
                           o \in Orgs, name \in {n \in Names : slugify(n) # <<>>}}
    <2>1. There \subseteq CategoryRow
        <3> SUFFICES ASSUME NEW o \in Orgs, NEW name \in Names
                     PROVE  [org |-> o, name |-> name, slug |-> slugify(name), active |-> TRUE]
                                \in CategoryRow
            OBVIOUS
        <3>1. slugify(name) \in {slugify(n) : n \in Names}
            OBVIOUS
        <3> QED
            BY <3>1 DEF CategoryRow
    <2>2. category \in [Categories -> {NoCategory} \cup There]
        BY DEF CatalogueInit
    <2> HIDE DEF There
    <2> QED
        BY <2>1, <2>2
<1>3. Idle \in Asked /\ Idle.pc = "idle"
    BY DEF Idle, NoProduct, Asked, RowRead
<1>4. req = [r \in Requests |-> Idle]
    BY DEF CatalogueInit
<1>5. \A p \in ProductIds : products[p].category = None
    BY DEF CatalogueInit, NoProduct
<1> QED
    BY <1>1, <1>2, <1>3, <1>4, <1>5 DEF GoodsInv, GoodsTypeOK, Sound, Apart, CategoriesOwn

LEMMA AnswerAsked ==
    ASSUME NEW a \in {"none", "ok", "conflict", "failed", "notfound"}
    PROVE  LET q == [Idle EXCEPT !.answer = a]
           IN  q \in Asked /\ q.pc = "idle" /\ q.answer = a
BY DEF Idle, NoProduct, Asked, RowRead

(* An answer ends the request. *)
LEMMA AnsweredQuiet ==
    ASSUME GoodsInv, NEW r \in Requests, NEW a \in {"ok", "conflict", "failed", "notfound"},
           Answer(r, a), UNCHANGED <<products, category>>, a = "failed" => Hopeless(r)
    PROVE  Quiet(r)
<1> DEFINE q == [Idle EXCEPT !.answer = a]
<1>1. q \in Asked /\ q.pc = "idle" /\ q.answer = a
    BY AnswerAsked
<1>2. req' = [req EXCEPT ![r] = q]
    BY DEF Answer
<1> HIDE DEF q
<1> QED
    BY <1>1, <1>2 DEF Quiet, Sound, Apart

LEMMA GoneOnQuiet ==
    ASSUME GoodsInv, NEW r \in Requests, NEW pc \in {"barcode", "slug", "write"},
           Goto(r, pc), req[r].pc # "idle", UNCHANGED <<products, category>>
    PROVE  Quiet(r)
<1> DEFINE q == [req[r] EXCEPT !.pc = pc]
<1>0. req[r] \in Asked
    BY DEF GoodsInv, GoodsTypeOK
<1>1. /\ q \in Asked /\ q.pc # "idle" /\ q.op = req[r].op /\ q.answer = req[r].answer /\ q.org = req[r].org
      /\ q.id = req[r].id /\ q.sku = req[r].sku /\ q.name = req[r].name
    BY <1>0 DEF Asked
<1>2. req' = [req EXCEPT ![r] = q]
    BY DEF Goto
<1>3. Sound(req[r]) /\ \A s \in Requests \ {r} : Apart(req[r], req[s])
    BY DEF GoodsInv
<1> HIDE DEF q
<1>4. Sound(q) /\ q.answer = "none"
    BY <1>1, <1>3 DEF Sound
<1>5. \A s \in Requests \ {r} : Apart(q, req[s])
    BY <1>1, <1>3 DEF Apart
<1> QED
    BY <1>1, <1>2, <1>4, <1>5 DEF Quiet


-----------------------------------------------------------------------------
(* Requests begin. *)

LEMMA BegunQuiet ==
    ASSUME GoodsInv, NEW r \in Requests, NEW q \in Asked, Begin(r, q), Sound(q),
           \A s \in Requests \ {r} : Apart(q, req[s])
    PROVE  Quiet(r)
BY DEF Begin, Quiet

LEMMA ProductAsked ==
    ASSUME NEW op \in GoodsOps, NEW pc \in {"sku", "barcode", "write"}, NEW o \in Orgs, NEW id \in ProductIds,
           NEW sku \in Skus \cup {None}, NEW barcode \in Barcodes \cup {None},
           NEW cat \in Categories \cup {None}, NEW read \in RowRead
    PROVE  ProductRequest(op, pc, o, id, sku, barcode, cat, read) \in Asked
BY DEF ProductRequest, Asked

LEMMA CategoryAsked ==
    ASSUME NEW op \in CategoryOps, NEW pc \in {"name", "write"}, NEW o \in Orgs, NEW id \in Categories,
           NEW canonical \in BOOLEAN, NEW name \in Names \cup {<<>>}
    PROVE  CategoryRequest(op, pc, o, id, canonical, name) \in Asked
BY DEF CategoryRequest, NoProduct, Asked, RowRead

LEMMA CallQuiet ==
    ASSUME GoodsInv, NEW r \in Requests, Call(r)
    PROVE  Quiet(r)
<1> USE DEF GoodsOps, CategoryOps
<1>0. NoProduct \in RowRead
    BY DEF NoProduct, RowRead
<1>1. ASSUME NEW o \in Orgs, NEW id \in ProductIds, NEW sku \in Skus, NEW barcode \in Barcodes \cup {None},
             NEW cat \in Categories \cup {None}, CreateProduct(r, o, id, sku, barcode, cat)
      PROVE  Quiet(r)
    <2> DEFINE q == ProductRequest("create", "sku", o, id, sku, barcode, cat, NoProduct)
    <2>1. q \in Asked
        BY <1>0, ProductAsked
    <2>2. /\ products[id] = NoProduct
          /\ \A s \in Requests : req[s].pc = "idle" \/ req[s].id # id
          /\ Begin(r, q)
        BY <1>1 DEF CreateProduct, NewIds
    <2>3. Sound(q) /\ \A s \in Requests \ {r} : Apart(q, req[s])
        BY <2>2 DEF Sound, Apart, ProductRequest
    <2> HIDE DEF q
    <2> QED
        BY <2>1, <2>2, <2>3, BegunQuiet
<1>2. ASSUME NEW o \in Orgs, NEW id \in ProductIds, NEW sku \in Skus, NEW barcode \in Barcodes \cup {None},
             NEW cat \in Categories \cup {None}, UpdateProduct(r, o, id, sku, barcode, cat)
      PROVE  Quiet(r)
    <2> DEFINE read == [NoProduct EXCEPT !.barcode = products[id].barcode]
               pc == IF sku # products[id].sku THEN "sku" ELSE AfterSKU(barcode, read)
               q == ProductRequest("update", pc, o, id, sku, barcode, cat, read)
    <2>1. products[id].org = o /\ Begin(r, q)
        BY <1>2 DEF UpdateProduct, GetProductByIDForOrganization
    <2>2. products[id].barcode \in Barcodes \cup {None}
        BY DEF GoodsInv, GoodsTypeOK, GoodsRow, NoProduct
    <2>3. pc \in {"sku", "barcode", "write"}
        BY DEF AfterSKU
    <2>4. read \in RowRead
        BY <1>0, <2>2 DEF RowRead
    <2> HIDE DEF pc, read
    <2>5. q \in Asked
        BY <2>3, <2>4, ProductAsked
    <2>6. Sound(q) /\ \A s \in Requests \ {r} : Apart(q, req[s])
        BY <2>1 DEF Sound, Apart, ProductRequest
    <2> HIDE DEF q
    <2> QED
        BY <2>1, <2>5, <2>6, BegunQuiet
<1>3. ASSUME NEW o \in Orgs, NEW id \in ProductIds, NEW op \in {"activate", "deactivate"},
             SwitchProduct(r, o, id, op)
      PROVE  Quiet(r)
    <2> DEFINE q == ProductRequest(op, "write", o, id, None, None, None, products[id])
    <2>1. products[id] \in RowRead
        <3>1. products[id] \in GoodsRow \cup {NoProduct}
            BY DEF GoodsInv, GoodsTypeOK
        <3>2. GoodsRow \subseteq RowRead
            BY DEF GoodsRow, RowRead
        <3> QED
            BY <1>0, <3>1, <3>2
    <2>2. q \in Asked
        BY <2>1, ProductAsked
    <2>3. products[id].org = o /\ Begin(r, q)
        BY <1>3 DEF SwitchProduct, GetProductByIDForOrganization
    <2>4. Sound(q) /\ \A s \in Requests \ {r} : Apart(q, req[s])
        BY <2>3 DEF Sound, Apart, ProductRequest
    <2> HIDE DEF q
    <2> QED
        BY <2>2, <2>3, <2>4, BegunQuiet
<1>4. ASSUME NEW o \in Orgs, NEW id \in Categories, NEW name \in Names,
             CreateCategory(r, o, id, name)
      PROVE  Quiet(r)
    <2> DEFINE q == CategoryRequest("categorize", "name", o, id, TRUE, name)
    <2>1. q \in Asked
        BY CategoryAsked
    <2>2. /\ category[id] = NoCategory
          /\ \A s \in Requests : req[s].pc = "idle" \/ req[s].id # id
          /\ Begin(r, q)
        BY <1>4 DEF CreateCategory, NewIds
    <2>3. Sound(q) /\ \A s \in Requests \ {r} : Apart(q, req[s])
        BY <2>2 DEF Sound, Apart, CategoryRequest
    <2> HIDE DEF q
    <2> QED
        BY <2>1, <2>2, <2>3, BegunQuiet
<1>5. ASSUME NEW o \in Orgs, NEW id \in Categories, NEW name \in Names, NEW canonical \in BOOLEAN,
             UpdateCategory(r, o, id, canonical, name)
      PROVE  Quiet(r)
    <2> DEFINE q == CategoryRequest("recategorize", "name", o, id, canonical, name)
    <2>1. q \in Asked
        BY CategoryAsked
    <2>2. Begin(r, q)
        BY <1>5 DEF UpdateCategory
    <2>3. Sound(q) /\ \A s \in Requests \ {r} : Apart(q, req[s])
        BY DEF Sound, Apart, CategoryRequest
    <2> HIDE DEF q
    <2> QED
        BY <2>1, <2>2, <2>3, BegunQuiet
<1>6. ASSUME NEW o \in Orgs, NEW id \in Categories, NEW op \in {"open", "close"},
             SetActive(r, o, id, op)
      PROVE  Quiet(r)
    <2> DEFINE q == CategoryRequest(op, "write", o, id, TRUE, <<>>)
    <2>1. q \in Asked
        BY CategoryAsked
    <2>2. Begin(r, q)
        BY <1>6 DEF SetActive
    <2>3. Sound(q) /\ \A s \in Requests \ {r} : Apart(q, req[s])
        BY DEF Sound, Apart, CategoryRequest
    <2> HIDE DEF q
    <2> QED
        BY <2>1, <2>2, <2>3, BegunQuiet
<1> QED
    BY <1>1, <1>2, <1>3, <1>4, <1>5, <1>6 DEF Call

-----------------------------------------------------------------------------
(* Requests go on. *)

(* The rows of an organization are rows that are there. *)
LEMMA RowsThere ==
    ASSUME GoodsInv, NoneIsNothing, NEW r \in Requests, req[r].pc # "idle"
    PROVE  /\ req[r] \in Asked /\ Sound(req[r])
           /\ req[r].op \in GoodsOps \ {"create"} => products[req[r].id] \in GoodsRow
           /\ req[r].op \in CategoryOps /\ category[req[r].id].org = req[r].org
                 => category[req[r].id] \in CategoryRow
<1>1. req[r] \in Asked /\ Sound(req[r]) /\ None \notin Orgs
    BY DEF GoodsInv, GoodsTypeOK, NoneIsNothing
<1>2. ASSUME req[r].op \in GoodsOps \ {"create"}
      PROVE  products[req[r].id] \in GoodsRow
    <2>1. req[r].id \in ProductIds /\ products[req[r].id].org \in Orgs
        BY <1>1, <1>2 DEF Sound
    <2> QED
        BY <1>1, <2>1 DEF GoodsInv, GoodsTypeOK, NoProduct
<1>3. ASSUME req[r].op \in CategoryOps, category[req[r].id].org = req[r].org
      PROVE  category[req[r].id] \in CategoryRow
    <2>1. req[r].id \in Categories /\ category[req[r].id].org \in Orgs
        BY <1>1, <1>3 DEF Sound
    <2> QED
        BY <1>1, <2>1 DEF GoodsInv, GoodsTypeOK, NoCategory
<1> QED
    BY <1>1, <1>2, <1>3

LEMMA LookupsQuiet ==
    ASSUME GoodsInv, NEW r \in Requests,
           \/ ensureSKUAvailable(r) \/ ensureBarcodeAvailable(r)
           \/ ensureNameAvailable(r) \/ ensureSlugAvailable(r)
    PROVE  Quiet(r)
<1>1. /\ req[r].pc # "idle" /\ UNCHANGED <<products, category>>
      /\ Answer(r, "conflict") \/ \E pc \in {"barcode", "slug", "write"} : Goto(r, pc)
    BY DEF ensureSKUAvailable, ensureBarcodeAvailable, ensureNameAvailable,
           ensureSlugAvailable, AfterSKU
<1>2. CASE Answer(r, "conflict")
    BY <1>1, <1>2, AnsweredQuiet
<1>3. CASE \E pc \in {"barcode", "slug", "write"} : Goto(r, pc)
    BY <1>1, <1>3, GoneOnQuiet
<1> QED
    BY <1>1, <1>2, <1>3

LEMMA WriteProductKind ==
    ASSUME GoodsInv, NoneIsNothing, NEW r \in Requests, WriteProduct(r)
    PROVE  Quiet(r) \/ Stocks(r)
<1> DEFINE q == req[r]
           violated == Violated(q.org, q.id, q.sku, q.barcode, q.category)
<1>1. /\ q \in Asked /\ Sound(q) /\ q.op \in {"create", "update"} /\ q.pc = "write"
      /\ q.op = "update" => products[q.id] \in GoodsRow
    BY RowsThere DEF WriteProduct, GoodsOps
<1>2. /\ q.id \in ProductIds /\ q.org \in Orgs /\ q.sku \in Skus /\ q.barcode \in Barcodes \cup {None}
      /\ q.category \in Categories \cup {None}
      /\ q.op = "create" => products[q.id] = NoProduct
      /\ q.op = "update" => products[q.id].org = q.org
    BY <1>1 DEF Asked, Sound, GoodsOps
<1>3. category' = category
    BY DEF WriteProduct
<1>4. violated = {} => (q.category # None => category[q.category].org = q.org)
    BY DEF Violated
<1>5. CASE \E c \in violated : Answer(r, translatePersistenceError(c)) /\ UNCHANGED products
    <2>1. PICK c \in violated : Answer(r, translatePersistenceError(c)) /\ UNCHANGED products
        BY <1>5
    <2>2. c \notin {"sku_unique", "barcode_unique"} => q.category # None /\ category[q.category].org # q.org
        BY DEF Violated
    <2>3. translatePersistenceError(c) \in {"conflict", "failed"}
          /\ (translatePersistenceError(c) = "failed" => Hopeless(r))
        BY <2>2 DEF translatePersistenceError, Hopeless
    <2> QED
        BY <1>3, <2>1, <2>3, AnsweredQuiet
<1>6. CASE violated = {} /\ q.op = "create"
           /\ CreateProductForOrganization(q.org, q.id, q.sku, q.barcode, q.category)
           /\ Answer(r, "ok")
    <2> DEFINE row == [org |-> q.org, sku |-> q.sku, barcode |-> q.barcode, category |-> q.category,
                       active |-> TRUE]
    <2>1. products' = [products EXCEPT ![q.id] = row] /\ req' = [req EXCEPT ![r] = [Idle EXCEPT !.answer = "ok"]]
        BY <1>6 DEF CreateProductForOrganization, Answer
    <2>2. row \in GoodsRow /\ row.org = q.org /\ row.category = q.category
        BY <1>2 DEF GoodsRow
    <2> HIDE DEF row, violated
    <2> QED
        BY <1>1, <1>2, <1>3, <1>4, <1>6, <2>1, <2>2 DEF Stocks, GoodsOps
<1>7. CASE violated = {} /\ q.op = "update"
           /\ UpdateProductForOrganization(q.org, q.id, q.sku, q.barcode, q.category)
           /\ Answer(r, "ok")
    <2> DEFINE old == products[q.id]
               row == [old EXCEPT !.sku = q.sku, !.barcode = q.barcode, !.category = q.category]
    <2>0. old \in GoodsRow /\ DOMAIN products = ProductIds
        BY <1>1, <1>7 DEF GoodsInv, GoodsTypeOK
    <2>1. products' = [products EXCEPT ![q.id] = row] /\ req' = [req EXCEPT ![r] = [Idle EXCEPT !.answer = "ok"]]
        BY <1>2, <1>7, <2>0 DEF UpdateProductForOrganization, Answer
    <2>2. row \in GoodsRow /\ row.org = old.org /\ row.category = q.category /\ row.active = old.active
        <3> HIDE DEF old
        <3> QED
            BY <1>2, <2>0 DEF GoodsRow
    <2> HIDE DEF row, violated
    <2> QED
        BY <1>1, <1>2, <1>3, <1>4, <1>7, <2>1, <2>2 DEF Stocks, GoodsOps
<1> QED
    BY <1>5, <1>6, <1>7 DEF WriteProduct

LEMMA SwitchKind ==
    ASSUME GoodsInv, NoneIsNothing, NEW r \in Requests, Activate(r) \/ Deactivate(r)
    PROVE  Stocks(r)
<1> DEFINE q == req[r]
           old == products[q.id]
<1>1. PICK active \in BOOLEAN : products' = [products EXCEPT ![q.id].active = active]
    BY DEF Activate, Deactivate, ActivateProductForOrganization,
           DeactivateProductForOrganization
<1>2. /\ q.op \in {"activate", "deactivate"} /\ q.pc = "write" /\ category' = category
      /\ req' = [req EXCEPT ![r] = [Idle EXCEPT !.answer = "ok"]]
    BY DEF Activate, Deactivate, At, Answer
<1>3. old \in GoodsRow /\ old.org = q.org /\ q.id \in ProductIds
    BY <1>2, RowsThere DEF GoodsOps, Sound
<1>4. old.category # None => category[old.category].org = old.org
    BY <1>3 DEF GoodsInv, CategoriesOwn
<1> DEFINE row == [old EXCEPT !.active = active]
<1>5. products' = [products EXCEPT ![q.id] = row]
    BY <1>1, <1>3 DEF GoodsInv, GoodsTypeOK
<1>6. /\ row \in GoodsRow /\ row.org = old.org /\ row.category = old.category
      /\ row.active = old.active \/ row = [old EXCEPT !.active = ~old.active]
    <2> HIDE DEF old
    <2>1. old.active \in BOOLEAN
        BY <1>3 DEF GoodsRow
    <2>2. active = old.active \/ active = ~old.active
        BY <2>1
    <2> QED
        BY <1>3, <2>2 DEF GoodsRow
<1> HIDE DEF row
<1> QED
    BY <1>2, <1>3, <1>4, <1>5, <1>6 DEF Stocks, GoodsOps

LEMMA CategoryRefusals ==
    ASSUME GoodsInv, NamesAreTexts, NEW r \in Requests, req[r].name \in Names,
           NEW c \in CategoryViolated(req[r].org, req[r].id, req[r].name)
    PROVE  /\ translateCategoryError(c) \in {"conflict", "failed"}
           /\ translateCategoryError(c) = "failed" => Hopeless(r)
BY DEF CategoryViolated, translateCategoryError, Hopeless, NamesAreTexts

LEMMA CreateCategoryKind ==
    ASSUME GoodsInv, NoneIsNothing, NamesAreTexts, NEW r \in Requests,
           CreateCategoryForOrganization(r)
    PROVE  Quiet(r) \/ Files(r)
<1> DEFINE q == req[r]
           violated == CategoryViolated(q.org, q.id, q.name)
<1>1. /\ q.op = "categorize" /\ q.pc = "write" /\ products' = products
    BY DEF CreateCategoryForOrganization, At
<1>2. q.name \in Names /\ q.id \in Categories /\ q.org \in Orgs
    BY <1>1, RowsThere DEF Sound, CategoryOps
<1>3. CASE \E c \in violated : Answer(r, translateCategoryError(c)) /\ UNCHANGED category
    <2>1. PICK c \in violated : Answer(r, translateCategoryError(c)) /\ UNCHANGED category
        BY <1>3
    <2>2. /\ translateCategoryError(c) \in {"conflict", "failed"}
          /\ translateCategoryError(c) = "failed" => Hopeless(r)
        BY <1>2, CategoryRefusals
    <2> QED
        BY <1>1, <2>1, <2>2, AnsweredQuiet
<1> DEFINE row == [org |-> q.org, name |-> q.name, slug |-> slugify(q.name), active |-> TRUE]
<1>4. CASE category' = [category EXCEPT ![q.id] = row] /\ Answer(r, "ok")
    <2>1. row \in CategoryRow /\ row.org = q.org
        BY <1>2 DEF CategoryRow
    <2>2. req' = [req EXCEPT ![r] = [Idle EXCEPT !.answer = "ok"]]
        BY <1>4 DEF Answer
    <2> HIDE DEF row
    <2> QED
        BY <1>1, <1>4, <2>1, <2>2 DEF Files, CategoryOps
<1> QED
    BY <1>3, <1>4 DEF CreateCategoryForOrganization

LEMMA UpdateCategoryKind ==
    ASSUME GoodsInv, NoneIsNothing, NamesAreTexts, NEW r \in Requests,
           UpdateCategoryForOrganization(r)
    PROVE  Quiet(r) \/ Files(r)
<1> DEFINE q == req[r]
           old == category[q.id]
           violated == CategoryViolated(q.org, q.id, q.name)
<1>1. /\ q.op = "recategorize" /\ q.pc = "write" /\ products' = products
    BY DEF UpdateCategoryForOrganization, At
<1>2. q.name \in Names /\ q.id \in Categories
    BY <1>1, RowsThere DEF Sound, CategoryOps
<1>3. CASE \E c \in violated : Answer(r, translateCategoryError(c)) /\ UNCHANGED category
    <2>1. PICK c \in violated : Answer(r, translateCategoryError(c)) /\ UNCHANGED category
        BY <1>3
    <2>2. /\ translateCategoryError(c) \in {"conflict", "failed"}
          /\ translateCategoryError(c) = "failed" => Hopeless(r)
        BY <1>2, CategoryRefusals
    <2> QED
        BY <1>1, <2>1, <2>2, AnsweredQuiet
<1>4. CASE Answer(r, "notfound") /\ UNCHANGED category
    BY <1>1, <1>4, AnsweredQuiet
<1> DEFINE row == [old EXCEPT !.name = q.name, !.slug = slugify(q.name)]
<1>5. CASE /\ old.org = q.org /\ Answer(r, "ok")
           /\ category' = [category EXCEPT ![q.id].name = q.name, ![q.id].slug = slugify(q.name)]
    <2>1. old \in CategoryRow
        BY <1>1, <1>5, RowsThere DEF CategoryOps
    <2>2. category' = [category EXCEPT ![q.id] = row]
        BY <1>2, <1>5 DEF GoodsInv, GoodsTypeOK
    <2>3. row \in CategoryRow /\ row.org = old.org
        <3> DEFINE slug == slugify(q.name)
        <3>1. slug \in {slugify(name) : name \in Names}
            BY <1>2
        <3> HIDE DEF old, slug
        <3> QED
            BY <1>2, <2>1, <3>1 DEF CategoryRow
    <2>4. req' = [req EXCEPT ![r] = [Idle EXCEPT !.answer = "ok"]]
        BY <1>5 DEF Answer
    <2> HIDE DEF row
    <2> QED
        BY <1>1, <1>5, <2>2, <2>3, <2>4 DEF Files, CategoryOps
<1> QED
    BY <1>3, <1>4, <1>5 DEF UpdateCategoryForOrganization

LEMMA SwitchCategoryKind ==
    ASSUME GoodsInv, NoneIsNothing, NEW r \in Requests,
           ActivateCategoryForOrganization(r) \/ DeactivateCategoryForOrganization(r)
    PROVE  Quiet(r) \/ Files(r)
<1> DEFINE q == req[r]
           old == category[q.id]
<1>1. /\ q.op \in {"open", "close"} /\ q.pc = "write" /\ products' = products
    BY DEF ActivateCategoryForOrganization, DeactivateCategoryForOrganization, At
<1>2. CASE Answer(r, "notfound") /\ UNCHANGED category
    BY <1>1, <1>2, AnsweredQuiet
<1>3. CASE /\ old.org = q.org /\ Answer(r, "ok")
           /\ \E active \in BOOLEAN : category' = [category EXCEPT ![q.id].active = active]
    <2>1. old \in CategoryRow /\ q.id \in Categories
        BY <1>1, <1>3, RowsThere DEF CategoryOps, Sound
    <2>2. PICK active \in BOOLEAN : category' = [category EXCEPT ![q.id].active = active]
        BY <1>3
    <2> DEFINE row == [old EXCEPT !.active = active]
    <2>3. category' = [category EXCEPT ![q.id] = row]
        BY <2>1, <2>2 DEF GoodsInv, GoodsTypeOK
    <2>4. row \in CategoryRow /\ row.org = old.org
        <3> HIDE DEF old
        <3> QED
            BY <2>1 DEF CategoryRow
    <2>5. req' = [req EXCEPT ![r] = [Idle EXCEPT !.answer = "ok"]]
        BY <1>3 DEF Answer
    <2> HIDE DEF row
    <2> QED
        BY <1>1, <1>3, <2>3, <2>4, <2>5 DEF Files, CategoryOps
<1> QED
    BY <1>2, <1>3 DEF ActivateCategoryForOrganization, DeactivateCategoryForOrganization

LEMMA StepKinds ==
    ASSUME GoodsInv, NoneIsNothing, NamesAreTexts, CatalogueNext
    PROVE  \E r \in Requests : Quiet(r) \/ Stocks(r) \/ Files(r)
BY CallQuiet, LookupsQuiet, WriteProductKind, SwitchKind, CreateCategoryKind, UpdateCategoryKind,
   SwitchCategoryKind DEF CatalogueNext, Step

-----------------------------------------------------------------------------
(* What the three kinds of step keep. *)

LEMMA QuietKeeps ==
    ASSUME GoodsInv, NEW r \in Requests, Quiet(r)
    PROVE  GoodsInv' /\ RaceAnswered /\ SwitchKeeps /\ OwnRows
<1>1. PICK q \in Asked :
          /\ req' = [req EXCEPT ![r] = q]
          /\ Sound(q)
          /\ \A s \in Requests \ {r} : Apart(q, req[s])
          /\ req[r].pc # "idle" /\ q.answer = "failed" => Hopeless(r)
    BY DEF Quiet
<1>2. UNCHANGED <<products, category>>
    BY DEF Quiet
<1>3. req \in [Requests -> Asked] /\ req'[r] = q /\ \A s \in Requests \ {r} : req'[s] = req[s]
    BY <1>1 DEF GoodsInv, GoodsTypeOK
<1>4. GoodsTypeOK'
    BY <1>1, <1>2, <1>3 DEF GoodsInv, GoodsTypeOK
<1>5. \A s \in Requests : Sound(req[s])'
    BY <1>1, <1>2, <1>3 DEF GoodsInv, Sound
<1>6. \A s, t \in Requests : s # t => Apart(req[s], req[t])'
    BY <1>1, <1>3 DEF GoodsInv, Apart
<1>7. CategoriesOwn'
    BY <1>2 DEF GoodsInv, CategoriesOwn
<1>8. RaceAnswered
    BY <1>1, <1>3 DEF GoodsInv, Sound, RaceAnswered
<1>9. SwitchKeeps /\ OwnRows
    BY <1>2 DEF GoodsInv, CategoriesOwn, SwitchKeeps, OwnRows
<1> QED
    BY <1>4, <1>5, <1>6, <1>7, <1>8, <1>9 DEF GoodsInv

LEMMA StocksKeeps ==
    ASSUME GoodsInv, NoneIsNothing, NEW r \in Requests, Stocks(r)
    PROVE  GoodsInv' /\ RaceAnswered /\ SwitchKeeps /\ OwnRows
<1> DEFINE q == req[r]
           done == [Idle EXCEPT !.answer = "ok"]
<1>1. /\ q.pc # "idle" /\ q.op \in GoodsOps /\ category' = category /\ req' = [req EXCEPT ![r] = done]
    BY DEF Stocks
<1>2. PICK row \in GoodsRow :
          /\ products' = [products EXCEPT ![q.id] = row]
          /\ row.org = q.org
          /\ row.category # None => category[row.category].org = row.org
          /\ products[q.id] # NoProduct =>
                \/ row.active = products[q.id].active
                \/ row = [products[q.id] EXCEPT !.active = ~products[q.id].active]
    BY DEF Stocks
<1>3. done \in Asked /\ done.pc = "idle" /\ done.answer = "ok"
    BY AnswerAsked
<1> HIDE DEF done
<1>4. /\ q \in Asked /\ Sound(q) /\ q.id \in ProductIds /\ q.org \in Orgs /\ None \notin Orgs
      /\ products[q.id] = NoProduct \/ products[q.id].org = q.org
      /\ q.op = "create" => products[q.id] = NoProduct
      /\ q.op # "create" => products[q.id].org = q.org
    BY <1>1, RowsThere DEF Sound, NoneIsNothing, GoodsOps
<1>5. /\ products'[q.id] = row /\ \A p \in ProductIds \ {q.id} : products'[p] = products[p]
      /\ req'[r] = done /\ \A s \in Requests \ {r} : req'[s] = req[s]
    BY <1>1, <1>2, <1>4 DEF GoodsInv, GoodsTypeOK
<1>6. GoodsTypeOK'
    BY <1>1, <1>2, <1>3 DEF GoodsInv, GoodsTypeOK
<1>7. ASSUME NEW s \in Requests
      PROVE  Sound(req[s])'
    <2>1. CASE s = r
        BY <1>3, <1>5, <2>1 DEF Sound
    <2>2. CASE s # r /\ req[s].pc # "idle"
        <3>1. req'[s] = req[s] /\ Sound(req[s]) /\ Apart(req[r], req[s])
            BY <1>5, <2>2 DEF GoodsInv
        <3>2. ASSUME req[s].op = "create"
              PROVE  products'[req[s].id] = NoProduct
            <4>1. products[req[s].id] = NoProduct /\ req[s].id \in ProductIds
                BY <2>2, <3>1, <3>2 DEF Sound, GoodsOps
            <4>2. q.id # req[s].id
                BY <1>1, <1>4, <2>2, <3>1, <3>2, <4>1 DEF Apart, NoProduct
            <4> QED
                BY <1>5, <4>1, <4>2
        <3>3. ASSUME req[s].op \in GoodsOps \ {"create"}
              PROVE  products'[req[s].id].org = req[s].org
            <4>1. products[req[s].id].org = req[s].org /\ req[s].id \in ProductIds /\ req[s].org \in Orgs
                BY <2>2, <3>1, <3>3 DEF Sound, GoodsOps
            <4>2. q.id = req[s].id => row.org = req[s].org
                BY <1>2, <1>4, <4>1 DEF NoProduct
            <4> QED
                BY <1>5, <4>1, <4>2
        <3> QED
            BY <1>1, <2>2, <3>1, <3>2, <3>3 DEF Sound
    <2>3. CASE s # r /\ req[s].pc = "idle"
        BY <1>5, <2>3 DEF Sound
    <2> QED
        BY <2>1, <2>2, <2>3
<1>8. \A s, t \in Requests : s # t => Apart(req[s], req[t])'
    BY <1>3, <1>5 DEF GoodsInv, Apart
<1>9. CategoriesOwn'
    BY <1>1, <1>2, <1>4, <1>5 DEF GoodsInv, CategoriesOwn
<1>10. RaceAnswered
    BY <1>3, <1>5 DEF GoodsInv, Sound, RaceAnswered
<1>11. SwitchKeeps
    <2> SUFFICES ASSUME NEW p \in ProductIds, products[p] # NoProduct, products'[p].active # products[p].active
                 PROVE  products'[p] = [products[p] EXCEPT !.active = ~products[p].active]
        BY DEF SwitchKeeps
    <2> QED
        BY <1>2, <1>5
<1>12. OwnRows
    BY <1>1, <1>2, <1>4, <1>5, <1>9 DEF OwnRows, CategoriesOwn, NoProduct
<1> QED
    BY <1>6, <1>7, <1>8, <1>9, <1>10, <1>11, <1>12 DEF GoodsInv

LEMMA FilesKeeps ==
    ASSUME GoodsInv, NoneIsNothing, NEW r \in Requests, Files(r)
    PROVE  GoodsInv' /\ RaceAnswered /\ SwitchKeeps /\ OwnRows
<1> DEFINE q == req[r]
           done == [Idle EXCEPT !.answer = "ok"]
<1>1. /\ q.pc # "idle" /\ q.op \in CategoryOps /\ products' = products /\ req' = [req EXCEPT ![r] = done]
      /\ q.op = "categorize" \/ category[q.id].org = q.org
    BY DEF Files
<1>2. PICK row \in CategoryRow : category' = [category EXCEPT ![q.id] = row] /\ row.org = q.org
    BY DEF Files
<1>3. done \in Asked /\ done.pc = "idle" /\ done.answer = "ok"
    BY AnswerAsked
<1> HIDE DEF done
<1>4. /\ q \in Asked /\ Sound(q) /\ q.id \in Categories /\ q.org \in Orgs /\ None \notin Orgs
      /\ q.op = "categorize" => category[q.id] = NoCategory
    BY <1>1, RowsThere DEF Sound, NoneIsNothing, CategoryOps
<1>5. /\ category'[q.id] = row /\ \A c \in Categories \ {q.id} : category'[c] = category[c]
      /\ req'[r] = done /\ \A s \in Requests \ {r} : req'[s] = req[s]
    BY <1>1, <1>2, <1>4 DEF GoodsInv, GoodsTypeOK
<1>6. GoodsTypeOK'
    BY <1>1, <1>2, <1>3 DEF GoodsInv, GoodsTypeOK
<1>7. ASSUME NEW s \in Requests
      PROVE  Sound(req[s])'
    <2>1. CASE s = r
        BY <1>3, <1>5, <2>1 DEF Sound
    <2>2. CASE s # r /\ req[s].pc # "idle"
        <3>1. req'[s] = req[s] /\ Sound(req[s]) /\ Apart(req[r], req[s])
            BY <1>5, <2>2 DEF GoodsInv
        <3>2. ASSUME req[s].op = "categorize"
              PROVE  category'[req[s].id] = NoCategory
            <4>1. category[req[s].id] = NoCategory /\ req[s].id \in Categories
                BY <2>2, <3>1, <3>2 DEF Sound, CategoryOps
            <4>2. q.id # req[s].id
                BY <1>1, <1>4, <2>2, <3>1, <3>2, <4>1 DEF Apart, NoCategory
            <4> QED
                BY <1>5, <4>1, <4>2
        <3> QED
            BY <1>1, <2>2, <3>1, <3>2 DEF Sound
    <2>3. CASE s # r /\ req[s].pc = "idle"
        BY <1>5, <2>3 DEF Sound
    <2> QED
        BY <2>1, <2>2, <2>3
<1>8. \A s, t \in Requests : s # t => Apart(req[s], req[t])'
    BY <1>3, <1>5 DEF GoodsInv, Apart
<1>9. CategoriesOwn'
    <2> SUFFICES ASSUME NEW p \in ProductIds, products[p].category # None
                 PROVE  category'[products[p].category].org = products[p].org
        BY <1>1 DEF CategoriesOwn
    <2>1. products[p] \in GoodsRow /\ category[products[p].category].org = products[p].org
        BY DEF GoodsInv, GoodsTypeOK, CategoriesOwn, NoProduct
    <2>2. products[p].category \in Categories /\ products[p].org \in Orgs
        BY <2>1 DEF GoodsRow
    <2>3. products[p].category = q.id => products[p].org = q.org
        BY <1>1, <1>4, <2>1, <2>2 DEF NoCategory
    <2> QED
        BY <1>2, <1>5, <2>1, <2>2, <2>3
<1>10. RaceAnswered
    BY <1>3, <1>5 DEF GoodsInv, Sound, RaceAnswered
<1>11. SwitchKeeps
    BY <1>1 DEF SwitchKeeps
<1>12. OwnRows
    BY <1>1, <1>2, <1>4, <1>5, <1>9 DEF OwnRows, CategoriesOwn, NoCategory
<1> QED
    BY <1>6, <1>7, <1>8, <1>9, <1>10, <1>11, <1>12 DEF GoodsInv

LEMMA GoodsStep ==
    ASSUME GoodsInv, NoneIsNothing, NamesAreTexts, [CatalogueNext]_catalogue
    PROVE  /\ GoodsInv'
           /\ [RaceAnswered]_catalogue
           /\ [SwitchKeeps]_catalogue
           /\ [OwnRows]_catalogue
<1>1. CASE CatalogueNext
    BY <1>1, StepKinds, QuietKeeps, StocksKeeps, FilesKeeps
<1>2. CASE UNCHANGED catalogue
    BY <1>2 DEF catalogue, GoodsInv, GoodsTypeOK, Sound, Apart, CategoriesOwn
<1> QED
    BY <1>1, <1>2

(* The rows of products and categories have their types, no two requests   *)
(* make one row, a product's category is its organization's, and a request *)
(* at work finds its row as it left it.                                    *)
THEOREM GoodsCorrect == CatalogueSpec => []GoodsInv
<1>1. CatalogueInit => GoodsInv
    BY GoodsStart, CatalogueAssumption
<1>2. GoodsInv /\ [CatalogueNext]_catalogue => GoodsInv'
    BY GoodsStep, CatalogueAssumption
<1> QED
    BY <1>1, <1>2, PTL DEF CatalogueSpec

(* However the statements of handlers interleave, only what is hopeless    *)
(* fails as an internal error; who loses a race is told what is taken.     *)
THEOREM LosersAnswered == CatalogueSpec => RacesAnswered
<1>1. GoodsInv /\ [CatalogueNext]_catalogue => [RaceAnswered]_catalogue
    BY GoodsStep, CatalogueAssumption
<1> QED
    BY <1>1, GoodsCorrect, PTL DEF CatalogueSpec, RacesAnswered

(* No edit undoes a switch and no switch undoes an edit, although both     *)
(* write after a read.                                                     *)
THEOREM EditsKept == CatalogueSpec => SwitchKeepsEdits
<1>1. GoodsInv /\ [CatalogueNext]_catalogue => [SwitchKeeps]_catalogue
    BY GoodsStep, CatalogueAssumption
<1> QED
    BY <1>1, GoodsCorrect, PTL DEF CatalogueSpec, SwitchKeepsEdits

(* Handlers write rows of their own organization only, and a product's     *)
(* category is one of its organization's.                                  *)
THEOREM RowsOwn == CatalogueSpec => OwnRowsOnly
<1>1. GoodsInv /\ [CatalogueNext]_catalogue => [OwnRows]_catalogue
    BY GoodsStep, CatalogueAssumption
<1> QED
    BY <1>1, GoodsCorrect, PTL DEF CatalogueSpec, OwnRowsOnly

-----------------------------------------------------------------------------
(* Listings. *)

(* Places without a gap: what has its own among as many as there are       *)
(* elements is listed there.                                               *)
LEMMA OwnPlaces ==
    ASSUME NEW S, IsFiniteSet(S), NEW before \in [S -> 0..Cardinality(S) - 1],
           \A a, b \in S : before[a] = before[b] => a = b
    PROVE  /\ InOrder(before) \in Seq(S)
           /\ Len(InOrder(before)) = Cardinality(S)
           /\ \A i \in S : InOrder(before)[before[i] + 1] = i
<1> DEFINE n == Cardinality(S)
           seq == InOrder(before)
<1>1. n \in Nat
    BY FS_CardinalityType
<1>2. before \in Injection(S, 0..n - 1)
    BY DEF Injection, IsInjective
<1>3. seq = [k \in 1..n |-> CHOOSE i \in S : before[i] = k - 1]
    BY DEF InOrder
<1>4. before \in [S -> 0..n - 1]
    OBVIOUS
<1> HIDE DEF n, seq
<1>5. ASSUME NEW k \in 1..n
      PROVE  seq[k] \in S /\ before[seq[k]] = k - 1
    <2>1. IsFiniteSet(0..n - 1) /\ Cardinality(0..n - 1) = n
        <3>1. 0 \in Int /\ n - 1 \in Int
            BY <1>1
        <3>2. IsFiniteSet(0..n - 1) /\ Cardinality(0..n - 1) = IF 0 > n - 1 THEN 0 ELSE n - 1 - 0 + 1
            BY <3>1, FS_Interval
        <3> QED
            BY <1>1, <3>2
    <2>2. before \in Surjection(S, 0..n - 1)
        <3>1. Cardinality(S) = Cardinality(0..n - 1) <=> before \in Surjection(S, 0..n - 1)
            BY <1>2, <2>1, FS_Injection
        <3> QED
            BY <2>1, <3>1 DEF n
    <2>3. k - 1 \in 0..n - 1
        BY <1>1
    <2>4. \E i \in S : before[i] = k - 1
        BY <2>2, <2>3 DEF Surjection
    <2> QED
        BY <2>4, <1>3
<1>6. seq \in Seq(S) /\ Len(seq) = n
    BY <1>1, <1>3, <1>5
<1>7. ASSUME NEW i \in S
      PROVE  seq[before[i] + 1] = i
    <2>1. before[i] + 1 \in 1..n /\ before[i] + 1 - 1 = before[i]
        BY <1>1, <1>4
    <2> QED
        BY <2>1, <1>5
<1> QED
    BY <1>6, <1>7 DEF n, seq

(* A set that is ordered by a relation is listed without a gap: every      *)
(* element has its place after those before it.                            *)
LEMMA EveryPlace ==
    ASSUME NEW S, IsFiniteSet(S), NEW R,
           \A a \in S : <<a, a>> \notin R,
           \A a, b, c \in S : <<a, b>> \in R /\ <<b, c>> \in R => <<a, c>> \in R,
           \A a, b \in S : a # b => <<a, b>> \in R \/ <<b, a>> \in R
    PROVE  LET before == [i \in S |-> Cardinality({j \in S : <<j, i>> \in R})]
           IN  /\ InOrder(before) \in Seq(S)
               /\ Len(InOrder(before)) = Cardinality(S)
               /\ \A i \in S : /\ before[i] \in 0..Cardinality(S) - 1
                               /\ InOrder(before)[before[i] + 1] = i
<1> DEFINE n == Cardinality(S)
           Below(i) == {j \in S : <<j, i>> \in R}
           before == [i \in S |-> Cardinality(Below(i))]
<1>1. n \in Nat
    BY FS_CardinalityType
<1>2. \A i \in S : before[i] = Cardinality(Below(i))
    OBVIOUS
<1>3. \A i \in S : Below(i) \in SUBSET S /\ i \notin Below(i)
    OBVIOUS
<1>4. \A a, b \in S : <<a, b>> \in R => /\ Below(a) \in SUBSET Below(b)
                                        /\ a \in Below(b) /\ a \notin Below(a)
    OBVIOUS
<1>5. before = [i \in S |-> before[i]]
    OBVIOUS
<1> HIDE DEF n, Below, before
<1>6. ASSUME NEW i \in S
      PROVE  IsFiniteSet(Below(i)) /\ Cardinality(Below(i)) \in Nat /\ before[i] \in 0..n - 1
    <2>1. Below(i) # S
        BY <1>3
    <2>2. IsFiniteSet(Below(i)) /\ Cardinality(Below(i)) <= n /\ Cardinality(Below(i)) # n
        BY <1>3, <2>1, FS_Subset DEF n
    <2>3. Cardinality(Below(i)) \in Nat
        BY <2>2, FS_CardinalityType
    <2> QED
        BY <1>1, <1>2, <2>2, <2>3
<1>7. ASSUME NEW a \in S, NEW b \in S, <<a, b>> \in R
      PROVE  before[a] < before[b]
    <2>1. Below(a) \in SUBSET Below(b) /\ Below(a) # Below(b)
        BY <1>4, <1>7
    <2>2. Cardinality(Below(a)) <= Cardinality(Below(b)) /\ Cardinality(Below(a)) # Cardinality(Below(b))
        BY <2>1, <1>6, FS_Subset
    <2>3. Cardinality(Below(a)) \in Nat /\ Cardinality(Below(b)) \in Nat
        BY <1>6
    <2> QED
        BY <1>2, <2>2, <2>3
<1>8. ASSUME NEW a \in S, NEW b \in S, before[a] = before[b]
      PROVE  a = b
    <2>1. before[a] \in Int /\ before[b] \in Int
        BY <1>1, <1>6
    <2>2. ~(<<a, b>> \in R) /\ ~(<<b, a>> \in R)
        BY <1>7, <1>8, <2>1
    <2> QED
        BY <2>2
<1>9. before \in [S -> 0..n - 1]
    BY <1>5, <1>6
<1>10. /\ InOrder(before) \in Seq(S)
       /\ Len(InOrder(before)) = n
       /\ \A i \in S : InOrder(before)[before[i] + 1] = i
    BY <1>8, <1>9, OwnPlaces DEF n
<1> QED
    BY <1>6, <1>10 DEF n, Below, before

(* What is said of the constants of Listings.                             *)
ListingsHold ==
    KnownLists /\ NumbersForIds /\ TimeGoesOn /\ StoresHaveOrgs /\ RowsWithContent

(* The rows of any table, whose columns are typed.                         *)
Row == [org : Tenants, store : Stores, status : {"OPEN", "DONE"}, at : 0..MaxTime,
        active : BOOLEAN, name : Labels, kind : Labels \cup {Unset},
        stock : Nat \cup {NoStock}, expires : Nat, event : Events \cup {NoEvent}]

TableOK ==
    /\ DOMAIN table \subseteq Ids
    /\ IsFiniteSet(DOMAIN table)
    /\ \A i \in DOMAIN table : table[i] \in Row

(* How many rows of S are newer than i. *)
Ahead(S, i) == Cardinality({j \in S : Newer(j, i)})

(* Both orders place every row of a set. *)
LEMMA NewestPlaces ==
    ASSUME ListingsHold, TableOK, NEW S \in SUBSET DOMAIN table
    PROVE  /\ Newest(S) \in Seq(S)
           /\ Len(Newest(S)) = Cardinality(S)
           /\ \A i \in S : /\ Ahead(S, i) \in 0..Cardinality(S) - 1
                           /\ Newest(S)[Ahead(S, i) + 1] = i
<1>1. IsFiniteSet(S)
    BY FS_Subset DEF TableOK
<1>2. ASSUME NEW i \in S
      PROVE  i \in Int /\ table[i].at \in Int
    <2>1. i \in Ids /\ table[i] \in Row
        BY DEF TableOK
    <2>2. Ids \subseteq Nat /\ MaxTime \in Nat
        BY DEF ListingsHold, NumbersForIds, TimeGoesOn
    <2> QED
        BY <2>1, <2>2, SMT DEF Row
<1> DEFINE R == {p \in S \X S : Newer(p[1], p[2])}
<1>3. \A a, b \in S : <<a, b>> \in R <=> Newer(a, b)
    OBVIOUS
<1>4. /\ \A a \in S : <<a, a>> \notin R
      /\ \A a, b, c \in S : <<a, b>> \in R /\ <<b, c>> \in R => <<a, c>> \in R
      /\ \A a, b \in S : a # b => <<a, b>> \in R \/ <<b, a>> \in R
    <2> HIDE DEF R
    <2> QED
        BY <1>2, <1>3 DEF Newer
<1>5. \A i \in S : {j \in S : <<j, i>> \in R} = {j \in S : Newer(j, i)}
    BY <1>3
<1> HIDE DEF R
<1> DEFINE before == [i \in S |-> Cardinality({j \in S : <<j, i>> \in R})]
<1>6. before = [i \in S |-> Cardinality({j \in S : Newer(j, i)})]
    BY <1>5
<1>7. /\ InOrder(before) \in Seq(S)
      /\ Len(InOrder(before)) = Cardinality(S)
      /\ \A i \in S : /\ before[i] \in 0..Cardinality(S) - 1
                      /\ InOrder(before)[before[i] + 1] = i
    BY <1>1, <1>4, EveryPlace
<1>8. \A i \in S : before[i] = Ahead(S, i)
    BY <1>5 DEF Ahead
<1>9. Newest(S) = InOrder(before)
    BY <1>6 DEF Newest
<1> HIDE DEF before
<1> QED
    BY <1>7, <1>8, <1>9

LEMMA ByNamePlaces ==
    ASSUME ListingsHold, TableOK, NEW S \in SUBSET DOMAIN table
    PROVE  ByName(S) \in Seq(S) /\ Len(ByName(S)) = Cardinality(S)
<1>1. IsFiniteSet(S)
    BY FS_Subset DEF TableOK
<1>2. ASSUME NEW i \in S
      PROVE  i \in Int /\ table[i].name \in Int
    <2>1. i \in Ids /\ table[i] \in Row
        BY DEF TableOK
    <2>2. Ids \subseteq Nat /\ MaxTime \in Nat
        BY DEF ListingsHold, NumbersForIds, TimeGoesOn
    <2> QED
        BY <2>1, <2>2, SMT DEF Row, Labels
<1> DEFINE R == {p \in S \X S : NamedBefore(p[1], p[2])}
<1>3. \A a, b \in S : <<a, b>> \in R <=> NamedBefore(a, b)
    OBVIOUS
<1>4. /\ \A a \in S : <<a, a>> \notin R
      /\ \A a, b, c \in S : <<a, b>> \in R /\ <<b, c>> \in R => <<a, c>> \in R
      /\ \A a, b \in S : a # b => <<a, b>> \in R \/ <<b, a>> \in R
    <2> HIDE DEF R
    <2> QED
        BY <1>2, <1>3 DEF NamedBefore
<1>5. \A i \in S : {j \in S : <<j, i>> \in R} = {j \in S : NamedBefore(j, i)}
    BY <1>3
<1> HIDE DEF R
<1> DEFINE before == [i \in S |-> Cardinality({j \in S : <<j, i>> \in R})]
<1>6. before = [i \in S |-> Cardinality({j \in S : NamedBefore(j, i)})]
    BY <1>5
<1>7. /\ InOrder(before) \in Seq(S)
      /\ Len(InOrder(before)) = Cardinality(S)
      /\ \A i \in S : /\ before[i] \in 0..Cardinality(S) - 1
                      /\ InOrder(before)[before[i] + 1] = i
    BY <1>1, <1>4, EveryPlace
<1>8. ByName(S) = InOrder(before)
    BY <1>6 DEF ByName
<1> HIDE DEF before
<1> QED
    BY <1>7, <1>8

-----------------------------------------------------------------------------
(* Pages. *)

(* An offset an int32 holds is not changed by the conversion. *)
LEMMA WrapKeeps ==
    ASSUME ListingsHold, NEW offset \in 0..MaxInt
    PROVE  Wrap(offset) = offset
<1>1. MaxInt \in Nat
    BY DEF ListingsHold, TimeGoesOn
<1> DEFINE span == 2 * (MaxInt + 1)
<1>2. span \in Nat /\ offset < span /\ offset \in Nat
    BY <1>1
<1>3. offset % span = offset
    <2> HIDE DEF span
    <2> QED
        BY <1>2
<1> QED
    BY <1>1, <1>3 DEF Wrap

LEMMA WrapInt ==
    ASSUME ListingsHold, NEW n \in Int
    PROVE  Wrap(n) \in Int
<1>1. MaxInt \in Nat
    BY DEF ListingsHold, TimeGoesOn
<1> DEFINE span == 2 * (MaxInt + 1)
<1>2. span \in Int /\ span > 0
    BY <1>1
<1>3. n % span \in Int
    <2> HIDE DEF span
    <2> QED
        BY <1>2
<1> QED
    BY <1>1, <1>3 DEF Wrap

(* A page is followed by another exactly if rows are left. *)
LEMMA PagesEnough ==
    ASSUME NEW page \in Nat, NEW size \in Nat \ {0}, NEW total \in Nat
    PROVE  page >= paginationResponse(size, total) <=> page * size >= total
<1> DEFINE n == total + size - 1
           q == n \div size
<1>1. n \in Nat /\ size \in Nat /\ size > 0
    OBVIOUS
<1>2. q \in Nat /\ q * size <= n /\ n < q * size + size
    <2> HIDE DEF n
    <2>1. n \div size \in Int /\ n % size \in 0..size - 1 /\ n = size * (n \div size) + (n % size)
        BY <1>1
    <2>2. q >= 0
        BY <1>1
    <2>3. size * q = q * size /\ q * size \in Int
        BY <2>1, <1>1
    <2> QED
        BY <2>1, <2>2, <2>3, <1>1
<1>3. paginationResponse(size, total) = q
    BY DEF paginationResponse
<1>4. q * size \in Nat /\ page * size \in Nat
    BY <1>1, <1>2, TimesMonotonic
<1>5. CASE page >= q
    <2>1. q * size <= page * size
        BY <1>1, <1>2, <1>5, TimesMonotonic
    <2>2. page * size >= total
        <3> HIDE DEF q
        <3> QED
            BY <1>2, <1>4, <2>1
    <2> QED
        BY <1>3, <1>5, <2>2
<1>6. CASE ~(page >= q)
    <2>1. page + 1 <= q /\ page + 1 \in Nat
        BY <1>2, <1>6
    <2>2. (page + 1) * size <= q * size
        BY <1>1, <1>2, <2>1, TimesMonotonic
    <2>3. (page + 1) * size = page * size + size
        OBVIOUS
    <2>4. page * size < total
        <3> HIDE DEF q
        <3> QED
            BY <1>2, <1>4, <2>2, <2>3
    <2> QED
        BY <1>3, <1>4, <1>6, <2>4
<1> QED
    BY <1>5, <1>6

(* "page is too large" refuses what would not fit. *)
LEMMA AcceptedFits ==
    ASSUME ListingsHold, NEW page \in Nat, NEW size \in Nat \ {0},
           normalizeAuditPagination(page, size)
    PROVE  (page - 1) * size \in 0..MaxInt
<1>1. MaxInt \in Nat /\ size \in Nat \ {0} /\ page - 1 \in Nat
    BY DEF ListingsHold, TimeGoesOn, NumbersForIds, normalizeAuditPagination
<1> DEFINE q == MaxInt \div size
<1>2. page - 1 <= q
    BY DEF normalizeAuditPagination
<1>3. q \in Nat /\ q * size <= MaxInt
    <2>1. MaxInt \div size \in Int /\ MaxInt % size \in 0..size - 1
          /\ MaxInt = size * (MaxInt \div size) + (MaxInt % size)
        BY <1>1
    <2>2. q >= 0
        BY <1>1
    <2>3. size * q = q * size /\ q * size \in Int
        BY <2>1, <1>1
    <2> QED
        BY <2>1, <2>2, <2>3, <1>1
<1> HIDE DEF q
<1>4. (page - 1) * size <= q * size /\ (page - 1) * size \in Nat /\ q * size \in Nat
    BY <1>1, <1>2, <1>3, TimesMonotonic
<1> QED
    BY <1>1, <1>3, <1>4

(* A page has nothing but rows of the list. *)
LEMMA PageRows ==
    ASSUME ListingsHold, NEW S, NEW seq \in Seq(S), NEW page \in Nat, NEW size \in Nat
    PROVE  Range(PageOf(seq, page, size)) \subseteq S
<1> DEFINE offset == Wrap((page - 1) * size)
           last == IF offset + size < Len(seq) THEN offset + size ELSE Len(seq)
<1>1. (page - 1) * size \in Int
    OBVIOUS
<1>2. offset \in Int
    BY <1>1, WrapInt
<1>3. CASE offset < 0
    BY <1>3 DEF PageOf, Range
<1>4. CASE offset >= 0
    <2>1. last \in Int /\ last <= Len(seq)
        BY <1>2
    <2>2. PageOf(seq, page, size) = SubSeq(seq, offset + 1, last)
        BY <1>2, <1>4 DEF PageOf
    <2> HIDE DEF offset, last
    <2>3. SubSeq(seq, offset + 1, last) \in Seq(S)
        BY <1>2, <1>4, <2>1
    <2>4. ASSUME NEW t \in Seq(S)
          PROVE  Range(t) \subseteq S
        BY DEF Range
    <2> QED
        BY <2>2, <2>3, <2>4
<1> QED
    BY <1>2, <1>3, <1>4

(* A page whose offset fits has the rows of its places. *)
LEMMA PagePlaces ==
    ASSUME ListingsHold, NEW S, NEW seq \in Seq(S), NEW page \in Nat, NEW size \in Nat,
           (page - 1) * size \in 0..MaxInt
    PROVE  /\ \A k \in 1..Len(seq) : (page - 1) * size < k /\ k <= (page - 1) * size + size
                  => seq[k] \in Range(PageOf(seq, page, size))
           /\ \A i \in DOMAIN PageOf(seq, page, size) :
                  i \in Int /\ (page - 1) * size + i <= Len(seq)
<1> DEFINE offset == Wrap((page - 1) * size)
           last == IF offset + size < Len(seq) THEN offset + size ELSE Len(seq)
<1>1. offset = (page - 1) * size
    BY WrapKeeps
<1>2. offset \in Nat
    BY <1>1 DEF ListingsHold, TimeGoesOn
<1>3. PageOf(seq, page, size) = SubSeq(seq, offset + 1, last)
    <2>1. offset >= 0
        BY <1>2
    <2> QED
        BY <2>1, <1>2 DEF PageOf
<1> HIDE DEF offset
<1>4. last \in Nat /\ last <= Len(seq) /\ \A k \in 1..Len(seq) : k <= offset + size => k <= last
    BY <1>2
<1> HIDE DEF last
<1>5. /\ DOMAIN SubSeq(seq, offset + 1, last) = 1..(last - offset)
      /\ \A i \in 1..(last - offset) : SubSeq(seq, offset + 1, last)[i] = seq[offset + i]
    BY <1>2, <1>4
<1>6. ASSUME NEW k \in 1..Len(seq), offset < k, k <= offset + size
      PROVE  seq[k] \in Range(SubSeq(seq, offset + 1, last))
    <2>1. k - offset \in 1..(last - offset) /\ offset + (k - offset) = k
        BY <1>2, <1>4, <1>6
    <2> QED
        BY <2>1, <1>5 DEF Range
<1>7. \A i \in DOMAIN SubSeq(seq, offset + 1, last) : i \in Int /\ offset + i <= Len(seq)
    BY <1>2, <1>4, <1>5
<1> QED
    BY <1>1, <1>3, <1>6, <1>7

-----------------------------------------------------------------------------
(* The walk of a client. *)

(* A row of the tenant that asks, and what holds of all listings.          *)
Own(i) ==
    /\ table[i].org = walk.q.org
    /\ list \in {"sales", "inventory", "movements"} => table[i].store = walk.q.store

ListingOK ==
    /\ list \in Lists
    /\ TableOK
    /\ clock \in 0..MaxTime
    /\ DOMAIN walk = {"pc", "q", "size", "page", "total", "seen", "began"}
    /\ walk.pc \in {"idle", "first", "second", "next", "done", "refused"}
    /\ walk.size \in Nat \ {0} /\ walk.page \in Nat /\ walk.total \in Nat
    /\ \A i \in walk.seen : i \in DOMAIN table /\ Own(i)

LEMMA ListingInit ==
    ASSUME ListingsHold, ListingsInit
    PROVE  ListingOK
<1>1. list \in Lists /\ clock \in 0..MaxTime
    BY DEF ListingsInit, ListingsHold, TimeGoesOn
<1>2. DOMAIN table = {}
    BY DEF ListingsInit
<1>3. TableOK
    BY <1>2, FS_EmptySet DEF TableOK
<1>4. walk = NoWalk
    BY DEF ListingsInit
<1> QED
    BY <1>1, <1>3, <1>4 DEF ListingOK, NoWalk

(* Rows that are inserted are whole. *)
LEMMA NewRowsWhole ==
    ASSUME ListingsHold, ListingOK, NEW row \in NewRows(clock)
    PROVE  row \in Row
<1>1. MaxTime \in Nat /\ 0 \in 0..MaxTime /\ list \in Lists
    BY DEF ListingsHold, TimeGoesOn, ListingOK
<1>2. \A s \in Stores : OrgOf[s] \in Tenants
    BY DEF ListingsHold, StoresHaveOrgs
<1>3. Contents[list] \subseteq Content
    BY <1>1 DEF ListingsHold, RowsWithContent
<1>4. ASSUME NEW s \in Stores, NEW when \in 0..MaxTime, NEW c \in Content
      PROVE  NewRow(s, when, c) \in Row
    BY <1>2 DEF NewRow, Row, Content
<1>5. PICK s \in Stores, c \in Contents[list],
           when \in IF list \in Catalogs \cup {"stores"} THEN {0}
                    ELSE {clock, clock - 1} \cap (0..MaxTime) :
               row = NewRow(s, when, c)
    BY DEF NewRows, Times
<1>6. when \in 0..MaxTime
    BY <1>1, <1>5
<1> QED
    BY <1>3, <1>4, <1>5, <1>6

(* A change leaves a row with its organization and its store, and what is  *)
(* ordered by time in its place.                                           *)
LEMMA ChangedRows ==
    ASSUME ListingsHold, ListingOK, NEW i \in DOMAIN table, NEW row \in Changed(table[i])
    PROVE  /\ row \in Row /\ row.org = table[i].org /\ row.store = table[i].store
           /\ row.at = table[i].at /\ row.event = table[i].event
<1>1. list \in Lists /\ table[i] \in Row
    BY DEF ListingOK, TableOK
<1>2. CASE list \in {"audit", "movements"}
    BY <1>2 DEF Changed
<1>3. CASE list \in {"sales", "members", "invitations", "stores"}
    BY <1>1, <1>3 DEF Changed, Row
<1>4. CASE list \in {"products", "categories"}
    <2>1. CASE row = [table[i] EXCEPT !.active = ~@]
        BY <1>1, <2>1 DEF Row
    <2>2. CASE \E n \in Labels : row = [table[i] EXCEPT !.name = n]
        BY <1>1, <2>2 DEF Row
    <2> QED
        BY <1>4, <2>1, <2>2 DEF Changed
<1>5. CASE list \in {"catalog", "inventory"}
    <2>1. CASE row = [table[i] EXCEPT !.active = FALSE]
        BY <1>1, <2>1 DEF Row
    <2>2. CASE row = [table[i] EXCEPT !.stock = 0]
        BY <1>1, <2>2 DEF Row
    <2> QED
        BY <1>5, <2>1, <2>2 DEF Changed
<1> QED
    BY <1>1, <1>2, <1>3, <1>4, <1>5 DEF ListingsHold, KnownLists

(* What other requests do: nothing that was there goes, or moves to        *)
(* another organization, store or time.                                    *)
Grown ==
    /\ list' = list /\ walk' = walk
    /\ TableOK' /\ clock' \in 0..MaxTime
    /\ \A i \in DOMAIN table :
           /\ i \in DOMAIN table'
           /\ table'[i].org = table[i].org /\ table'[i].store = table[i].store
           /\ table'[i].at = table[i].at /\ table'[i].event = table[i].event

LEMMA OthersGrow ==
    ASSUME ListingsHold, ListingOK,
           \/ \E i \in Ids, row \in NewRows(clock) : Insert(i, row)
           \/ \E i \in DOMAIN table : \E row \in Changed(table[i]) : Change(i, row)
           \/ Tick
    PROVE  Grown
<1>1. ASSUME NEW i \in Ids, NEW row \in NewRows(clock), Insert(i, row)
      PROVE  Grown
    <2>1. row \in Row
        BY NewRowsWhole
    <2>2. table' = [j \in DOMAIN table \cup {i} |-> IF j = i THEN row ELSE table[j]]
          /\ i \notin DOMAIN table /\ UNCHANGED <<list, clock, walk>>
        BY <1>1 DEF Insert
    <2>3. DOMAIN table' = DOMAIN table \cup {i}
        BY <2>2
    <2>4. IsFiniteSet(DOMAIN table \cup {i})
        BY FS_AddElement DEF ListingOK, TableOK
    <2>5. TableOK'
        BY <2>1, <2>2, <2>3, <2>4 DEF ListingOK, TableOK
    <2> QED
        BY <2>2, <2>3, <2>5 DEF Grown, ListingOK
<1>2. ASSUME NEW i \in DOMAIN table, NEW row \in Changed(table[i]), Change(i, row)
      PROVE  Grown
    <2>1. /\ row \in Row /\ row.org = table[i].org /\ row.store = table[i].store
          /\ row.at = table[i].at /\ row.event = table[i].event
        BY ChangedRows
    <2>2. table' = [table EXCEPT ![i] = row] /\ UNCHANGED <<list, clock, walk>>
        BY <1>2 DEF Change
    <2>3. /\ DOMAIN table' = DOMAIN table
          /\ \A j \in DOMAIN table : table'[j] = IF j = i THEN row ELSE table[j]
        BY <2>2
    <2>4. TableOK'
        BY <2>1, <2>3 DEF ListingOK, TableOK
    <2> QED
        BY <2>1, <2>2, <2>3, <2>4 DEF Grown, ListingOK
<1>3. ASSUME Tick
      PROVE  Grown
    <2>1. MaxTime \in Nat
        BY DEF ListingsHold, TimeGoesOn
    <2>2. clock' = clock + 1 /\ clock < MaxTime /\ UNCHANGED <<list, table, walk>>
        BY <1>3 DEF Tick
    <2>3. TableOK'
        BY <2>2 DEF ListingOK, TableOK
    <2> QED
        BY <2>1, <2>2, <2>3 DEF Grown, ListingOK
<1> QED
    BY <1>1, <1>2, <1>3

LEMMA GrownOK ==
    ASSUME ListingOK, Grown
    PROVE  ListingOK'
BY DEF ListingOK, Grown, Own

-----------------------------------------------------------------------------
(* What a listing selects, and that its total counts just that. *)
Selects(q, S) ==
    /\ S \in SUBSET DOMAIN table
    /\ RowsOf(q) \in Seq(S)
    /\ Len(RowsOf(q)) = Cardinality(S) /\ TotalOf(q) = Cardinality(S)
    /\ \A i \in S : /\ table[i].org = q.org
                    /\ list \in {"sales", "inventory", "movements"} => table[i].store = q.store

LEMMA EveryListSelects ==
    ASSUME ListingsHold, TableOK, list \in Lists, NEW q
    PROVE  \E S : Selects(q, S)
<1>1. CASE list = "sales"
    <2> DEFINE S == {i \in DOMAIN table :
                      /\ table[i].org = q.org /\ table[i].store = q.store
                      /\ Optional(q.status, table[i].status)}
    <2>1. RowsOf(q) = Newest(S)
        BY <1>1 DEF RowsOf, ListSalesForStore
    <2>2. TotalOf(q) = Cardinality(S)
        BY <1>1 DEF TotalOf, CountSalesForStore
    <2>3. S \in SUBSET DOMAIN table
          /\ \A i \in S : /\ table[i].org = q.org
                          /\ list \in {"sales", "inventory", "movements"} => table[i].store = q.store
        BY <1>1
    <2> HIDE DEF S
    <2>4. Newest(S) \in Seq(S) /\ Len(Newest(S)) = Cardinality(S)
        BY <2>3, NewestPlaces
    <2>5. Selects(q, S)
        BY <2>1, <2>2, <2>3, <2>4 DEF Selects
    <2> QED
        BY <2>5
<1>2. CASE list = "members"
    <2> DEFINE S == {i \in DOMAIN table :
                      /\ table[i].org = q.org
                      /\ Optional(q.status, table[i].status)
                      /\ Optional(q.search, table[i].name)}
    <2>1. RowsOf(q) = Newest(S)
        BY <1>2 DEF RowsOf, ListMemberships
    <2>2. TotalOf(q) = Cardinality(S)
        BY <1>2 DEF TotalOf, CountMemberships
    <2>3. S \in SUBSET DOMAIN table
          /\ \A i \in S : /\ table[i].org = q.org
                          /\ list \in {"sales", "inventory", "movements"} => table[i].store = q.store
        BY <1>2
    <2> HIDE DEF S
    <2>4. Newest(S) \in Seq(S) /\ Len(Newest(S)) = Cardinality(S)
        BY <2>3, NewestPlaces
    <2>5. Selects(q, S)
        BY <2>1, <2>2, <2>3, <2>4 DEF Selects
    <2> QED
        BY <2>5
<1>3. CASE list = "invitations"
    <2> DEFINE S == {i \in DOMAIN table :
                      /\ table[i].org = q.org
                      /\ Optional(q.status, InvitationStatus(table[i]))
                      /\ Optional(q.search, table[i].name)
                      /\ q.from # Unset => table[i].at >= q.from
                      /\ q.to # Unset => table[i].at < q.to}
    <2>1. RowsOf(q) = Newest(S)
        BY <1>3 DEF RowsOf, ListInvitations
    <2>2. TotalOf(q) = Cardinality(S)
        BY <1>3 DEF TotalOf, CountInvitations
    <2>3. S \in SUBSET DOMAIN table
          /\ \A i \in S : /\ table[i].org = q.org
                          /\ list \in {"sales", "inventory", "movements"} => table[i].store = q.store
        BY <1>3
    <2> HIDE DEF S
    <2>4. Newest(S) \in Seq(S) /\ Len(Newest(S)) = Cardinality(S)
        BY <2>3, NewestPlaces
    <2>5. Selects(q, S)
        BY <2>1, <2>2, <2>3, <2>4 DEF Selects
    <2> QED
        BY <2>5
<1>4. CASE list = "audit"
    <2> DEFINE S == {i \in DOMAIN table :
                      /\ table[i].org = q.org
                      /\ Optional(q.store, table[i].store)
                      /\ Optional(q.event.user, table[i].event.user)
                      /\ Optional(q.event.membership, table[i].event.membership)
                      /\ Optional(q.event.type, table[i].event.type)
                      /\ Optional(q.event.outcome, table[i].event.outcome)
                      /\ Optional(q.event.entityType, table[i].event.entityType)
                      /\ Optional(q.event.entity, table[i].event.entity)
                      /\ q.from # Unset => table[i].at >= q.from
                      /\ q.to # Unset => table[i].at < q.to}
    <2>1. RowsOf(q) = Newest(S)
        BY <1>4 DEF RowsOf, ListAuditEvents
    <2>2. TotalOf(q) = Cardinality(S)
        BY <1>4 DEF TotalOf, CountAuditEvents
    <2>3. S \in SUBSET DOMAIN table
          /\ \A i \in S : /\ table[i].org = q.org
                          /\ list \in {"sales", "inventory", "movements"} => table[i].store = q.store
        BY <1>4
    <2> HIDE DEF S
    <2>4. Newest(S) \in Seq(S) /\ Len(Newest(S)) = Cardinality(S)
        BY <2>3, NewestPlaces
    <2>5. Selects(q, S)
        BY <2>1, <2>2, <2>3, <2>4 DEF Selects
    <2> QED
        BY <2>5
<1>5. CASE list = "stores"
    <2> DEFINE S == {i \in DOMAIN table :
                      /\ table[i].org = q.org
                      /\ Optional(q.status, table[i].status)
                      /\ Optional(q.search, table[i].name)}
    <2>1. RowsOf(q) = ByName(S)
        BY <1>5 DEF RowsOf, ListStoresForOrganization
    <2>2. TotalOf(q) = Cardinality(S)
        BY <1>5 DEF TotalOf, CountStoresForOrganization
    <2>3. S \in SUBSET DOMAIN table
          /\ \A i \in S : /\ table[i].org = q.org
                          /\ list \in {"sales", "inventory", "movements"} => table[i].store = q.store
        BY <1>5
    <2> HIDE DEF S
    <2>4. ByName(S) \in Seq(S) /\ Len(ByName(S)) = Cardinality(S)
        BY <2>3, ByNamePlaces
    <2>5. Selects(q, S)
        BY <2>1, <2>2, <2>3, <2>4 DEF Selects
    <2> QED
        BY <2>5
<1>6. CASE list = "products"
    <2> DEFINE S == {i \in DOMAIN table :
                      /\ table[i].org = q.org
                      /\ Optional(q.search, table[i].name)
                      /\ Optional(q.kind, table[i].kind)
                      /\ q.activeOnly => table[i].active}
    <2>1. RowsOf(q) = ByName(S)
        BY <1>6 DEF RowsOf, ListProductsForOrganization
    <2>2. TotalOf(q) = Cardinality(S)
        BY <1>6 DEF TotalOf, CountProductsForOrganization
    <2>3. S \in SUBSET DOMAIN table
          /\ \A i \in S : /\ table[i].org = q.org
                          /\ list \in {"sales", "inventory", "movements"} => table[i].store = q.store
        BY <1>6
    <2> HIDE DEF S
    <2>4. ByName(S) \in Seq(S) /\ Len(ByName(S)) = Cardinality(S)
        BY <2>3, ByNamePlaces
    <2>5. Selects(q, S)
        BY <2>1, <2>2, <2>3, <2>4 DEF Selects
    <2> QED
        BY <2>5
<1>7. CASE list = "catalog"
    <2> DEFINE S == {i \in DOMAIN table :
                      /\ table[i].org = q.org /\ OrgOf[q.store] = q.org
                      /\ Optional(q.search, table[i].name)
                      /\ Optional(q.kind, table[i].kind)
                      /\ q.activeOnly => table[i].active
                      /\ q.inStockOnly => Quantity(table[i], q.store) > 0}
    <2>1. RowsOf(q) = ByName(S)
        BY <1>7 DEF RowsOf, ListCatalogProductsForStore
    <2>2. TotalOf(q) = Cardinality(S)
        BY <1>7 DEF TotalOf, CountCatalogProductsForStore
    <2>3. S \in SUBSET DOMAIN table
          /\ \A i \in S : /\ table[i].org = q.org
                          /\ list \in {"sales", "inventory", "movements"} => table[i].store = q.store
        BY <1>7
    <2> HIDE DEF S
    <2>4. ByName(S) \in Seq(S) /\ Len(ByName(S)) = Cardinality(S)
        BY <2>3, ByNamePlaces
    <2>5. Selects(q, S)
        BY <2>1, <2>2, <2>3, <2>4 DEF Selects
    <2> QED
        BY <2>5
<1>8. CASE list = "inventory"
    <2> DEFINE S == {i \in DOMAIN table :
                      /\ table[i].org = q.org /\ table[i].store = q.store
                      /\ table[i].stock # NoStock
                      /\ Optional(q.search, table[i].name)
                      /\ q.activeOnly => table[i].active}
    <2>1. RowsOf(q) = ByName(S)
        BY <1>8 DEF RowsOf, ListInventoryForStore
    <2>2. TotalOf(q) = Cardinality(S)
        BY <1>8 DEF TotalOf, CountInventoryForStore
    <2>3. S \in SUBSET DOMAIN table
          /\ \A i \in S : /\ table[i].org = q.org
                          /\ list \in {"sales", "inventory", "movements"} => table[i].store = q.store
        BY <1>8
    <2> HIDE DEF S
    <2>4. ByName(S) \in Seq(S) /\ Len(ByName(S)) = Cardinality(S)
        BY <2>3, ByNamePlaces
    <2>5. Selects(q, S)
        BY <2>1, <2>2, <2>3, <2>4 DEF Selects
    <2> QED
        BY <2>5
<1>9. CASE list = "movements"
    <2> DEFINE S == {i \in DOMAIN table :
                      /\ table[i].org = q.org /\ table[i].store = q.store
                      /\ table[i].name = q.search
                      /\ Optional(q.kind, table[i].kind)}
    <2>1. RowsOf(q) = Newest(S)
        BY <1>9 DEF RowsOf, ListInventoryMovementsByProductIDForStore
    <2>2. TotalOf(q) = Cardinality(S)
        BY <1>9 DEF TotalOf, CountInventoryMovementsByProductIDForStore
    <2>3. S \in SUBSET DOMAIN table
          /\ \A i \in S : /\ table[i].org = q.org
                          /\ list \in {"sales", "inventory", "movements"} => table[i].store = q.store
        BY <1>9
    <2> HIDE DEF S
    <2>4. Newest(S) \in Seq(S) /\ Len(Newest(S)) = Cardinality(S)
        BY <2>3, NewestPlaces
    <2>5. Selects(q, S)
        BY <2>1, <2>2, <2>3, <2>4 DEF Selects
    <2> QED
        BY <2>5
<1>10. CASE list = "categories"
    <2> DEFINE S == {i \in DOMAIN table :
                      /\ table[i].org = q.org
                      /\ Optional(q.search, table[i].name)
                      /\ q.activeOnly => table[i].active}
    <2>1. RowsOf(q) = ByName(S) /\ TotalOf(q) = Len(ByName(S))
        BY <1>10 DEF RowsOf, TotalOf, ListCategoriesForOrganization
    <2>2. S \in SUBSET DOMAIN table /\ \A i \in S : table[i].org = q.org
        OBVIOUS
    <2> HIDE DEF S
    <2>3. ByName(S) \in Seq(S) /\ Len(ByName(S)) = Cardinality(S)
        BY <2>2, ByNamePlaces
    <2>5. Selects(q, S)
        BY <1>10, <2>1, <2>2, <2>3 DEF Selects
    <2> QED
        BY <2>5
<1> QED
    BY <1>1, <1>2, <1>3, <1>4, <1>5, <1>6, <1>7, <1>8, <1>9, <1>10 DEF ListingsHold, KnownLists

(* The same of its pages. *)
LEMMA PageSelected ==
    ASSUME ListingsHold, NEW q, NEW S, Selects(q, S), TableOK, NEW page \in Nat, NEW size \in Nat
    PROVE  /\ Range(PageOf(RowsOf(q), page, size)) \subseteq S
           /\ Range(RowsOf(q)) \subseteq S
           /\ TotalOf(q) \in Nat
<1>1. RowsOf(q) \in Seq(S) /\ S \in SUBSET DOMAIN table
    BY DEF Selects
<1>2. Range(PageOf(RowsOf(q), page, size)) \subseteq S
    BY <1>1, PageRows
<1>3. ASSUME NEW t \in Seq(S)
      PROVE  Range(t) \subseteq S
    BY DEF Range
<1>4. TotalOf(q) = Len(RowsOf(q))
    BY DEF Selects
<1> QED
    BY <1>1, <1>2, <1>3, <1>4

(* The two statements of a page, in either order, and the one of the       *)
(* categories.                                                             *)
Counts(from, to) ==
    /\ walk.pc = from
    /\ walk' = [walk EXCEPT !.pc = to, !.total = TotalOf(walk.q)]

Reads(from, to) ==
    /\ walk.pc = from
    /\ walk' = [walk EXCEPT !.pc = to,
                            !.seen = @ \cup Range(PageOf(RowsOf(walk.q), walk.page, walk.size))]

ReadsAll ==
    /\ list = "categories" /\ walk.pc = "first"
    /\ walk' = [walk EXCEPT !.pc = "done", !.seen = Range(RowsOf(walk.q))]

Answers ==
    /\ UNCHANGED <<list, table, clock>>
    /\ \/ /\ list \in {"sales", "products", "catalog", "inventory", "movements"}
          /\ Counts("first", "second") \/ Reads("second", "next")
       \/ /\ list \in {"audit", "members", "invitations", "stores"}
          /\ Reads("first", "second") \/ Counts("second", "next")
       \/ ReadsAll

LEMMA EveryListAnswers ==
    ASSUME \/ SalesList \/ ProductsList \/ CatalogList \/ InventoryList
           \/ ListMovements \/ CategoriesList \/ AuditList
           \/ MembershipsList \/ InvitationsList \/ StoresList
    PROVE  Answers
<1> USE DEF Answers, Counts, Reads, ReadsAll, RowsOf, TotalOf, CountThenList, ListThenCount
<1>1. CASE SalesList
    BY <1>1 DEF SalesList
<1>2. CASE ProductsList
    BY <1>2 DEF ProductsList
<1>3. CASE CatalogList
    BY <1>3 DEF CatalogList
<1>4. CASE InventoryList
    BY <1>4 DEF InventoryList
<1>5. CASE ListMovements
    BY <1>5 DEF ListMovements
<1>6. CASE CategoriesList
    BY <1>6 DEF CategoriesList
<1>7. CASE AuditList
    BY <1>7 DEF AuditList
<1>8. CASE MembershipsList
    BY <1>8 DEF MembershipsList
<1>9. CASE InvitationsList
    BY <1>9 DEF InvitationsList
<1>10. CASE StoresList
    BY <1>10 DEF StoresList
<1> QED
    BY <1>1, <1>2, <1>3, <1>4, <1>5, <1>6, <1>7, <1>8, <1>9, <1>10

LEMMA AnswersOK ==
    ASSUME ListingsHold, ListingOK, Answers
    PROVE  ListingOK'
<1>1. list \in Lists /\ TableOK /\ walk.page \in Nat /\ walk.size \in Nat
    BY DEF ListingOK
<1>2. PICK S : Selects(walk.q, S)
    BY <1>1, EveryListSelects
<1>3. /\ Range(PageOf(RowsOf(walk.q), walk.page, walk.size)) \subseteq S
      /\ Range(RowsOf(walk.q)) \subseteq S
      /\ TotalOf(walk.q) \in Nat
    BY <1>1, <1>2, PageSelected
<1>4. S \in SUBSET DOMAIN table /\ \A i \in S : Own(i)
    BY <1>2 DEF Selects, Own
<1>5. list' = list /\ table' = table /\ clock' = clock /\ TableOK'
    BY <1>1 DEF Answers, TableOK
<1>6. /\ DOMAIN walk' = DOMAIN walk /\ walk'.q = walk.q
      /\ walk'.size = walk.size /\ walk'.page = walk.page
      /\ walk'.pc \in {"second", "next", "done"}
      /\ walk'.total \in {walk.total, TotalOf(walk.q)}
      /\ \A i \in walk'.seen : i \in walk.seen \/ i \in S
    BY <1>3 DEF ListingOK, Answers, Counts, Reads, ReadsAll
<1>7. \A i \in walk'.seen : i \in DOMAIN table' /\ Own(i)'
    BY <1>4, <1>5, <1>6 DEF ListingOK, Own
<1> QED
    BY <1>3, <1>5, <1>6, <1>7 DEF ListingOK

LEMMA OpenOK ==
    ASSUME ListingsHold, ListingOK, NEW s \in Stores, NEW size \in PageSizes,
           NEW q, Open(s, q, size)
    PROVE  ListingOK'
<1>1. walk' = [NoWalk EXCEPT !.pc = "first", !.q = q, !.size = size, !.page = 1,
                                  !.began = Range(RowsOf(q))]
      /\ list' = list /\ table' = table /\ clock' = clock
    BY DEF Open
<1>2. size \in Nat \ {0}
    BY DEF ListingsHold, NumbersForIds
<1>3. /\ DOMAIN walk' = {"pc", "q", "size", "page", "total", "seen", "began"}
      /\ walk'.pc = "first" /\ walk'.size = size /\ walk'.page = 1 /\ walk'.total = 0 /\ walk'.seen = {}
    BY <1>1 DEF NoWalk
<1>4. TableOK'
    BY <1>1 DEF ListingOK, TableOK
<1> QED
    BY <1>1, <1>2, <1>3, <1>4 DEF ListingOK

LEMMA TurnOK ==
    ASSUME ListingOK, Turn
    PROVE  ListingOK'
<1>1. list' = list /\ table' = table /\ clock' = clock
    BY DEF Turn
<1>2. /\ DOMAIN walk' = DOMAIN walk /\ walk'.q = walk.q /\ walk'.size = walk.size
      /\ walk'.total = walk.total /\ walk'.seen = walk.seen
      /\ walk'.pc \in {"first", "done", "refused"}
      /\ walk'.page \in {walk.page, walk.page + 1}
    BY DEF ListingOK, Turn
<1>3. TableOK'
    BY <1>1 DEF ListingOK, TableOK
<1> QED
    BY <1>1, <1>2, <1>3 DEF ListingOK, Own

LEMMA ListingSteps ==
    ASSUME ListingsHold, ListingOK, [ListingsNext]_listings
    PROVE  ListingOK'
<1>1. ASSUME NEW s \in Stores, NEW size \in PageSizes, NEW q \in Queries(s), Open(s, q, size)
      PROVE  ListingOK'
    BY <1>1, OpenOK
<1>2. CASE \/ SalesList \/ ProductsList \/ CatalogList \/ InventoryList
           \/ ListMovements \/ CategoriesList \/ AuditList
           \/ MembershipsList \/ InvitationsList \/ StoresList
    BY <1>2, EveryListAnswers, AnswersOK
<1>3. CASE Turn
    BY <1>3, TurnOK
<1>4. CASE \/ \E i \in Ids, row \in NewRows(clock) : Insert(i, row)
           \/ \E i \in DOMAIN table : \E row \in Changed(table[i]) : Change(i, row)
           \/ Tick
    BY <1>4, OthersGrow, GrownOK
<1>5. CASE UNCHANGED listings
    BY <1>5 DEF listings, ListingOK, TableOK, Own
<1> QED
    BY <1>1, <1>2, <1>3, <1>4, <1>5 DEF ListingsNext

LEMMA CompleteOK ==
    ASSUME ListingsHold, ListingOK
    PROVE  TotalIsComplete
<1>1. list \in Lists /\ TableOK
    BY DEF ListingOK
<1>2. \A q : TotalOf(q) = Len(RowsOf(q))
    BY <1>1, EveryListSelects DEF Selects
<1>3. ASSUME NEW q, NEW page \in Nat, NEW size \in PageSizes, list = "audit",
             PageAccepted(list, page, size),
             NEW i \in DOMAIN PageOf(RowsOf(q), page, size)
      PROVE  (page - 1) * size + i <= TotalOf(q)
    <2>1. size \in Nat \ {0}
        BY DEF ListingsHold, NumbersForIds
    <2>2. normalizeAuditPagination(page, size)
        BY <1>3 DEF PageAccepted
    <2>3. (page - 1) * size \in 0..MaxInt
        BY <2>1, <2>2, AcceptedFits
    <2>4. PICK S : RowsOf(q) \in Seq(S)
        BY <1>1, EveryListSelects DEF Selects
    <2>5. (page - 1) * size + i <= Len(RowsOf(q))
        BY <2>1, <2>3, <2>4, PagePlaces
    <2> QED
        BY <1>2, <2>5
<1>4. Pages \subseteq Nat
    BY DEF Pages, ListingsHold, TimeGoesOn
<1> QED
    BY <1>2, <1>3, <1>4 DEF TotalIsComplete

(* Invariant of Listings: what a client has read are rows there are, of    *)
(* the tenant of its query.                                                *)
THEOREM ListingsSound == ListingsSpec => []ListingOK
<1>1. ListingsHold
    BY ListingsAssumption DEF ListingsHold
<1>2. ListingsInit => ListingOK
    BY <1>1, ListingInit
<1>3. ListingOK /\ [ListingsNext]_listings => ListingOK'
    BY <1>1, ListingSteps
<1> QED
    BY <1>2, <1>3, PTL DEF ListingsSpec

(* No listing shows a row of another organization, nor those of a store a  *)
(* row of another store, whatever its filters and whatever changes as the  *)
(* client reads.                                                           *)
THEOREM TenantRowsOnly == ListingsSpec => []OwnTenantOnly
<1>1. ListingOK => OwnTenantOnly
    BY DEF ListingOK, Own, OwnTenantOnly
<1> QED
    BY <1>1, ListingsSound, PTL

(* The total of a listing is the number of its rows, for any rows, and no  *)
(* page of the audit trail that is accepted goes beyond it.                *)
THEOREM TotalsComplete == ListingsSpec => []TotalIsComplete
<1>1. ListingOK => TotalIsComplete
    BY CompleteOK, ListingsAssumption DEF ListingsHold
<1> QED
    BY <1>1, ListingsSound, PTL

-----------------------------------------------------------------------------
(* Walks that miss nothing. *)

(* Listings in which a row never comes closer to the first page, and the   *)
(* rows they have.                                                         *)
Lasting(q) ==
    /\ list \in {"audit", "members", "invitations"}
    /\ list = "audit" \/ q = [NoFilter EXCEPT !.org = q.org]

Selected(q) ==
    {i \in DOMAIN table :
        /\ table[i].org = q.org
        /\ Optional(q.store, table[i].store)
        /\ Optional(q.event.user, table[i].event.user)
        /\ Optional(q.event.membership, table[i].event.membership)
        /\ Optional(q.event.type, table[i].event.type)
        /\ Optional(q.event.outcome, table[i].event.outcome)
        /\ Optional(q.event.entityType, table[i].event.entityType)
        /\ Optional(q.event.entity, table[i].event.entity)
        /\ q.from # Unset => table[i].at >= q.from
        /\ q.to # Unset => table[i].at < q.to}

Steady == Lasting(walk.q)
Mine == Selected(walk.q)

(* What is still to be read is not on the first pages. *)
Left(pages) == \A i \in walk.began \ walk.seen : Ahead(Mine, i) >= pages * walk.size

Walked ==
    Steady =>
        /\ walk.began \subseteq Mine
        /\ walk.pc = "first" => (walk.page - 1) * walk.size \in 0..MaxInt /\ Left(walk.page - 1)
        /\ walk.pc \in {"second", "next"} => Left(walk.page)
        /\ walk.pc = "next" /\ ~(walk.began \subseteq walk.seen)
              => walk.total > walk.page * walk.size
        /\ walk.pc = "done" => walk.began \subseteq walk.seen
        /\ list # "audit" => walk.total <= MaxInt

(* The offsets of the pages the memberships and the invitations have fit,  *)
(* because there are not as many; those of the audit trail are checked.    *)
FewRows ==
    Lists \cap {"members", "invitations"} # {} => IsFiniteSet(Ids) /\ Cardinality(Ids) <= MaxInt

LEMMA WalkedInit ==
    ASSUME ListingsHold, ListingsInit
    PROVE  Walked
BY DEF ListingsInit, NoWalk, Walked, ListingsHold, TimeGoesOn

LEMMA LastingRows ==
    ASSUME ListingsHold, TableOK, NEW q, Lasting(q)
    PROVE  /\ Selected(q) \in SUBSET DOMAIN table /\ IsFiniteSet(Selected(q))
           /\ RowsOf(q) = Newest(Selected(q))
           /\ TotalOf(q) = Cardinality(Selected(q))
<1>1. Selected(q) \in SUBSET DOMAIN table
    BY DEF Selected
<1>2. IsFiniteSet(Selected(q))
    BY <1>1, FS_Subset DEF TableOK
<1>3. CASE list = "audit"
    BY <1>1, <1>2, <1>3
       DEF RowsOf, TotalOf, ListAuditEvents, CountAuditEvents, Selected
<1>4. CASE list # "audit"
    <2>1. q = [NoFilter EXCEPT !.org = q.org] /\ list \in {"members", "invitations"}
        BY <1>4 DEF Lasting
    <2>2. /\ q.status = Unset /\ q.search = Unset /\ q.store = Unset
          /\ q.from = Unset /\ q.to = Unset /\ q.event = NoEvent
        BY <2>1 DEF NoFilter
    <2>3. Selected(q) = {i \in DOMAIN table : table[i].org = q.org}
        BY <2>2 DEF Selected, Optional, NoEvent
    <2>4. CASE list = "members"
        <3>1. Selected(q) = {i \in DOMAIN table :
                        /\ table[i].org = q.org
                        /\ Optional(q.status, table[i].status)
                        /\ Optional(q.search, table[i].name)}
            BY <2>2, <2>3 DEF Optional
        <3> QED
            BY <1>1, <1>2, <2>4, <3>1
               DEF RowsOf, TotalOf, ListMemberships, CountMemberships
    <2>5. CASE list = "invitations"
        <3>1. Selected(q) = {i \in DOMAIN table :
                        /\ table[i].org = q.org
                        /\ Optional(q.status, InvitationStatus(table[i]))
                        /\ Optional(q.search, table[i].name)
                        /\ q.from # Unset => table[i].at >= q.from
                        /\ q.to # Unset => table[i].at < q.to}
            BY <2>2, <2>3 DEF Optional
        <3> QED
            BY <1>1, <1>2, <2>5, <3>1
               DEF RowsOf, TotalOf, ListInvitations, CountInvitations
    <2> QED
        BY <2>1, <2>4, <2>5
<1> QED
    BY <1>3, <1>4

LEMMA AheadNatural ==
    ASSUME NEW S, IsFiniteSet(S), NEW i
    PROVE  Ahead(S, i) \in Nat
<1> DEFINE T == {j \in S : Newer(j, i)}
<1>1. T \in SUBSET S
    OBVIOUS
<1> HIDE DEF T
<1>2. IsFiniteSet(T)
    BY <1>1, FS_Subset
<1> QED
    BY <1>2, FS_CardinalityType DEF Ahead, T

(* What other requests write goes before what was there, or after it: a    *)
(* row never has fewer ahead of it than before.                            *)
LEMMA GrownWalked ==
    ASSUME ListingsHold, ListingOK, Walked, Grown
    PROVE  Walked'
<1>1. SUFFICES ASSUME Steady'
               PROVE  Walked'
    BY DEF Walked
<1>2. Steady
    BY <1>1 DEF Steady, Lasting, Grown
<1>3. Mine \subseteq Mine'
    BY DEF Mine, Selected, Grown
<1>4. IsFiniteSet(Mine) /\ IsFiniteSet(Mine')
    BY FS_Subset DEF Mine, Selected, ListingOK, TableOK, Grown
<1>5. ASSUME NEW i \in Mine
      PROVE  Ahead(Mine, i)' >= Ahead(Mine, i) /\ Ahead(Mine, i)' \in Nat /\ Ahead(Mine, i) \in Nat
    <2> DEFINE T == {j \in Mine : Newer(j, i)}
               U == {j \in Mine' : Newer(j, i)'}
    <2>1. T \subseteq U
        BY <1>3 DEF Mine, Selected, Grown, Newer
    <2>2. U \in SUBSET Mine'
        OBVIOUS
    <2>3. Ahead(Mine, i) = Cardinality(T) /\ Ahead(Mine, i)' = Cardinality(U)
        BY DEF Ahead
    <2> HIDE DEF T, U
    <2>4. IsFiniteSet(U)
        BY <1>4, <2>2, FS_Subset
    <2>5. IsFiniteSet(T) /\ Cardinality(T) <= Cardinality(U)
        BY <2>1, <2>4, FS_Subset
    <2> QED
        BY <2>3, <2>4, <2>5, FS_CardinalityType
<1>6. walk' = walk /\ list' = list
    BY DEF Grown
<1>7. walk.began \subseteq Mine
    BY <1>2 DEF Walked
<1>8. ASSUME NEW pages \in Int, Left(pages)
      PROVE  Left(pages)'
    <2>1. pages * walk.size \in Int
        BY DEF ListingOK
    <2> QED
        BY <1>5, <1>6, <1>7, <1>8, <2>1 DEF Left
<1>9. walk.page \in Int /\ walk.page - 1 \in Int
    BY DEF ListingOK
<1> QED
    BY <1>2, <1>3, <1>6, <1>7, <1>8, <1>9 DEF Walked

LEMMA AnswersWalked ==
    ASSUME ListingsHold, FewRows, ListingOK, Walked, Answers
    PROVE  Walked'
<1>1. SUFFICES ASSUME Steady'
               PROVE  Walked'
    BY DEF Walked
<1>2. list' = list /\ table' = table /\ list \in {"audit", "members", "invitations"}
    BY <1>1 DEF Answers, Steady, Lasting
<1>3. Reads("first", "second") \/ Counts("second", "next")
    BY <1>2 DEF Answers, ReadsAll
<1>4. walk'.q = walk.q /\ walk'.size = walk.size /\ walk'.page = walk.page /\ walk'.began = walk.began
    BY <1>3 DEF Reads, Counts, ListingOK
<1>5. Steady
    BY <1>1, <1>2, <1>4 DEF Steady, Lasting
<1>6. Mine' = Mine /\ \A i : Ahead(Mine, i)' = Ahead(Mine, i)
    BY <1>2, <1>4 DEF Mine, Selected, Ahead, Newer
<1>7. /\ Mine \in SUBSET DOMAIN table /\ IsFiniteSet(Mine)
      /\ RowsOf(walk.q) = Newest(Mine)
      /\ TotalOf(walk.q) = Cardinality(Mine)
    BY <1>5, LastingRows DEF ListingOK, Steady, Mine
<1>8. /\ Newest(Mine) \in Seq(Mine)
      /\ Len(Newest(Mine)) = Cardinality(Mine)
      /\ \A i \in Mine : /\ Ahead(Mine, i) \in 0..Cardinality(Mine) - 1
                         /\ Newest(Mine)[Ahead(Mine, i) + 1] = i
    BY <1>7, NewestPlaces DEF ListingOK
<1>9. Cardinality(Mine) \in Nat
    BY <1>7, FS_CardinalityType
<1>10. /\ walk.page \in Nat /\ walk.size \in Nat \ {0} /\ walk.page * walk.size \in Int
       /\ (walk.page - 1) * walk.size + walk.size = walk.page * walk.size
    BY DEF ListingOK
<1>11. walk.began \subseteq Mine
    BY <1>5 DEF Walked
<1>12. CASE Reads("first", "second")
    <2> DEFINE rows == Range(PageOf(Newest(Mine), walk.page, walk.size))
    <2>1. /\ walk.pc = "first" /\ walk'.pc = "second" /\ walk'.total = walk.total
          /\ walk'.seen = walk.seen \cup rows
        BY <1>12, <1>7 DEF Reads, ListingOK
    <2>2. (walk.page - 1) * walk.size \in 0..MaxInt /\ Left(walk.page - 1)
        BY <1>5, <2>1 DEF Walked
    <2>3. \A k \in 1..Len(Newest(Mine)) :
            (walk.page - 1) * walk.size < k /\ k <= (walk.page - 1) * walk.size + walk.size
                => Newest(Mine)[k] \in rows
        BY <1>8, <1>10, <2>2, PagePlaces
    <2> HIDE DEF rows
    <2>4. ASSUME NEW i \in walk.began, i \notin walk'.seen
          PROVE  Ahead(Mine, i) >= walk.page * walk.size
        <3> DEFINE a == Ahead(Mine, i)
                   offset == (walk.page - 1) * walk.size
        <3>1. i \in walk.began \ walk.seen /\ i \notin rows /\ i \in Mine
            BY <1>11, <2>1, <2>4
        <3>2. a >= offset
            BY <2>2, <3>1 DEF Left
        <3>3. a + 1 \in 1..Len(Newest(Mine)) /\ Newest(Mine)[a + 1] = i /\ a \in Nat
            BY <1>8, <1>9, <3>1
        <3>4. offset \in Int /\ offset + walk.size = walk.page * walk.size
            BY <1>10, <2>2
        <3>5. ~(offset < a + 1 /\ a + 1 <= offset + walk.size)
            BY <2>3, <3>1, <3>3
        <3> HIDE DEF a, offset
        <3>6. a >= walk.page * walk.size
            BY <1>10, <3>2, <3>3, <3>4, <3>5
        <3> QED
            BY <3>6 DEF a
    <2>5. Left(walk.page)'
        BY <1>4, <1>6, <2>4 DEF Left
    <2> QED
        BY <1>2, <1>4, <1>5, <1>6, <1>11, <2>1, <2>5 DEF Walked
<1>13. CASE Counts("second", "next")
    <2>1. /\ walk.pc = "second" /\ walk'.pc = "next" /\ walk'.seen = walk.seen
          /\ walk'.total = Cardinality(Mine)
        BY <1>13, <1>7 DEF Counts, ListingOK
    <2>2. Left(walk.page)
        BY <1>5, <2>1 DEF Walked
    <2>3. Left(walk.page)'
        BY <1>4, <1>6, <2>1, <2>2 DEF Left
    <2>4. ASSUME NEW i \in walk.began, i \notin walk.seen
          PROVE  Cardinality(Mine) > walk.page * walk.size
        <3>1. Ahead(Mine, i) >= walk.page * walk.size
            BY <2>2, <2>4 DEF Left
        <3>2. Ahead(Mine, i) \in 0..Cardinality(Mine) - 1
            BY <1>8, <1>11, <2>4
        <3> QED
            BY <1>9, <1>10, <3>1, <3>2
    <2>5. list # "audit" => Cardinality(Mine) <= MaxInt
        <3>1. ASSUME list # "audit"
              PROVE  IsFiniteSet(Ids) /\ Cardinality(Ids) <= MaxInt
            BY <1>2, <3>1 DEF FewRows, ListingOK
        <3>2. ASSUME list # "audit"
              PROVE  Cardinality(Mine) <= Cardinality(Ids) /\ Cardinality(Ids) \in Nat
            <4>1. Mine \in SUBSET Ids
                BY <1>7 DEF ListingOK, TableOK
            <4> QED
                BY <3>1, <3>2, <4>1, FS_Subset, FS_CardinalityType
        <3>3. MaxInt \in Nat
            BY DEF ListingsHold, TimeGoesOn
        <3> QED
            BY <1>9, <3>1, <3>2, <3>3
    <2> QED
        BY <1>2, <1>4, <1>5, <1>6, <1>11, <2>1, <2>3, <2>4, <2>5 DEF Walked
<1> QED
    BY <1>3, <1>12, <1>13

LEMMA OpenWalked ==
    ASSUME ListingsHold, ListingOK, NEW s \in Stores, NEW size \in PageSizes,
           NEW q, Open(s, q, size)
    PROVE  Walked'
<1>1. SUFFICES ASSUME Steady'
               PROVE  Walked'
    BY DEF Walked
<1>2. walk' = [NoWalk EXCEPT !.pc = "first", !.q = q, !.size = size, !.page = 1,
                                  !.began = Range(RowsOf(q))]
      /\ list' = list /\ table' = table /\ clock' = clock
    BY DEF Open
<1>3. /\ walk'.pc = "first" /\ walk'.size = size /\ walk'.page = 1 /\ walk'.total = 0
      /\ walk'.seen = {} /\ walk'.began = Range(RowsOf(q)) /\ walk'.q = q
    BY <1>2 DEF NoWalk
<1>4. ListingOK'
    BY OpenOK
<1>5. TableOK /\ TableOK'
    BY <1>4 DEF ListingOK
<1>6. Lasting(q)
    BY <1>1, <1>2, <1>3 DEF Steady, Lasting
<1>7. /\ Selected(q) \in SUBSET DOMAIN table /\ IsFiniteSet(Selected(q))
      /\ RowsOf(q) = Newest(Selected(q)) /\ Newest(Selected(q)) \in Seq(Selected(q))
    BY <1>5, <1>6, LastingRows, NewestPlaces
<1>8. Mine' = Selected(q) /\ walk'.began \subseteq Mine' /\ IsFiniteSet(Mine')
    <2>1. Mine' = Selected(q)
        BY <1>2, <1>3 DEF Mine, Selected
    <2>2. ASSUME NEW S, NEW t \in Seq(S)
          PROVE  Range(t) \subseteq S
        BY DEF Range
    <2> QED
        BY <1>3, <1>7, <2>1, <2>2
<1>9. ASSUME NEW i
      PROVE  Ahead(Mine, i)' \in Nat
    <2>1. Ahead(Mine, i)' = Ahead(Selected(q), i)
        BY <1>2, <1>8 DEF Ahead, Newer
    <2> QED
        BY <1>7, <2>1, AheadNatural
<1>10. size \in Nat \ {0} /\ MaxInt \in Nat
    BY DEF ListingsHold, NumbersForIds, TimeGoesOn
<1>11. (walk'.page - 1) * walk'.size = 0 /\ walk'.page - 1 = 0 /\ 0 * walk'.size = 0
    BY <1>3, <1>10
<1>12. Left(walk.page - 1)'
    BY <1>9, <1>11 DEF Left
<1> QED
    BY <1>3, <1>8, <1>10, <1>11, <1>12 DEF Walked

LEMMA TurnWalked ==
    ASSUME ListingsHold, ListingOK, Walked, Turn
    PROVE  Walked'
<1>1. SUFFICES ASSUME Steady'
               PROVE  Walked'
    BY DEF Walked
<1>2. list' = list /\ table' = table /\ list \in {"audit", "members", "invitations"} /\ walk.pc = "next"
    BY <1>1 DEF Turn, Steady, Lasting
<1>3. /\ walk'.q = walk.q /\ walk'.size = walk.size /\ walk'.total = walk.total
      /\ walk'.seen = walk.seen /\ walk'.began = walk.began
    BY DEF ListingOK, Turn
<1>4. Steady
    BY <1>1, <1>2, <1>3 DEF Steady, Lasting
<1>5. Mine' = Mine /\ \A i : Ahead(Mine, i)' = Ahead(Mine, i)
    BY <1>2, <1>3 DEF Mine, Selected, Ahead, Newer
<1>6. /\ walk.began \subseteq Mine /\ Left(walk.page)
      /\ walk.began \subseteq walk.seen \/ walk.total > walk.page * walk.size
      /\ list # "audit" => walk.total <= MaxInt
    BY <1>2, <1>4 DEF Walked
<1>7. /\ walk.page \in Nat /\ walk.size \in Nat \ {0} /\ walk.total \in Nat
      /\ walk.page * walk.size \in Nat /\ walk.page + 1 - 1 = walk.page
    BY TimesMonotonic DEF ListingOK
<1>8. walk.page >= paginationResponse(walk.size, walk.total)
        <=> walk.page * walk.size >= walk.total
    BY <1>7, PagesEnough
<1>9. CASE walk.page >= paginationResponse(walk.size, walk.total)
    <2>1. walk'.pc = "done"
        BY <1>2, <1>9 DEF Turn, ListingOK
    <2>2. walk.began \subseteq walk.seen
        BY <1>6, <1>7, <1>8, <1>9
    <2> QED
        BY <1>2, <1>3, <1>5, <1>6, <2>1, <2>2 DEF Walked
<1>10. CASE ~(walk.page >= paginationResponse(walk.size, walk.total))
    <2>1. CASE PageAccepted(list, walk.page + 1, walk.size)
        <3>1. walk'.pc = "first" /\ walk'.page = walk.page + 1
            BY <1>2, <1>10, <2>1 DEF Turn, ListingOK
        <3>2. walk.page * walk.size \in 0..MaxInt
            <4>1. CASE list = "audit"
                <5>1. normalizeAuditPagination(walk.page + 1, walk.size)
                    BY <2>1, <4>1 DEF PageAccepted
                <5>2. (walk.page + 1 - 1) * walk.size \in 0..MaxInt
                    BY <1>7, <5>1, AcceptedFits
                <5> QED
                    BY <1>7, <5>2
            <4>2. CASE list # "audit"
                <5>1. walk.page * walk.size < walk.total
                    BY <1>7, <1>8, <1>10
                <5> QED
                    BY <1>6, <1>7, <4>2, <5>1 DEF ListingsHold, TimeGoesOn
            <4> QED
                BY <4>1, <4>2
        <3>3. (walk.page - 1)' = walk.page
            BY <1>7, <3>1
        <3>4. Left(walk.page - 1)'
            BY <1>3, <1>5, <1>6, <3>3 DEF Left
        <3> QED
            BY <1>2, <1>3, <1>5, <1>6, <3>1, <3>2, <3>3, <3>4 DEF Walked
    <2>2. CASE ~PageAccepted(list, walk.page + 1, walk.size)
        <3>1. walk'.pc = "refused"
            BY <1>2, <1>10, <2>2 DEF Turn, ListingOK
        <3> QED
            BY <1>2, <1>3, <1>5, <1>6, <3>1 DEF Walked
    <2> QED
        BY <2>1, <2>2
<1> QED
    BY <1>9, <1>10

LEMMA WalkedSteps ==
    ASSUME ListingsHold, FewRows, ListingOK, Walked, [ListingsNext]_listings
    PROVE  Walked'
<1>1. ASSUME NEW s \in Stores, NEW size \in PageSizes, NEW q \in Queries(s), Open(s, q, size)
      PROVE  Walked'
    BY <1>1, OpenWalked
<1>2. CASE \/ SalesList \/ ProductsList \/ CatalogList \/ InventoryList
           \/ ListMovements \/ CategoriesList \/ AuditList
           \/ MembershipsList \/ InvitationsList \/ StoresList
    BY <1>2, EveryListAnswers, AnswersWalked
<1>3. CASE Turn
    BY <1>3, TurnWalked
<1>4. CASE \/ \E i \in Ids, row \in NewRows(clock) : Insert(i, row)
           \/ \E i \in DOMAIN table : \E row \in Changed(table[i]) : Change(i, row)
           \/ Tick
    BY <1>4, OthersGrow, GrownWalked
<1>5. CASE UNCHANGED listings
    BY <1>5 DEF listings, Walked, Steady, Lasting, Left, Mine, Selected, Ahead, Newer
<1> QED
    BY <1>1, <1>2, <1>3, <1>4, <1>5 DEF ListingsNext

(* A client that reads the audit trail, the memberships or the invitations *)
(* page by page until the last has read every row that was there when it   *)
(* began, for any number of rows and any page size, whatever others write  *)
(* between its requests and between the two statements of each.  For       *)
(* memberships and invitations there must be no more rows than an offset   *)
(* can say; the audit trail refuses such a page instead.                   *)
THEOREM WalksComplete ==
    ASSUME FewRows
    PROVE  ListingsSpec => []NothingMissed
<1>1. ListingsHold
    BY ListingsAssumption DEF ListingsHold
<1>2. ListingsInit => Walked
    BY <1>1, WalkedInit
<1>3. ListingOK /\ Walked /\ [ListingsNext]_listings => Walked'
    BY <1>1, WalkedSteps
<1>4. Walked => NothingMissed
    BY DEF Walked, Steady, Lasting, NothingMissed
<1> QED
    BY <1>2, <1>3, <1>4, ListingsSound, PTL DEF ListingsSpec

=============================================================================
