------------------------- MODULE PointOfSaleProofs -------------------------
(***************************************************************************)
(* The serial StoreLedger keeps its promises for all sales, products,      *)
(* references, quantities and payments; the concurrent transactions of     *)
(* PointOfSale implement it, for any number of requests, with and without  *)
(* crashes.  The properties of the ledger are therefore properties of the  *)
(* running system.                                                         *)
(***************************************************************************)
EXTENDS PointOfSale, FiniteSetTheorems, WellFoundedInduction, TLAPS

-----------------------------------------------------------------------------
(* The ledger. *)

(* The facts about the tables that every step of the ledger preserves. *)
LedgerInv ==
    /\ TablesOK
    /\ StockFollowsMovements
    /\ SettledIffCompleted
    /\ ReferenceAppliedOnce
    /\ SoldExactlyOnce

-----------------------------------------------------------------------------
(* The tables keep their types when inventory rows are moved.  A decrease  *)
(* stays in Nat because InStock compares it with the row first.            *)
LEMMA MoveType ==
    ASSUME TablesOK,
           NEW P \in SUBSET Products, NEW kind \in MovementTypes,
           NEW ref \in Sales \cup References, NEW need \in Basket,
           Move(P, kind, ref, need)
    PROVE  /\ tracked' \subseteq Products
           /\ stock' \in Basket
           /\ log' \in [Products -> Seq(Movement)]
<1>1. \A p \in P : NewQuantity(kind, stock[p], need[p]) \in Nat
    BY DEF TablesOK, Move, InStock, NewQuantity, Basket
<1>2. stock' \in Basket
    BY <1>1 DEF TablesOK, Move, Basket
<1>3. ASSUME NEW p \in P
      PROVE  [type |-> kind, ref |-> ref, qty |-> need[p], prev |-> stock[p],
              cur |-> NewQuantity(kind, stock[p], need[p])] \in Movement
    BY <1>1 DEF TablesOK, Movement, Basket
<1>4. log' \in [Products -> Seq(Movement)]
    BY <1>3 DEF TablesOK, Move
<1> QED
    BY <1>2, <1>4 DEF TablesOK, Move

(* Each moved product gets one more movement, the others none. *)
Grows(p, kind, ref, q) ==
    LET n == Len(log[p])
    IN  /\ n \in Nat
        /\ DOMAIN log[p] = 1..n
        /\ DOMAIN log'[p] = 1..(n + 1)
        /\ Len(log'[p]) = n + 1
        /\ \A i \in 1..n : log'[p][i] = log[p][i]
        /\ log'[p][n + 1] = [type |-> kind, ref |-> ref, qty |-> q,
                             prev |-> stock[p], cur |-> stock'[p]]

LEMMA MoveLog ==
    ASSUME TablesOK,
           NEW P \in SUBSET Products, NEW kind \in MovementTypes,
           NEW ref \in Sales \cup References, NEW need \in Basket,
           Move(P, kind, ref, need),
           NEW p \in Products
    PROVE  IF p \in P THEN Grows(p, kind, ref, need[p])
                      ELSE log'[p] = log[p] /\ stock'[p] = stock[p]
<1>1. log[p] \in Seq(Movement)
    BY DEF TablesOK
<1>2. CASE p \in P
    <2>. DEFINE m == [type |-> kind, ref |-> ref, qty |-> need[p],
                      prev |-> stock[p], cur |-> stock'[p]]
    <2>1. log'[p] = Append(log[p], m)
        BY <1>2 DEF Move
    <2> HIDE DEF m
    <2>2. /\ Len(log[p]) \in Nat
          /\ DOMAIN log[p] = 1..Len(log[p])
          /\ DOMAIN log'[p] = 1..(Len(log[p]) + 1)
          /\ Len(log'[p]) = Len(log[p]) + 1
          /\ \A i \in 1..Len(log[p]) : log'[p][i] = log[p][i]
          /\ log'[p][Len(log[p]) + 1] = m
        BY <1>1, <2>1
    <2> QED
        BY <1>2, <2>2 DEF m, Grows
<1>3. CASE p \notin P
    BY <1>3 DEF Move
<1> QED
    BY <1>2, <1>3

-----------------------------------------------------------------------------
(* The ways a step can touch the inventory tables: leave them alone, or    *)
(* move some rows.  The lemmas below are about the second case.            *)
LEMMA MoveKeepsChain ==
    ASSUME TablesOK, StockFollowsMovements,
           NEW P \in SUBSET Products, NEW kind \in MovementTypes,
           NEW ref \in Sales \cup References, NEW need \in Basket,
           Move(P, kind, ref, need)
    PROVE  StockFollowsMovements'
<1>. SUFFICES ASSUME NEW p \in Products
             PROVE  /\ \A i \in 1..Len(log'[p]) :
                          log'[p][i].prev = QuantityAfter(p, i - 1)'
                    /\ stock'[p] = QuantityAfter(p, Len(log[p]))'
                    /\ p \in tracked' <=> Len(log'[p]) > 0
    BY DEF StockFollowsMovements
<1>1. Len(log[p]) \in Nat
    BY DEF TablesOK
<1>2. CASE p \notin P
    <2>1. log'[p] = log[p] /\ stock'[p] = stock[p] /\ (p \in tracked' <=> p \in tracked)
        BY <1>2, MoveLog DEF Move
    <2> QED
        BY <2>1 DEF StockFollowsMovements, QuantityAfter
<1>3. CASE p \in P
    <2>. DEFINE n == Len(log[p])
    <2>0. Grows(p, kind, ref, need[p])
        BY <1>3, MoveLog
    <2>1. /\ Len(log'[p]) = n + 1
          /\ \A i \in 1..n : log'[p][i] = log[p][i]
          /\ log'[p][n + 1].prev = stock[p]
          /\ log'[p][n + 1].cur = stock'[p]
        BY <2>0 DEF Grows
    <2>2. p \in tracked'
        BY <1>3 DEF Move
    <2>3. \A i \in 1..n : log[p][i].prev = QuantityAfter(p, i - 1)
        BY DEF StockFollowsMovements
    <2>4. stock[p] = QuantityAfter(p, n)
        BY DEF StockFollowsMovements
    <2>5. ASSUME NEW i \in 1..(n + 1)
          PROVE  log'[p][i].prev = QuantityAfter(p, i - 1)'
        <3>1. CASE i = n + 1
            BY <1>1, <2>1, <2>4, <3>1 DEF QuantityAfter
        <3>2. CASE i \in 1..n
            <4>1. log'[p][i] = log[p][i] /\ log[p][i].prev = QuantityAfter(p, i - 1)
                BY <2>1, <2>3, <3>2
            <4>2. i - 1 # 0 => i - 1 \in 1..n /\ log'[p][i - 1] = log[p][i - 1]
                BY <1>1, <2>1, <3>2
            <4> QED
                BY <4>1, <4>2 DEF QuantityAfter
        <3> QED
            BY <1>1, <3>1, <3>2
    <2>6. stock'[p] = QuantityAfter(p, Len(log[p]))'
        BY <1>1, <2>1 DEF QuantityAfter
    <2> QED
        BY <1>1, <2>1, <2>2, <2>5, <2>6
<1> QED
    BY <1>2, <1>3

LEMMA MoveKeepsReferences ==
    ASSUME TablesOK, ReferenceAppliedOnce,
           NEW P \in SUBSET Products, NEW kind \in MovementTypes,
           NEW ref \in Sales \cup References, NEW need \in Basket,
           Move(P, kind, ref, need)
    PROVE  ReferenceAppliedOnce'
<1>1. ASSUME NEW p \in Products, p \notin P
      PROVE  log'[p] = log[p]
    BY <1>1, MoveLog
<1>2. ASSUME NEW p \in Products, p \in P
      PROVE  Grows(p, kind, ref, need[p])
    BY <1>2, MoveLog
<1>3. ASSUME NEW p \in P, NEW k \in DOMAIN log[p]
      PROVE  ~(log[p][k].type = kind /\ log[p][k].ref = ref)
    BY DEF Move, Recorded
<1>. SUFFICES ASSUME NEW p \in Products, NEW i \in DOMAIN log'[p],
                    NEW j \in DOMAIN log'[p],
                    log'[p][i].type = log'[p][j].type,
                    log'[p][i].ref = log'[p][j].ref
             PROVE  i = j
    BY DEF ReferenceAppliedOnce
<1>4. CASE p \notin P
    BY <1>1, <1>4 DEF ReferenceAppliedOnce
<1>5. CASE p \in P
    <2>. DEFINE n == Len(log[p])
    <2>0. Grows(p, kind, ref, need[p])
        BY <1>2, <1>5
    <2>1. /\ n \in Nat /\ DOMAIN log[p] = 1..n /\ DOMAIN log'[p] = 1..(n + 1)
          /\ \A k \in 1..n : log'[p][k] = log[p][k]
          /\ log'[p][n + 1].type = kind
          /\ log'[p][n + 1].ref = ref
        BY <2>0 DEF Grows
    <2>2. CASE i \in 1..n /\ j \in 1..n
        BY <2>1, <2>2 DEF ReferenceAppliedOnce
    <2>3. CASE i = n + 1 /\ j \in 1..n
        BY <1>3, <1>5, <2>1, <2>3
    <2>4. CASE i \in 1..n /\ j = n + 1
        BY <1>3, <1>5, <2>1, <2>4
    <2> QED
        BY <2>1, <2>2, <2>3, <2>4
<1> QED
    BY <1>4, <1>5

(* A move records goods as sold to its own sale only. *)
Sells(P, kind, ref, need, s, p) ==
    /\ Sold(s, p)' = IF p \in P /\ kind = "SALE" /\ ref = s
                     THEN Sold(s, p) \cup {Len(log[p]) + 1}
                     ELSE Sold(s, p)
    /\ \A i \in DOMAIN log[p] :
           i \in DOMAIN log'[p] /\ log'[p][i] = log[p][i]
    /\ p \in P => /\ Len(log[p]) + 1 \in DOMAIN log'[p]
                  /\ log'[p][Len(log[p]) + 1].qty = need[p]
    /\ p \in P /\ kind = "SALE" /\ ref = s => Sold(s, p) = {}

LEMMA MoveSold ==
    ASSUME TablesOK,
           NEW P \in SUBSET Products, NEW kind \in MovementTypes,
           NEW ref \in Sales \cup References, NEW need \in Basket,
           Move(P, kind, ref, need),
           NEW s \in Sales, NEW p \in Products
    PROVE  Sells(P, kind, ref, need, s, p)
<1>1. CASE p \notin P
    BY <1>1, MoveLog DEF Sold, Sells
<1>2. CASE p \in P
    <2>. DEFINE n == Len(log[p])
    <2>1. Grows(p, kind, ref, need[p])
        BY <1>2, MoveLog
    <2>2. /\ n \in Nat /\ DOMAIN log[p] = 1..n /\ DOMAIN log'[p] = 1..(n + 1)
          /\ \A i \in 1..n : log'[p][i] = log[p][i]
          /\ log'[p][n + 1].type = kind
          /\ log'[p][n + 1].ref = ref
          /\ log'[p][n + 1].qty = need[p]
        BY <2>1 DEF Grows
    <2>3. ~Recorded(p, kind, ref)
        BY <1>2 DEF Move
    <2>4. kind = "SALE" /\ ref = s => Sold(s, p) = {}
        BY <2>3 DEF Recorded, Sold
    <2>5. Sold(s, p)' = {i \in 1..(n + 1) :
                            log'[p][i].type = "SALE" /\ log'[p][i].ref = s}
        BY <2>2 DEF Sold
    <2>6. Sold(s, p) = {i \in 1..n :
                            log'[p][i].type = "SALE" /\ log'[p][i].ref = s}
        BY <2>2 DEF Sold
    <2>7. Sold(s, p)' = IF kind = "SALE" /\ ref = s THEN Sold(s, p) \cup {n + 1}
                                                   ELSE Sold(s, p)
        BY <2>2, <2>5, <2>6
    <2> QED
        BY <1>2, <2>2, <2>4, <2>7 DEF Sells
<1> QED
    BY <1>1, <1>2

-----------------------------------------------------------------------------
(* Every action of the ledger preserves LedgerInv. *)
LEMMA LedgerStep ==
    ASSUME LedgerInv, [LedgerNext]_tables
    PROVE  LedgerInv'
<1>. USE QuantitiesPositive, MaxPaymentsPositive, OperationsAreKinds
<1>1. ASSUME NEW s \in Sales, NEW p \in Products, NEW q \in Quantities \cup {0},
             EditSale(s, p, q)
      PROVE  LedgerInv'
    <2>1. TablesOK'
        BY <1>1 DEF LedgerInv, TablesOK, EditSale, Basket
    <2>2. \A t \in Sales : t # s => basket'[t] = basket[t]
        BY <1>1 DEF EditSale, LedgerInv, TablesOK
    <2>3. SoldExactlyOnce'
        BY <1>1, <2>2 DEF EditSale, LedgerInv, SoldExactlyOnce, Sold
    <2> QED
        BY <1>1, <2>1, <2>3
           DEF LedgerInv, EditSale, StockFollowsMovements, QuantityAfter,
               SettledIffCompleted, ReferenceAppliedOnce
<1>2. ASSUME NEW s \in Sales, CancelSale(s)
      PROVE  LedgerInv'
    <2>1. TablesOK'
        BY <1>2 DEF LedgerInv, TablesOK, CancelSale, SaleStatus
    <2>2. \A t \in Sales : t # s => status'[t] = status[t]
        BY <1>2 DEF CancelSale, LedgerInv, TablesOK
    <2>3. status'[s] = "CANCELLED" /\ status[s] = "OPEN"
        BY <1>2 DEF CancelSale, LedgerInv, TablesOK
    <2>4. SoldExactlyOnce'
        BY <1>2, <2>2, <2>3 DEF CancelSale, LedgerInv, SoldExactlyOnce, Sold
    <2>5. SettledIffCompleted'
        BY <1>2, <2>2, <2>3 DEF CancelSale, LedgerInv, SettledIffCompleted
    <2> QED
        BY <1>2, <2>1, <2>4, <2>5
           DEF LedgerInv, CancelSale, StockFollowsMovements, QuantityAfter,
               ReferenceAppliedOnce
<1>3. ASSUME NEW p \in Products, NEW kind \in Operations, NEW ref \in References,
             NEW q \in Quantities, OperateStock(p, kind, ref, q)
      PROVE  LedgerInv'
    <2>. DEFINE need == [EmptyBasket EXCEPT ![p] = q]
    <2>1. need \in Basket /\ kind \in MovementTypes /\ kind # "SALE"
        BY DEF Basket, EmptyBasket, MovementTypes, StockOperations
    <2>2. Move({p}, kind, ref, need)
        BY <1>3 DEF OperateStock
    <2> HIDE DEF need
    <2>3. {p} \in SUBSET Products /\ TablesOK
        BY DEF LedgerInv
    <2>4. TablesOK'
        <3>1. tracked' \subseteq Products /\ stock' \in Basket
              /\ log' \in [Products -> Seq(Movement)]
            BY <2>1, <2>2, <2>3, MoveType
        <3> QED
            BY <1>3, <2>3, <3>1 DEF TablesOK, OperateStock
    <2>5. StockFollowsMovements'
        BY <2>1, <2>2, <2>3, MoveKeepsChain DEF LedgerInv
    <2>6. ReferenceAppliedOnce'
        BY <2>1, <2>2, <2>3, MoveKeepsReferences DEF LedgerInv
    <2>7. SoldExactlyOnce'
        <3>1. ASSUME NEW t \in Sales, NEW o \in Products
              PROVE  /\ Sold(t, o)' = Sold(t, o)
                     /\ \A i \in DOMAIN log[o] :
                            i \in DOMAIN log'[o] /\ log'[o][i] = log[o][i]
            <4>1. Sells({p}, kind, ref, need, t, o)
                BY <2>1, <2>2, <2>3, MoveSold
            <4> QED
                BY <2>1, <4>1 DEF Sells
        <3> QED
            BY <1>3, <3>1 DEF LedgerInv, SoldExactlyOnce, OperateStock
    <2>8. SettledIffCompleted'
        BY <1>3 DEF LedgerInv, SettledIffCompleted, OperateStock
    <2> QED
        BY <2>4, <2>5, <2>6, <2>7, <2>8 DEF LedgerInv
<1>4. ASSUME NEW s \in Sales, NEW n \in 1..MaxPayments, CompleteSale(s, n)
      PROVE  LedgerInv'
    <2>. DEFINE P == {p \in Products : basket[s][p] > 0}
    <2>1. P \in SUBSET Products /\ TablesOK /\ basket[s] \in Basket
          /\ "SALE" \in MovementTypes
        BY DEF LedgerInv, TablesOK, MovementTypes
    <2>2. Move(P, "SALE", s, basket[s])
        BY <1>4 DEF CompleteSale
    <2>3. status[s] = "OPEN" /\ status' = [status EXCEPT ![s] = "COMPLETED"]
          /\ payments' = [payments EXCEPT ![s] = @ + n]
          /\ fiscal' = [fiscal EXCEPT ![s] = IF @ = "NONE" THEN "PENDING" ELSE @]
          /\ basket' = basket
        BY <1>4 DEF CompleteSale
    <2>4. TablesOK'
        <3>1. tracked' \subseteq Products /\ stock' \in Basket
              /\ log' \in [Products -> Seq(Movement)]
            BY <2>1, <2>2, MoveType
        <3> HIDE DEF P
        <3>2. status' \in [Sales -> SaleStatus] /\ fiscal' \in [Sales -> FiscalStatus]
            BY <2>1, <2>3 DEF TablesOK, SaleStatus, FiscalStatus
        <3>3. payments' \in [Sales -> Nat]
            BY <2>1, <2>3 DEF TablesOK
        <3> QED
            BY <2>1, <2>3, <3>1, <3>2, <3>3 DEF TablesOK
    <2>5. StockFollowsMovements'
        BY <2>1, <2>2, MoveKeepsChain DEF LedgerInv
    <2>6. ReferenceAppliedOnce'
        BY <2>1, <2>2, MoveKeepsReferences DEF LedgerInv
    <2>7. ASSUME NEW t \in Sales, t # s
          PROVE  status'[t] = status[t] /\ payments'[t] = payments[t]
                 /\ fiscal'[t] = fiscal[t]
        BY <2>1, <2>3, <2>7 DEF TablesOK
    <2>8. status'[s] = "COMPLETED"
        BY <2>1, <2>3 DEF TablesOK
    <2>9. SoldExactlyOnce'
        <3>. SUFFICES ASSUME NEW t \in Sales, NEW p \in Products
                     PROVE  IF status'[t] = "COMPLETED" /\ basket'[t][p] > 0
                            THEN \E i \in DOMAIN log'[p] :
                                     Sold(t, p)' = {i} /\ log'[p][i].qty = basket'[t][p]
                            ELSE Sold(t, p)' = {}
            BY DEF SoldExactlyOnce
        <3>1. IF status[t] = "COMPLETED" /\ basket[t][p] > 0
              THEN \E i \in DOMAIN log[p] :
                       Sold(t, p) = {i} /\ log[p][i].qty = basket[t][p]
              ELSE Sold(t, p) = {}
            BY DEF LedgerInv, SoldExactlyOnce
        <3>0. Sells(P, "SALE", s, basket[s], t, p)
            BY <2>1, <2>2, MoveSold
        <3>2. /\ Sold(t, p)' = IF p \in P /\ s = t
                               THEN Sold(t, p) \cup {Len(log[p]) + 1}
                               ELSE Sold(t, p)
              /\ \A i \in DOMAIN log[p] :
                     i \in DOMAIN log'[p] /\ log'[p][i] = log[p][i]
              /\ p \in P => /\ Len(log[p]) + 1 \in DOMAIN log'[p]
                            /\ log'[p][Len(log[p]) + 1].qty = basket[s][p]
              /\ p \in P /\ s = t => Sold(t, p) = {}
            BY <3>0 DEF Sells
        <3>3. CASE t # s
            BY <2>3, <2>7, <3>1, <3>2, <3>3
        <3>4. CASE t = s /\ p \in P
            BY <2>3, <2>8, <3>2, <3>4
        <3>5. CASE t = s /\ p \notin P
            BY <2>3, <2>8, <3>1, <3>2, <3>5
        <3> QED
            BY <3>3, <3>4, <3>5
    <2>10. SettledIffCompleted'
        <3>1. payments[s] = 0 /\ fiscal[s] = "NONE"
            BY <2>3 DEF LedgerInv, SettledIffCompleted
        <3>2. payments'[s] \in 1..MaxPayments /\ fiscal'[s] # "NONE"
            BY <2>1, <2>3, <3>1 DEF TablesOK
        <3> QED
            BY <2>7, <2>8, <3>2 DEF LedgerInv, SettledIffCompleted
    <2> QED
        BY <2>4, <2>5, <2>6, <2>9, <2>10 DEF LedgerInv
<1>5. ASSUME NEW s \in Sales, NEW verdict \in Verdicts,
             SettleFiscalDocument(s, verdict)
      PROVE  LedgerInv'
    <2>1. TablesOK'
        BY <1>5 DEF LedgerInv, TablesOK, SettleFiscalDocument, Verdicts, FiscalStatus
    <2>2. \A t \in Sales : fiscal'[t] = "NONE" <=> fiscal[t] = "NONE"
        BY <1>5 DEF LedgerInv, TablesOK, SettleFiscalDocument, Verdicts
    <2> QED
        BY <1>5, <2>1, <2>2
           DEF LedgerInv, SettleFiscalDocument, StockFollowsMovements, QuantityAfter,
               SettledIffCompleted, ReferenceAppliedOnce, SoldExactlyOnce, Sold
<1>6. CASE UNCHANGED tables
    <2>1. /\ status' = status /\ basket' = basket /\ payments' = payments
          /\ fiscal' = fiscal /\ tracked' = tracked /\ stock' = stock /\ log' = log
        BY <1>6 DEF tables
    <2>2. TablesOK'
        BY <2>1 DEF LedgerInv, TablesOK
    <2>3. StockFollowsMovements' /\ ReferenceAppliedOnce'
        BY <2>1 DEF LedgerInv, StockFollowsMovements, QuantityAfter, ReferenceAppliedOnce
    <2>4. SettledIffCompleted' /\ SoldExactlyOnce'
        BY <2>1 DEF LedgerInv, SettledIffCompleted, SoldExactlyOnce, Sold
    <2> QED
        BY <2>2, <2>3, <2>4 DEF LedgerInv
<1> QED
    BY <1>1, <1>2, <1>3, <1>4, <1>5, <1>6 DEF LedgerNext

(* The empty tables satisfy LedgerInv. *)
LEMMA LedgerStart ==
    ASSUME LedgerInit
    PROVE  LedgerInv
<1>1. TablesOK
    BY DEF LedgerInit, TablesOK, SaleStatus, FiscalStatus, Basket, EmptyBasket
<1>2. \A p \in Products : log[p] = <<>> /\ Len(log[p]) = 0 /\ DOMAIN log[p] = {}
    BY DEF LedgerInit
<1>3. StockFollowsMovements
    BY <1>2 DEF LedgerInit, StockFollowsMovements, QuantityAfter, EmptyBasket
<1>4. ReferenceAppliedOnce
    BY <1>2 DEF ReferenceAppliedOnce
<1>5. SoldExactlyOnce
    BY <1>2 DEF LedgerInit, SoldExactlyOnce, Sold
<1>6. SettledIffCompleted
    BY DEF LedgerInit, SettledIffCompleted
<1> QED
    BY <1>1, <1>3, <1>4, <1>5, <1>6 DEF LedgerInv

(* The promises of the ledger: unbroken movement chains, one settlement    *)
(* per completed sale, no reference applied twice, goods sold exactly once.*)
THEOREM LedgerCorrect == LedgerSpec => []LedgerInv
<1>1. LedgerInit => LedgerInv
    BY LedgerStart
<1>2. LedgerInv /\ [LedgerNext]_tables => LedgerInv'
    BY LedgerStep
<1> QED
    BY <1>1, <1>2, PTL DEF LedgerSpec

-----------------------------------------------------------------------------
(* Rows of the movement table are only ever added. *)
LEMMA MoveAppends ==
    ASSUME TablesOK,
           NEW P \in SUBSET Products, NEW kind \in MovementTypes,
           NEW ref \in Sales \cup References, NEW need \in Basket,
           Move(P, kind, ref, need)
    PROVE  \A p \in Products : \A i \in DOMAIN log[p] :
               i \in DOMAIN log'[p] /\ log'[p][i] = log[p][i]
<1>. SUFFICES ASSUME NEW p \in Products
             PROVE  \A i \in DOMAIN log[p] :
                        i \in DOMAIN log'[p] /\ log'[p][i] = log[p][i]
    OBVIOUS
<1>1. CASE p \notin P
    BY <1>1, MoveLog
<1>2. CASE p \in P
    <2>1. Grows(p, kind, ref, need[p])
        BY <1>2, MoveLog
    <2> QED
        BY <2>1 DEF Grows
<1> QED
    BY <1>1, <1>2

(* A closed sale, a recorded movement and a fiscal verdict never change in *)
(* a step of the ledger.                                                   *)
LEMMA LedgerFinality ==
    ASSUME LedgerInv, [LedgerNext]_tables
    PROVE  [ClosedStaysClosed]_tables
<1>. USE DEF ClosedStaysClosed
<1>0. TablesOK
    BY DEF LedgerInv
<1>1. ASSUME NEW s \in Sales, NEW p \in Products, NEW q \in Quantities \cup {0},
             EditSale(s, p, q)
      PROVE  ClosedStaysClosed
    BY <1>0, <1>1 DEF EditSale, TablesOK
<1>2. ASSUME NEW s \in Sales, CancelSale(s)
      PROVE  ClosedStaysClosed
    BY <1>0, <1>2 DEF CancelSale, TablesOK
<1>3. ASSUME NEW p \in Products, NEW kind \in Operations, NEW ref \in References,
             NEW q \in Quantities, OperateStock(p, kind, ref, q)
      PROVE  ClosedStaysClosed
    <2>. DEFINE need == [EmptyBasket EXCEPT ![p] = q]
    <2>1. need \in Basket /\ kind \in MovementTypes /\ {p} \in SUBSET Products
        BY QuantitiesPositive, OperationsAreKinds DEF Basket, EmptyBasket, MovementTypes
    <2>2. Move({p}, kind, ref, need)
        BY <1>3 DEF OperateStock
    <2> HIDE DEF need
    <2>3. \A o \in Products : \A i \in DOMAIN log[o] :
             i \in DOMAIN log'[o] /\ log'[o][i] = log[o][i]
        BY <1>0, <2>1, <2>2, MoveAppends
    <2> QED
        BY <1>3, <2>3 DEF OperateStock
<1>4. ASSUME NEW s \in Sales, NEW n \in 1..MaxPayments, CompleteSale(s, n)
      PROVE  ClosedStaysClosed
    <2>. DEFINE P == {p \in Products : basket[s][p] > 0}
    <2>1. P \in SUBSET Products /\ basket[s] \in Basket /\ "SALE" \in MovementTypes
        BY <1>0 DEF TablesOK, MovementTypes
    <2>2. Move(P, "SALE", s, basket[s])
        BY <1>4 DEF CompleteSale
    <2> HIDE DEF P
    <2>3. \A o \in Products : \A i \in DOMAIN log[o] :
             i \in DOMAIN log'[o] /\ log'[o][i] = log[o][i]
        BY <1>0, <2>1, <2>2, MoveAppends
    <2>4. status[s] = "OPEN" /\ fiscal[s] = "NONE"
        BY <1>4 DEF CompleteSale, LedgerInv, SettledIffCompleted
    <2>5. \A t \in Sales : t # s =>
             status'[t] = status[t] /\ payments'[t] = payments[t] /\ fiscal'[t] = fiscal[t]
        BY <1>0, <1>4 DEF CompleteSale, TablesOK
    <2>6. basket' = basket
        BY <1>4 DEF CompleteSale
    <2> QED
        BY <2>3, <2>4, <2>5, <2>6 DEF Verdicts
<1>5. ASSUME NEW s \in Sales, NEW verdict \in Verdicts,
             SettleFiscalDocument(s, verdict)
      PROVE  ClosedStaysClosed
    BY <1>0, <1>5 DEF SettleFiscalDocument, TablesOK, Verdicts
<1> QED
    BY <1>1, <1>2, <1>3, <1>4, <1>5 DEF LedgerNext

(* Nothing that is closed is ever reopened or rewritten. *)
THEOREM LedgerFinal == LedgerSpec => ClosedIsFinal
<1>1. LedgerInv /\ [LedgerNext]_tables => [ClosedStaysClosed]_tables
    BY LedgerFinality
<1> QED
    BY <1>1, LedgerCorrect, PTL DEF LedgerSpec, ClosedIsFinal

-----------------------------------------------------------------------------
(* The running system. *)

(* Types, and what each transaction in progress may rely on. *)
Inv == TypeOK /\ ReadsStayValid

-----------------------------------------------------------------------------
(* A step of another request leaves what t relies on alone if it keeps its *)
(* hands off the rows t has locked.                                        *)
Undisturbed(t) ==
    /\ req'[t] = req[t]
    /\ \A s \in Sales : saleLock[s] = t =>
           saleLock'[s] = t /\ status'[s] = status[s] /\ basket'[s] = basket[s]
    /\ \A p \in Products : stockLock[p] = t =>
           /\ stockLock'[p] = t /\ stock'[p] = stock[p] /\ log'[p] = log[p]
           /\ p \in tracked => p \in tracked'

LEMMA Frame ==
    ASSUME Inv, NEW t \in Requests, Undisturbed(t)
    PROVE  SaleHeld(t)' /\ RowsHeld(t)'
<1>0. req'[t] = req[t] /\ req[t] \in Request
    BY DEF Undisturbed, Inv, TypeOK
<1>1. SaleHeld(t) /\ RowsHeld(t)
    BY DEF Inv, ReadsStayValid
<1>2. SaleHeld(t)'
    <2>1. CASE req[t].pc \in {"edit", "cancel", "checkout"}
        <3>. DEFINE s == req[t].sale
        <3>1. s \in Sales /\ saleLock[s] = t /\ status[s] = "OPEN"
            BY <1>1, <2>1 DEF SaleHeld
        <3>2. saleLock'[s] = t /\ status'[s] = "OPEN" /\ basket'[s] = basket[s]
            BY <3>1 DEF Undisturbed
        <3> QED
            BY <1>0, <1>1, <3>1, <3>2 DEF SaleHeld
    <2>2. CASE req[t].pc \notin {"edit", "cancel", "checkout"}
        BY <1>0, <1>1, <2>2 DEF SaleHeld
    <2> QED
        BY <2>1, <2>2
<1>3. RowsHeld(t)'
    <2>1. ASSUME NEW p \in req[t].taken
          PROVE  /\ stockLock'[p] = t
                 /\ req[t].need[p] > 0
                 /\ req[t].seen[p] = stock'[p]
                 /\ Available(t, p)' /\ ~Duplicate(t, p)'
        <3>1. p \in Products
            BY <1>0 DEF Request
        <3>2. /\ stockLock[p] = t /\ req[t].need[p] > 0 /\ req[t].seen[p] = stock[p]
              /\ Available(t, p) /\ ~Duplicate(t, p)
            BY <1>1 DEF RowsHeld
        <3>3. /\ stockLock'[p] = t /\ stock'[p] = stock[p] /\ log'[p] = log[p]
              /\ p \in tracked => p \in tracked'
            BY <3>1, <3>2 DEF Undisturbed
        <3>4. Available(t, p)' /\ ~Duplicate(t, p)'
            BY <1>0, <3>2, <3>3 DEF Available, Duplicate, InStock, Recorded
        <3> QED
            BY <3>2, <3>3, <3>4
    <2> QED
        BY <1>0, <1>1, <2>1 DEF RowsHeld
<1> QED
    BY <1>2, <1>3

(* Locking a free sale disturbs nobody else. *)
LEMMA LockingSale ==
    ASSUME Inv, NEW r \in Requests, NEW s \in Sales, LockOpenSale(r, s),
           UNCHANGED <<tables, stockLock>>,
           NEW x, req' = [req EXCEPT ![r] = x],
           NEW t \in Requests, t # r
    PROVE  Undisturbed(t)
BY NoneIsNothing DEF LockOpenSale, Undisturbed, Inv, TypeOK, tables

(* Nor does the end of a transaction that publishes nothing. *)
LEMMA Releasing ==
    ASSUME Inv, NEW r \in Requests, Rollback(r), NEW t \in Requests, t # r
    PROVE  Undisturbed(t)
BY DEF Rollback, ReleaseLocks, Undisturbed, Inv, TypeOK, tables

(* An idle request relies on nothing. *)
LEMMA IdleRelies ==
    ASSUME NEW r \in Requests, req'[r] = Idle
    PROVE  SaleHeld(r)' /\ RowsHeld(r)'
BY DEF Idle, Begin, SaleHeld, RowsHeld

-----------------------------------------------------------------------------
(* Every step preserves Inv: one lemma per group of actions.               *)

(* It is enough to look at the request that takes the step and at types.   *)
LEMMA Combine ==
    ASSUME Inv, NEW r \in Requests, TypeOK',
           SaleHeld(r)' /\ RowsHeld(r)',
           \A t \in Requests \ {r} : Undisturbed(t)
    PROVE  Inv'
<1>1. \A t \in Requests \ {r} : SaleHeld(t)' /\ RowsHeld(t)'
    BY Frame
<1> QED
    BY <1>1 DEF Inv, ReadsStayValid

(* Idle is a request record. *)
LEMMA IdleType == Idle \in Request
BY MaxPaymentsPositive
   DEF Idle, Begin, Request, Steps, MovementTypes, Basket, EmptyBasket

(* A transaction that changes no table can only release locks. *)
LEMMA RollbackInv ==
    ASSUME Inv, NEW r \in Requests, Rollback(r)
    PROVE  Inv'
<1>1. TypeOK'
    BY IdleType DEF Inv, TypeOK, Rollback, ReleaseLocks, TablesOK, tables
<1>2. SaleHeld(r)' /\ RowsHeld(r)'
    BY IdleRelies DEF Rollback, Inv, TypeOK
<1> QED
    BY <1>1, <1>2, Releasing, Combine

(* The three ways to lock an open sale. *)
LEMMA StartEditInv ==
    ASSUME Inv, NEW r \in Requests, NEW s \in Sales, NEW p \in Products,
           NEW q \in Quantities \cup {0}, StartEdit(r, s, p, q)
    PROVE  Inv'
<1>. DEFINE b == [basket[s] EXCEPT ![p] = q]
            x == Begin("edit", s, "SALE", None, b, 0)
<1>1. b \in Basket
    BY QuantitiesPositive DEF Inv, TypeOK, TablesOK, Basket
<1>2. x \in Request
    BY <1>1, MaxPaymentsPositive
       DEF Begin, Request, Steps, MovementTypes, Basket, EmptyBasket
<1>3. req' = [req EXCEPT ![r] = x] /\ req'[r] = x
    BY DEF StartEdit, Inv, TypeOK
<1>4. x.pc = "edit" /\ x.sale = s /\ x.need = b /\ x.taken = {}
    BY DEF Begin
<1> HIDE DEF x
<1>5. TypeOK'
    BY <1>2, <1>3 DEF Inv, TypeOK, TablesOK, StartEdit, LockOpenSale, tables
<1>6. saleLock'[s] = r /\ status'[s] = "OPEN" /\ basket' = basket
    BY DEF StartEdit, LockOpenSale, Inv, TypeOK, tables
<1>7. SaleHeld(r)' /\ RowsHeld(r)'
    BY <1>3, <1>4, <1>6 DEF SaleHeld, RowsHeld
<1>8. \A t \in Requests \ {r} : Undisturbed(t)
    BY <1>3, LockingSale DEF StartEdit
<1> QED
    BY <1>5, <1>7, <1>8, Combine

LEMMA StartCancelInv ==
    ASSUME Inv, NEW r \in Requests, NEW s \in Sales, StartCancel(r, s)
    PROVE  Inv'
<1>. DEFINE x == Begin("cancel", s, "SALE", None, EmptyBasket, 0)
<1>1. x \in Request
    BY MaxPaymentsPositive
       DEF Begin, Request, Steps, MovementTypes, Basket, EmptyBasket
<1>2. req' = [req EXCEPT ![r] = x] /\ req'[r] = x
    BY DEF StartCancel, Inv, TypeOK
<1>3. x.pc = "cancel" /\ x.sale = s /\ x.taken = {}
    BY DEF Begin
<1> HIDE DEF x
<1>4. TypeOK'
    BY <1>1, <1>2 DEF Inv, TypeOK, TablesOK, StartCancel, LockOpenSale, tables
<1>5. saleLock'[s] = r /\ status'[s] = "OPEN"
    BY DEF StartCancel, LockOpenSale, Inv, TypeOK, tables
<1>6. SaleHeld(r)' /\ RowsHeld(r)'
    BY <1>2, <1>3, <1>5 DEF SaleHeld, RowsHeld
<1>7. \A t \in Requests \ {r} : Undisturbed(t)
    BY <1>2, LockingSale DEF StartCancel
<1> QED
    BY <1>4, <1>6, <1>7, Combine

LEMMA StartCheckoutInv ==
    ASSUME Inv, NEW r \in Requests, NEW s \in Sales, NEW n \in 1..MaxPayments,
           StartCheckout(r, s, n)
    PROVE  Inv'
<1>. DEFINE x == Begin("checkout", s, "SALE", s, basket[s], n)
<1>1. n \in 0..MaxPayments /\ basket[s] \in Basket
    BY MaxPaymentsPositive DEF Inv, TypeOK, TablesOK
<1>2. x \in Request
    BY <1>1 DEF Begin, Request, Steps, MovementTypes, Basket, EmptyBasket
<1>3. req' = [req EXCEPT ![r] = x] /\ req'[r] = x
    BY DEF StartCheckout, Inv, TypeOK
<1>4. /\ x.pc = "checkout" /\ x.sale = s /\ x.taken = {} /\ x.kind = "SALE"
      /\ x.ref = s /\ x.need = basket[s] /\ x.tender = n
    BY DEF Begin
<1> HIDE DEF x
<1>5. TypeOK'
    BY <1>2, <1>3 DEF Inv, TypeOK, TablesOK, StartCheckout, LockOpenSale, tables
<1>6. /\ saleLock'[s] = r /\ status'[s] = "OPEN" /\ basket' = basket
      /\ basket[s] # EmptyBasket
    BY DEF StartCheckout, LockOpenSale, Inv, TypeOK, tables
<1>7. SaleHeld(r)' /\ RowsHeld(r)'
    BY <1>3, <1>4, <1>6 DEF SaleHeld, RowsHeld
<1>8. \A t \in Requests \ {r} : Undisturbed(t)
    BY <1>3, LockingSale DEF StartCheckout
<1> QED
    BY <1>5, <1>7, <1>8, Combine

(* A stock operation starts without any lock. *)
LEMMA StartStockOperationInv ==
    ASSUME Inv, NEW r \in Requests, NEW p \in Products, NEW kind \in Operations,
           NEW ref \in References, NEW q \in Quantities,
           StartStockOperation(r, p, kind, ref, q)
    PROVE  Inv'
<1>. DEFINE b == [EmptyBasket EXCEPT ![p] = q]
            x == Begin("stock", None, kind, ref, b, 0)
<1>1. b \in Basket
    BY QuantitiesPositive DEF EmptyBasket, Basket
<1>2. x \in Request
    BY <1>1, MaxPaymentsPositive, OperationsAreKinds
       DEF Begin, Request, Steps, MovementTypes, Basket, EmptyBasket
<1>3. req' = [req EXCEPT ![r] = x] /\ req'[r] = x
    BY DEF StartStockOperation, Inv, TypeOK
<1>4. /\ x.pc = "stock" /\ x.taken = {} /\ x.kind = kind
      /\ x.ref = ref /\ x.need = b
    BY DEF Begin
<1> HIDE DEF x
<1>5. TypeOK'
    BY <1>2, <1>3 DEF Inv, TypeOK, TablesOK, StartStockOperation, tables, locks
<1>6. SaleHeld(r)' /\ RowsHeld(r)'
    BY <1>3, <1>4 DEF SaleHeld, RowsHeld
<1>7. \A t \in Requests \ {r} : Undisturbed(t)
    BY <1>3 DEF StartStockOperation, Undisturbed, Inv, TypeOK, tables, locks
<1> QED
    BY <1>5, <1>6, <1>7, Combine

(* Changing a free inventory row. *)
LEMMA MoveRowInv ==
    ASSUME Inv, NEW r \in Requests, NEW p \in Products, MoveRow(r, p)
    PROVE  Inv'
<1>1. /\ req[r] \in Request /\ req \in [Requests -> Request] /\ stock[p] \in Nat
      /\ SaleHeld(r) /\ RowsHeld(r)
    BY DEF Inv, TypeOK, TablesOK, Basket, ReadsStayValid
<1>2. /\ req'[r].pc = req[r].pc /\ req'[r].sale = req[r].sale
      /\ req'[r].kind = req[r].kind /\ req'[r].ref = req[r].ref
      /\ req'[r].need = req[r].need /\ req'[r].tender = req[r].tender
      /\ req'[r].taken = req[r].taken \cup {p}
      /\ req'[r].seen = [req[r].seen EXCEPT ![p] = stock[p]]
    BY <1>1 DEF MoveRow, Request
<1>3. req' \in [Requests -> Request]
    BY <1>1 DEF MoveRow, Request, Basket
<1>4. TypeOK'
    BY <1>3 DEF Inv, TypeOK, TablesOK, MoveRow, tables
<1>5. UNCHANGED <<status, basket, payments, fiscal, tracked, stock, log, saleLock>>
    BY DEF MoveRow, tables
<1>6. SaleHeld(r)'
    BY <1>1, <1>2, <1>5 DEF SaleHeld
<1>7. ASSUME NEW o \in req'[r].taken
      PROVE  /\ stockLock'[o] = r
             /\ req'[r].need[o] > 0
             /\ req'[r].seen[o] = stock'[o]
             /\ Available(r, o)' /\ ~Duplicate(r, o)'
    <2>1. o \in Products /\ req[r].seen \in Basket
        BY <1>1, <1>2 DEF Request
    <2>2. CASE o = p
        <3>1. stockLock'[p] = r
            BY DEF MoveRow, Inv, TypeOK
        <3>2. req[r].need[p] > 0
            BY DEF MoveRow, NextRow, Remaining
        <3>3. req'[r].seen[p] = stock[p]
            BY <1>2, <2>1 DEF Basket
        <3>4. Available(r, p)' /\ ~Duplicate(r, p)'
            BY <1>2, <1>5 DEF MoveRow, Available, Duplicate, InStock, Recorded
        <3> QED
            BY <1>2, <1>5, <2>2, <3>1, <3>2, <3>3, <3>4
    <2>3. CASE o # p
        <3>1. o \in req[r].taken
            BY <1>2, <2>3
        <3>2. /\ stockLock[o] = r /\ req[r].need[o] > 0 /\ req[r].seen[o] = stock[o]
              /\ Available(r, o) /\ ~Duplicate(r, o)
            BY <1>1, <3>1 DEF RowsHeld
        <3>3. stockLock'[o] = r
            BY <2>1, <2>3, <3>2 DEF MoveRow, Inv, TypeOK
        <3>4. req'[r].seen[o] = req[r].seen[o]
            BY <1>2, <2>1, <2>3 DEF Basket
        <3>5. Available(r, o)' /\ ~Duplicate(r, o)'
            BY <1>2, <1>5, <3>2 DEF Available, Duplicate, InStock, Recorded
        <3> QED
            BY <1>2, <1>5, <3>2, <3>3, <3>4, <3>5
    <2> QED
        BY <2>2, <2>3
<1>8. RowsHeld(r)'
    <2>1. req[r].pc \in {"checkout", "stock"}
        BY DEF MoveRow
    <2> QED
        BY <1>1, <1>2, <1>7, <2>1 DEF RowsHeld
<1>9. \A t \in Requests \ {r} : Undisturbed(t)
    BY <1>5, NoneIsNothing DEF MoveRow, Undisturbed, Inv, TypeOK
<1> QED
    BY <1>4, <1>6, <1>8, <1>9, Combine

(* The COMMIT of an edit and of a cancellation touches only the sale that  *)
(* the request has locked.                                                 *)
LEMMA CommitEditInv ==
    ASSUME Inv, NEW r \in Requests, CommitEdit(r)
    PROVE  Inv'
<1>1. /\ req[r] \in Request /\ req[r].sale \in Sales /\ saleLock[req[r].sale] = r
    BY DEF Inv, TypeOK, ReadsStayValid, SaleHeld, CommitEdit
<1>2. TypeOK'
    BY <1>1, IdleType
       DEF Inv, TypeOK, TablesOK, CommitEdit, ReleaseLocks, Request
<1>3. SaleHeld(r)' /\ RowsHeld(r)'
    BY IdleRelies DEF CommitEdit, Inv, TypeOK
<1>4. \A t \in Requests \ {r} : Undisturbed(t)
    BY <1>1 DEF CommitEdit, ReleaseLocks, Undisturbed, Inv, TypeOK, TablesOK
<1> QED
    BY <1>2, <1>3, <1>4, Combine

LEMMA CommitCancelInv ==
    ASSUME Inv, NEW r \in Requests, CommitCancel(r)
    PROVE  Inv'
<1>1. req[r].sale \in Sales /\ saleLock[req[r].sale] = r
    BY DEF Inv, ReadsStayValid, SaleHeld, CommitCancel
<1>2. TypeOK'
    BY <1>1, IdleType
       DEF Inv, TypeOK, TablesOK, CommitCancel, ReleaseLocks, SaleStatus
<1>3. SaleHeld(r)' /\ RowsHeld(r)'
    BY IdleRelies DEF CommitCancel, Inv, TypeOK
<1>4. \A t \in Requests \ {r} : Undisturbed(t)
    BY <1>1 DEF CommitCancel, ReleaseLocks, Undisturbed, Inv, TypeOK, TablesOK
<1> QED
    BY <1>2, <1>3, <1>4, Combine

(* The fiscal verdict is nothing a transaction in progress relies on. *)
LEMMA AuthorizeInv ==
    ASSUME Inv, NEW r \in Requests, NEW verdict \in Verdicts,
           AuthorizeFiscalDocument(r, verdict)
    PROVE  Inv'
<1>1. req[r].sale \in Sales
    BY DEF Inv, ReadsStayValid, SaleHeld, AuthorizeFiscalDocument
<1>2. TypeOK'
    BY <1>1, IdleType
       DEF Inv, TypeOK, TablesOK, AuthorizeFiscalDocument, locks, FiscalStatus, Verdicts
<1>3. SaleHeld(r)' /\ RowsHeld(r)'
    BY IdleRelies DEF AuthorizeFiscalDocument, Inv, TypeOK
<1>4. \A t \in Requests \ {r} : Undisturbed(t)
    BY DEF AuthorizeFiscalDocument, locks, Undisturbed, Inv, TypeOK, TablesOK
<1> QED
    BY <1>2, <1>3, <1>4, Combine

(* What a committing transaction publishes is a Move of the ledger: the    *)
(* quantities it saw are still those of the committed rows.                *)
LEMMA PublishIsMove ==
    ASSUME Inv, NEW r \in Requests, req[r].pc \in {"checkout", "stock"},
           PublishStock(r)
    PROVE  /\ req[r].taken \in SUBSET Products /\ req[r].kind \in MovementTypes
           /\ req[r].ref \in Sales \cup References /\ req[r].need \in Basket
           /\ Move(req[r].taken, req[r].kind, req[r].ref, req[r].need)
<1>1. /\ req[r] \in Request /\ SaleHeld(r) /\ RowsHeld(r)
    BY DEF Inv, TypeOK, ReadsStayValid
<1>2. /\ req[r].taken \in SUBSET Products /\ req[r].kind \in MovementTypes
      /\ req[r].need \in Basket
    BY <1>1 DEF Request
<1>3. req[r].ref \in Sales \cup References
    BY <1>1 DEF SaleHeld, RowsHeld
<1>4. \A p \in req[r].taken :
         /\ req[r].seen[p] = stock[p]
         /\ InStock(p, req[r].kind, req[r].need[p])
         /\ ~Recorded(p, req[r].kind, req[r].ref)
    BY <1>1 DEF RowsHeld, Available, Duplicate
<1>5. Move(req[r].taken, req[r].kind, req[r].ref, req[r].need)
    <2>1. stock' = [p \in Products |->
                       IF p \in req[r].taken
                       THEN NewQuantity(req[r].kind, stock[p], req[r].need[p])
                       ELSE stock[p]]
        BY <1>4 DEF PublishStock, Left
    <2>2. log' = [p \in Products |->
                     IF p \in req[r].taken
                     THEN Append(log[p],
                            [type |-> req[r].kind, ref |-> req[r].ref,
                             qty |-> req[r].need[p], prev |-> stock[p],
                             cur |-> NewQuantity(req[r].kind, stock[p], req[r].need[p])])
                     ELSE log[p]]
        BY <1>4 DEF PublishStock, Left, MovementOf
    <2> QED
        BY <1>4, <2>1, <2>2 DEF Move, PublishStock
<1> QED
    BY <1>2, <1>3, <1>5

(* Rows locked by others are not among those a commit publishes. *)
LEMMA PublishingDisturbsNoRow ==
    ASSUME Inv, NEW r \in Requests, PublishStock(r), ReleaseLocks(r),
           NEW t \in Requests, t # r, NEW p \in Products, stockLock[p] = t
    PROVE  /\ stockLock'[p] = t /\ stock'[p] = stock[p] /\ log'[p] = log[p]
           /\ p \in tracked => p \in tracked'
<1>1. p \notin req[r].taken
    BY DEF Inv, ReadsStayValid, RowsHeld
<1> QED
    BY <1>1 DEF PublishStock, ReleaseLocks, Inv, TypeOK, TablesOK

LEMMA CommitStockOperationInv ==
    ASSUME Inv, NEW r \in Requests, CommitStockOperation(r)
    PROVE  Inv'
<1>1. TablesOK /\ req[r].pc \in {"checkout", "stock"} /\ PublishStock(r)
    BY DEF Inv, TypeOK, CommitStockOperation
<1>2. /\ tracked' \subseteq Products /\ stock' \in Basket
      /\ log' \in [Products -> Seq(Movement)]
    BY <1>1, PublishIsMove, MoveType
<1>3. TypeOK'
    BY <1>2, IdleType
       DEF Inv, TypeOK, TablesOK, CommitStockOperation, ReleaseLocks
<1>4. SaleHeld(r)' /\ RowsHeld(r)'
    BY IdleRelies DEF CommitStockOperation, Inv, TypeOK
<1>5. ASSUME NEW t \in Requests \ {r}
      PROVE  Undisturbed(t)
    <2>1. req'[t] = req[t]
        BY DEF CommitStockOperation, Inv, TypeOK
    <2>2. \A s \in Sales : saleLock[s] = t =>
             saleLock'[s] = t /\ status'[s] = status[s] /\ basket'[s] = basket[s]
        BY DEF CommitStockOperation, ReleaseLocks, Inv, TypeOK
    <2>3. \A p \in Products : stockLock[p] = t =>
             /\ stockLock'[p] = t /\ stock'[p] = stock[p] /\ log'[p] = log[p]
             /\ p \in tracked => p \in tracked'
        BY PublishingDisturbsNoRow DEF CommitStockOperation
    <2> QED
        BY <2>1, <2>2, <2>3 DEF Undisturbed
<1> QED
    BY <1>3, <1>4, <1>5, Combine

LEMMA CommitCheckoutInv ==
    ASSUME Inv, NEW r \in Requests, CommitCheckout(r)
    PROVE  Inv'
<1>. DEFINE s == req[r].sale
            x == Begin("authorize", s, "SALE", None, EmptyBasket, 0)
<1>0. /\ s \in Sales /\ saleLock[s] = r /\ req[r].tender \in Nat
    BY DEF Inv, TypeOK, ReadsStayValid, SaleHeld, CommitCheckout
<1>1. TablesOK /\ req[r].pc \in {"checkout", "stock"} /\ PublishStock(r)
    BY DEF Inv, TypeOK, CommitCheckout
<1>2. /\ tracked' \subseteq Products /\ stock' \in Basket
      /\ log' \in [Products -> Seq(Movement)]
    BY <1>1, PublishIsMove, MoveType
<1>3. x \in Request /\ x.pc = "authorize" /\ x.sale = s /\ x.taken = {}
    BY <1>0, MaxPaymentsPositive
       DEF Begin, Request, Steps, MovementTypes, Basket, EmptyBasket
<1>4. req' = [req EXCEPT ![r] = x] /\ req'[r] = x
    BY DEF CommitCheckout, Inv, TypeOK
<1> HIDE DEF x
<1>5. TypeOK'
    <2>1. /\ status' \in [Sales -> SaleStatus] /\ payments' \in [Sales -> Nat]
          /\ fiscal' \in [Sales -> FiscalStatus] /\ basket' = basket
        BY <1>0, <1>1 DEF CommitCheckout, TablesOK, SaleStatus, FiscalStatus
    <2>2. /\ saleLock' \in [Sales -> Requests \cup {None}]
          /\ stockLock' \in [Products -> Requests \cup {None}]
        BY DEF CommitCheckout, ReleaseLocks, Inv, TypeOK
    <2>3. req' \in [Requests -> Request]
        BY <1>3, <1>4 DEF Inv, TypeOK
    <2> QED
        BY <1>1, <1>2, <2>1, <2>2, <2>3 DEF TypeOK, TablesOK
<1>6. SaleHeld(r)' /\ RowsHeld(r)'
    BY <1>0, <1>3, <1>4 DEF SaleHeld, RowsHeld
<1>7. ASSUME NEW t \in Requests \ {r}
      PROVE  Undisturbed(t)
    <2>1. req'[t] = req[t]
        BY <1>4 DEF Inv, TypeOK
    <2>2. \A u \in Sales : saleLock[u] = t =>
             saleLock'[u] = t /\ status'[u] = status[u] /\ basket'[u] = basket[u]
        BY <1>0, <1>1 DEF CommitCheckout, ReleaseLocks, TablesOK, Inv, TypeOK
    <2>3. \A p \in Products : stockLock[p] = t =>
             /\ stockLock'[p] = t /\ stock'[p] = stock[p] /\ log'[p] = log[p]
             /\ p \in tracked => p \in tracked'
        BY PublishingDisturbsNoRow DEF CommitCheckout
    <2> QED
        BY <2>1, <2>2, <2>3 DEF Undisturbed
<1> QED
    BY <1>5, <1>6, <1>7, Combine

LEMMA StepInv ==
    ASSUME Inv, [Next]_vars
    PROVE  Inv'
<1>1. ASSUME NEW r \in Requests, Arrival(r)
      PROVE  Inv'
    BY <1>1, StartEditInv, StartCancelInv, StartCheckoutInv, StartStockOperationInv
       DEF Arrival
<1>2. ASSUME NEW r \in Requests, Progress(r)
      PROVE  Inv'
    <2>1. ASSUME NEW p \in Products, RejectRow(r, p)
          PROVE  Inv'
        BY <2>1, RollbackInv DEF RejectRow
    <2> QED
        BY <1>2, <2>1, CommitEditInv, CommitCancelInv, CommitStockOperationInv,
           MoveRowInv, CommitCheckoutInv, AuthorizeInv
           DEF Progress
<1>3. ASSUME NEW r \in Requests, Crash(r)
      PROVE  Inv'
    BY <1>3, RollbackInv DEF Crash
<1>4. CASE UNCHANGED vars
    <2>1. /\ UNCHANGED <<status, basket, payments, fiscal, tracked, stock, log>>
          /\ UNCHANGED <<saleLock, stockLock, req>>
        BY <1>4 DEF vars, tables, locks
    <2>2. TypeOK'
        BY <2>1 DEF Inv, TypeOK, TablesOK
    <2>3. \A t \in Requests : Undisturbed(t)
        BY <2>1 DEF Undisturbed
    <2> QED
        BY <2>2, <2>3, Frame DEF Inv, ReadsStayValid
<1> QED
    BY <1>1, <1>2, <1>3, <1>4 DEF Next

LEMMA StartInv ==
    ASSUME Init
    PROVE  Inv
<1>1. TablesOK
    BY LedgerStart DEF Init, LedgerInv
<1>2. TypeOK
    BY <1>1, IdleType DEF Init, TypeOK
<1>3. \A r \in Requests : SaleHeld(r) /\ RowsHeld(r)
    BY DEF Init, Idle, Begin, SaleHeld, RowsHeld
<1> QED
    BY <1>2, <1>3 DEF Inv, ReadsStayValid

(* Inv is an inductive invariant. *)
THEOREM Invariance == Spec => []Inv
<1>1. Init => Inv
    BY StartInv
<1>2. Inv /\ [Next]_vars => Inv'
    BY StepInv
<1> QED
    BY <1>1, <1>2, PTL DEF Spec

(* Reads made before a lock wait or before the COMMIT are still true when  *)
(* they are used, in every reachable state.                                *)
THEOREM ReadsValid == Spec => []ReadsStayValid
<1>1. Inv => ReadsStayValid
    BY DEF Inv
<1> QED
    BY <1>1, Invariance, PTL

(* Types are correct in every reachable state. *)
THEOREM TypeCorrect == Spec => []TypeOK
<1>1. Inv => TypeOK
    BY DEF Inv
<1> QED
    BY <1>1, Invariance, PTL

-----------------------------------------------------------------------------
(* Refinement: a COMMIT is one step of the ledger, everything else is      *)
(* invisible in the committed tables.                                      *)
LEMMA StepRefines ==
    ASSUME Inv, [Next]_vars
    PROVE  [LedgerNext]_tables
<1>1. ASSUME NEW r \in Requests, Arrival(r)
      PROVE  UNCHANGED tables
    BY <1>1 DEF Arrival, StartEdit, StartCancel, StartCheckout, StartStockOperation
<1>2. ASSUME NEW r \in Requests, CommitEdit(r)
      PROVE  LedgerNext
    <2>. DEFINE s == req[r].sale
    <2>1. s \in Sales /\ status[s] = "OPEN" /\ basket \in [Sales -> Basket]
        BY <1>2 DEF Inv, ReadsStayValid, SaleHeld, CommitEdit, TypeOK, TablesOK
    <2>2. PICK p \in Products, q \in Quantities \cup {0} :
              req[r].need = [basket[s] EXCEPT ![p] = q]
        BY <1>2 DEF Inv, ReadsStayValid, SaleHeld, CommitEdit
    <2>3. basket' = [basket EXCEPT ![s][p] = q]
        BY <1>2, <2>1, <2>2 DEF CommitEdit
    <2>4. EditSale(s, p, q)
        BY <1>2, <2>1, <2>3 DEF EditSale, CommitEdit
    <2> QED
        BY <2>1, <2>4 DEF LedgerNext
<1>3. ASSUME NEW r \in Requests, CommitCancel(r)
      PROVE  LedgerNext
    <2>1. req[r].sale \in Sales /\ CancelSale(req[r].sale)
        BY <1>3 DEF Inv, ReadsStayValid, SaleHeld, CommitCancel, CancelSale
    <2> QED
        BY <2>1 DEF LedgerNext
<1>4. ASSUME NEW r \in Requests, CommitStockOperation(r)
      PROVE  LedgerNext
    <2>1. /\ req[r].pc \in {"checkout", "stock"} /\ PublishStock(r) /\ RowsHeld(r)
          /\ req[r].pc = "stock" /\ req[r] \in Request
        BY <1>4 DEF CommitStockOperation, Inv, ReadsStayValid, TypeOK
    <2>2. Move(req[r].taken, req[r].kind, req[r].ref, req[r].need)
        BY <2>1, PublishIsMove
    <2>3. PICK p \in Products, q \in Quantities :
              req[r].need = [EmptyBasket EXCEPT ![p] = q]
        BY <2>1 DEF RowsHeld
    <2>4. \A o \in Products : req[r].need[o] > 0 <=> o = p
        BY <2>3, QuantitiesPositive DEF EmptyBasket
    <2>5. req[r].taken = {p}
        <3>1. req[r].taken \subseteq Products
            BY <2>1 DEF Request
        <3>2. \A o \in req[r].taken : req[r].need[o] > 0
            BY <2>1 DEF RowsHeld
        <3>3. p \in req[r].taken
            BY <1>4, <2>4 DEF CommitStockOperation, Remaining
        <3> QED
            BY <2>4, <3>1, <3>2, <3>3
    <2>6. req[r].kind \in Operations /\ req[r].ref \in References
        BY <2>1 DEF RowsHeld
    <2>7. OperateStock(p, req[r].kind, req[r].ref, q)
        BY <1>4, <2>2, <2>3, <2>5 DEF OperateStock, CommitStockOperation
    <2> QED
        BY <2>6, <2>7 DEF LedgerNext
<1>5. ASSUME NEW r \in Requests, CommitCheckout(r)
      PROVE  LedgerNext
    <2>. DEFINE s == req[r].sale
    <2>1. /\ req[r].pc \in {"checkout", "stock"} /\ PublishStock(r) /\ RowsHeld(r)
          /\ SaleHeld(r) /\ req[r].pc = "checkout" /\ req[r] \in Request
        BY <1>5 DEF CommitCheckout, Inv, ReadsStayValid, TypeOK
    <2>2. Move(req[r].taken, req[r].kind, req[r].ref, req[r].need)
        BY <2>1, PublishIsMove
    <2>3. /\ s \in Sales /\ status[s] = "OPEN" /\ req[r].kind = "SALE"
          /\ req[r].ref = s /\ req[r].need = basket[s] /\ basket[s] # EmptyBasket
          /\ req[r].tender \in 1..MaxPayments
        BY <2>1 DEF SaleHeld
    <2>4. req[r].taken = {p \in Products : basket[s][p] > 0}
        <3>1. req[r].taken \subseteq Products
            BY <2>1 DEF Request
        <3>2. \A o \in req[r].taken : req[r].need[o] > 0
            BY <2>1 DEF RowsHeld
        <3>3. \A o \in Products : req[r].need[o] > 0 => o \in req[r].taken
            BY <1>5 DEF CommitCheckout, Remaining
        <3> QED
            BY <2>3, <3>1, <3>2, <3>3
    <2>5. CompleteSale(s, req[r].tender)
        BY <1>5, <2>2, <2>3, <2>4 DEF CompleteSale, CommitCheckout
    <2> QED
        BY <2>3, <2>5 DEF LedgerNext
<1>6. ASSUME NEW r \in Requests, NEW verdict \in Verdicts,
             AuthorizeFiscalDocument(r, verdict)
      PROVE  LedgerNext \/ UNCHANGED tables
    <2>. DEFINE s == req[r].sale
    <2>1. s \in Sales /\ fiscal \in [Sales -> FiscalStatus]
        BY <1>6 DEF AuthorizeFiscalDocument, Inv, ReadsStayValid, SaleHeld,
                    TypeOK, TablesOK
    <2>2. CASE fiscal[s] = "PENDING"
        <3>1. SettleFiscalDocument(s, verdict)
            BY <1>6, <2>2 DEF AuthorizeFiscalDocument, SettleFiscalDocument
        <3> QED
            BY <2>1, <3>1 DEF LedgerNext
    <2>3. CASE fiscal[s] # "PENDING"
        <3>1. fiscal' = fiscal
            BY <1>6, <2>1, <2>3 DEF AuthorizeFiscalDocument
        <3> QED
            BY <1>6, <3>1 DEF AuthorizeFiscalDocument, tables
    <2> QED
        BY <2>2, <2>3
<1>7. ASSUME NEW r \in Requests, NEW p \in Products, MoveRow(r, p) \/ RejectRow(r, p)
      PROVE  UNCHANGED tables
    BY <1>7 DEF MoveRow, RejectRow, Rollback
<1>8. ASSUME NEW r \in Requests, Crash(r)
      PROVE  UNCHANGED tables
    BY <1>8 DEF Crash, Rollback
<1>9. CASE UNCHANGED vars
    BY <1>9 DEF vars
<1> QED
    BY <1>1, <1>2, <1>3, <1>4, <1>5, <1>6, <1>7, <1>8, <1>9 DEF Next, Progress

(* The concurrent transactions implement the serial ledger: whatever the   *)
(* interleaving and wherever requests crash, the committed tables change   *)
(* as if requests were served completely or not at all, one at a time.     *)
THEOREM Serializable == Spec => LedgerSpec
<1>1. Init => LedgerInit
    BY DEF Init
<1>2. Inv /\ [Next]_vars => [LedgerNext]_tables
    BY StepRefines
<1> QED
    BY <1>1, <1>2, Invariance, PTL DEF Spec, LedgerSpec

(* Movement chains of the concurrent system are unbroken and end in the    *)
(* quantity on hand: no update of the stock is lost.                       *)
THEOREM NoLostUpdate == Spec => []StockFollowsMovements
<1>1. LedgerInv => StockFollowsMovements
    BY DEF LedgerInv
<1> QED
    BY <1>1, Serializable, LedgerCorrect, PTL

(* Two checkouts of one sale, or a checkout and an edit, never sell goods  *)
(* twice or in other quantities than the completed sale shows.             *)
THEOREM NoDoubleSale == Spec => []SoldExactlyOnce
<1>1. LedgerInv => SoldExactlyOnce
    BY DEF LedgerInv
<1> QED
    BY <1>1, Serializable, LedgerCorrect, PTL

(* Payments and the fiscal document exist exactly for completed sales. *)
THEOREM SettledTogether == Spec => []SettledIffCompleted
<1>1. LedgerInv => SettledIffCompleted
    BY DEF LedgerInv
<1> QED
    BY <1>1, Serializable, LedgerCorrect, PTL

(* A client's retry never applies its reference a second time. *)
THEOREM RetriesApplyOnce == Spec => []ReferenceAppliedOnce
<1>1. LedgerInv => ReferenceAppliedOnce
    BY DEF LedgerInv
<1> QED
    BY <1>1, Serializable, LedgerCorrect, PTL

(* Closed sales, movements and fiscal verdicts never change. *)
THEOREM ClosedForGood == Spec => ClosedIsFinal
BY Serializable, LedgerFinal, PTL

-----------------------------------------------------------------------------
(* Rows are locked in ascending order. *)
LEMMA StepAscends ==
    ASSUME Inv, LocksAscend, [Next]_vars
    PROVE  LocksAscend'
<1>0. req \in [Requests -> Request]
    BY DEF Inv, TypeOK
<1>1. ASSUME NEW r \in Requests, NEW p \in Products, MoveRow(r, p)
      PROVE  LocksAscend'
    <2>1. /\ req'[r].need = req[r].need
          /\ req'[r].taken = req[r].taken \cup {p}
          /\ \A t \in Requests \ {r} : req'[t] = req[t]
        BY <1>0, <1>1 DEF MoveRow, Request
    <2>2. Remaining(r)' = Remaining(r) \ {p}
        BY <2>1 DEF Remaining
    <2>3. \A q \in Remaining(r) \ {p} : p < q
        <3>1. \A q \in Remaining(r) : p <= q /\ q \in Nat
            BY <1>1, ProductsAreRanks DEF MoveRow, NextRow, Remaining
        <3>2. p \in Nat
            BY ProductsAreRanks
        <3> QED
            BY <3>1, <3>2
    <2>4. \A o \in req'[r].taken, q \in Remaining(r)' : o < q
        BY <2>1, <2>2, <2>3 DEF LocksAscend
    <2>5. \A t \in Requests \ {r} : \A o \in req'[t].taken, q \in Remaining(t)' : o < q
        BY <2>1 DEF LocksAscend, Remaining
    <2> QED
        BY <2>4, <2>5 DEF LocksAscend
<1>2. ASSUME NEW r \in Requests, req'[r].taken = {},
             \A t \in Requests \ {r} : req'[t] = req[t]
      PROVE  LocksAscend'
    BY <1>2 DEF LocksAscend, Remaining
<1>3. ASSUME NEW r \in Requests, Arrival(r)
      PROVE  LocksAscend'
    <2>1. req'[r].taken = {} /\ \A t \in Requests \ {r} : req'[t] = req[t]
        BY <1>0, <1>3
           DEF Arrival, StartEdit, StartCancel, StartCheckout, StartStockOperation, Begin
    <2> QED
        BY <1>2, <2>1
<1>4. ASSUME NEW r \in Requests, req' = [req EXCEPT ![r] = Idle]
      PROVE  LocksAscend'
    <2>1. req'[r].taken = {} /\ \A t \in Requests \ {r} : req'[t] = req[t]
        BY <1>0, <1>4 DEF Idle, Begin
    <2> QED
        BY <1>2, <2>1
<1>5. ASSUME NEW r \in Requests, Progress(r)
      PROVE  LocksAscend'
    <2>1. CASE \E p \in Products : MoveRow(r, p)
        BY <1>1, <2>1
    <2>2. CASE CommitCheckout(r)
        <3>1. req'[r].taken = {} /\ \A t \in Requests \ {r} : req'[t] = req[t]
            BY <1>0, <2>2 DEF CommitCheckout, Begin
        <3> QED
            BY <1>2, <3>1
    <2> QED
        BY <1>4, <1>5, <2>1, <2>2
           DEF Progress, CommitEdit, CommitCancel, CommitStockOperation, RejectRow,
               Rollback, AuthorizeFiscalDocument
<1>6. CASE \E r \in Requests : Crash(r)
    BY <1>4, <1>6 DEF Crash, Rollback
<1>7. CASE UNCHANGED vars
    BY <1>7 DEF vars, LocksAscend, Remaining
<1> QED
    BY <1>3, <1>5, <1>6, <1>7 DEF Next

(* A checkout only waits for rows above all the rows it holds, the order   *)
(* that keeps transactions from waiting for one another in a circle.       *)
THEOREM AscendingLocks == Spec => []LocksAscend
<1>1. Init => LocksAscend
    BY DEF Init, LocksAscend, Idle, Begin
<1>2. Inv /\ LocksAscend /\ [Next]_vars => LocksAscend'
    BY StepAscends
<1> QED
    BY <1>1, <1>2, Invariance, PTL DEF Spec

-----------------------------------------------------------------------------
(* A lock belongs to a transaction that still counts the row as its own:   *)
(* COMMIT and ROLLBACK leave no inventory row locked behind.               *)
LocksOwned ==
    \A p \in Products : stockLock[p] # None => p \in req[stockLock[p]].taken

LEMMA StepOwns ==
    ASSUME Inv, LocksOwned, [Next]_vars
    PROVE  LocksOwned'
<1>0. /\ req \in [Requests -> Request]
      /\ stockLock \in [Products -> Requests \cup {None}]
    BY DEF Inv, TypeOK
<1>1. ASSUME NEW r \in Requests, NEW p \in Products, MoveRow(r, p)
      PROVE  LocksOwned'
    <2>1. /\ stockLock' = [stockLock EXCEPT ![p] = r]
          /\ req'[r].taken = req[r].taken \cup {p}
          /\ \A t \in Requests \ {r} : req'[t] = req[t]
        BY <1>0, <1>1 DEF MoveRow, Request
    <2> QED
        BY <1>0, <2>1 DEF LocksOwned
<1>2. ASSUME NEW r \in Requests, ReleaseLocks(r),
             \A t \in Requests \ {r} : req'[t] = req[t]
      PROVE  LocksOwned'
    BY <1>0, <1>2 DEF LocksOwned, ReleaseLocks
<1>3. ASSUME NEW r \in Requests, req[r].pc \notin {"checkout", "stock"},
             UNCHANGED stockLock, \A t \in Requests \ {r} : req'[t] = req[t]
      PROVE  LocksOwned'
    <2>1. req[r].taken = {}
        BY <1>3 DEF Inv, ReadsStayValid, RowsHeld
    <2> QED
        BY <1>0, <1>3, <2>1 DEF LocksOwned
<1>4. ASSUME NEW r \in Requests, Arrival(r)
      PROVE  LocksOwned'
    <2>1. /\ req[r].pc \notin {"checkout", "stock"}
          /\ UNCHANGED stockLock
          /\ \A t \in Requests \ {r} : req'[t] = req[t]
        BY <1>0, <1>4
           DEF Arrival, StartEdit, StartCancel, StartCheckout, StartStockOperation,
               LockOpenSale, locks
    <2> QED
        BY <1>3, <2>1
<1>5. ASSUME NEW r \in Requests, Progress(r)
      PROVE  LocksOwned'
    <2>1. CASE \E p \in Products : MoveRow(r, p)
        BY <1>1, <2>1
    <2>2. CASE \E verdict \in Verdicts : AuthorizeFiscalDocument(r, verdict)
        <3>1. /\ req[r].pc \notin {"checkout", "stock"}
              /\ UNCHANGED stockLock
              /\ \A t \in Requests \ {r} : req'[t] = req[t]
            BY <1>0, <2>2 DEF AuthorizeFiscalDocument, locks
        <3> QED
            BY <1>3, <3>1
    <2>3. CASE \/ CommitEdit(r) \/ CommitCancel(r) \/ CommitStockOperation(r)
               \/ CommitCheckout(r) \/ \E p \in Products : RejectRow(r, p)
        <3>1. ReleaseLocks(r) /\ \A t \in Requests \ {r} : req'[t] = req[t]
            BY <1>0, <2>3
               DEF CommitEdit, CommitCancel, CommitStockOperation, CommitCheckout,
                   RejectRow, Rollback
        <3> QED
            BY <1>2, <3>1
    <2> QED
        BY <1>5, <2>1, <2>2, <2>3 DEF Progress
<1>6. ASSUME NEW r \in Requests, Crash(r)
      PROVE  LocksOwned'
    BY <1>0, <1>2, <1>6 DEF Crash, Rollback
<1>7. CASE UNCHANGED vars
    BY <1>7 DEF vars, locks, LocksOwned
<1> QED
    BY <1>4, <1>5, <1>6, <1>7 DEF Next

(* Any rows some transactions wait for have a last one. *)
LEMMA LastRow ==
    ASSUME NEW W \in SUBSET Products, W # {}
    PROVE  \E p \in W : \A q \in W : ~(p < q)
<1> DEFINE From(p) == {q \in Products : p <= q}
           R == StrictSubsetOrdering(Products)
           T == {From(p) : p \in W}
<1>1. IsWellFoundedOn(R, SUBSET Products)
    BY ProductsFinite, FS_FiniteSubsetsOfFinite, FS_StrictSubsetOrderingWellFounded
<1>2. T \subseteq SUBSET Products /\ T # {}
    OBVIOUS
<1>3. PICK x \in T : \A y \in T : ~(<<y, x>> \in R)
    <2> HIDE DEF R, T
    <2> QED
        BY <1>1, <1>2, WFMin
<1>4. PICK p \in W : x = From(p)
    OBVIOUS
<1>5. ASSUME NEW q \in W, p < q
      PROVE  FALSE
    <2>0. p \in Nat /\ q \in Nat /\ \A o \in Products : o \in Nat
        BY ProductsAreRanks
    <2>1. \A o \in Products : q <= o => p <= o
        BY <1>5, <2>0
    <2>2. p <= p /\ ~(q <= p)
        BY <1>5, <2>0
    <2>3. From(q) \subseteq From(p) /\ From(q) # From(p)
        <3>1. p \in From(p) /\ p \notin From(q)
            BY <2>2
        <3> QED
            BY <2>1, <3>1
    <2>4. <<From(q), From(p)>> \in R
        BY <2>3 DEF StrictSubsetOrdering
    <2>5. From(q) \in T
        OBVIOUS
    <2>6. <<From(q), x>> \in R
        BY <1>4, <2>4
    <2> HIDE DEF R, T, From
    <2> QED
        BY <1>3, <2>5, <2>6
<1> QED
    BY <1>5

(* No transactions wait for inventory rows in a circle: the last row       *)
(* waited for in such a circle would belong to a request that waits for an *)
(* even later one.                                                         *)
THEOREM NoDeadlock == Spec => []NoLockCycle
<1>1. Init => LocksOwned
    BY DEF Init, LocksOwned
<1>2. Inv /\ LocksOwned /\ [Next]_vars => LocksOwned'
    BY StepOwns
<1>3. ASSUME Inv, LocksAscend, LocksOwned
      PROVE  NoLockCycle
    <2> SUFFICES ASSUME NEW S \in SUBSET Requests, S # {},
                        \A r \in S : \E q \in S : WaitsFor(r, q)
                 PROVE  FALSE
        BY DEF NoLockCycle
    <2> DEFINE W == {p \in Products : \E r \in S, q \in S : NextRow(r, p) /\ stockLock[p] = q}
    <2>1. \A r \in S : \E p \in W : NextRow(r, p)
        BY DEF WaitsFor
    <2>2. PICK p \in W : \A q \in W : ~(p < q)
        <3>1. W \in SUBSET Products /\ W # {}
            BY <2>1
        <3> HIDE DEF W
        <3> QED
            BY <3>1, LastRow
    <2>3. PICK q \in S : stockLock[p] = q
        OBVIOUS
    <2>4. PICK o \in W : NextRow(q, o)
        BY <2>1
    <2>5. p \in req[q].taken
        BY <1>3, <2>3, NoneIsNothing DEF LocksOwned
    <2>6. p < o
        BY <1>3, <2>4, <2>5 DEF LocksAscend, NextRow
    <2> QED
        BY <2>2, <2>6
<1> QED
    BY <1>1, <1>2, <1>3, Invariance, AscendingLocks, PTL DEF Spec
=============================================================================
