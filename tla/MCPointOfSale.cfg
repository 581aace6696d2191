CONSTANTS
    r1 = r1
    r2 = r2
    s1 = s1
    s2 = s2
    e1 = e1
    None = None
    Requests = {r1, r2}
    Sales = {s1, s2}
    Products = {1, 2}
    References = {e1}
    Quantities = {1}
    Operations = {"ADJUSTMENT_OUT", "PURCHASE"}
    MaxPayments = 1
    Crashes = TRUE
SPECIFICATION FairSpec
INVARIANTS TypeOK StockFollowsMovements SoldExactlyOnce ReferenceAppliedOnce NoLockCycle
PROPERTIES LedgerSpec RequestsFinish
