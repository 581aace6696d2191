CONSTANTS
    None = None
    r1 = r1
    r2 = r2
    s1 = s1
    s2 = s2
    m1 = m1
    c1 = c1
    c2 = c2
    k1 = k1
    Requests = {r1, r2}
    Stores = {s1, s2}
    Founded = {s1, s2}
    Methods = {m1}
    Started = {m1}
    Codes = {c1, c2}
    Keys = {k1}
    MaxNumber = 2
    Ops = {"status", "sale"}
SPECIFICATION Spec
INVARIANT OpenSalesInActiveStores
