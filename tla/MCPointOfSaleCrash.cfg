CONSTANTS
    r1 = r1
    s1 = s1
    e1 = e1
    None = None
    Requests = {r1}
    Sales = {s1}
    Products = {1}
    References = {e1}
    Quantities = {1}
    Operations = {"PURCHASE"}
    MaxPayments = 1
    Crashes = TRUE
SPECIFICATION FairSpec
PROPERTY FiscalSettles
