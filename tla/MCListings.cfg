SPECIFICATION ListingsSpec
CONSTANTS
    Unset = Unset
    o1 = o1
    o2 = o2
    s1 = s1
    s2 = s2
    s3 = s3
    Lists = {"sales", "members", "invitations", "stores", "products", "catalog", "inventory",
             "movements", "categories", "audit"}
    Ids = {1, 2}
    Tenants = {o1, o2}
    Stores = {s1, s2, s3}
    OrgOf <- MCOrgOf
    Events <- MCEvents
    Contents <- MCContents
    PageSizes = {1, 2}
    MaxTime = 1
    MaxInt = 3
CONSTRAINT Bounds
INVARIANTS
    NothingMissed
    OwnTenantOnly
    TotalIsComplete
CHECK_DEADLOCK FALSE
