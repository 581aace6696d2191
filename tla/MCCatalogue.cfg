SPECIFICATION CatalogueSpec
CONSTANTS
    Requests = {r1, r2}
    Orgs = {o1, o2}
    ProductIds = {p1, p2}
    Categories = {c1, c2}
    Skus = {k1, k2}
    Barcodes = {b1}
    Names <- SmallNames
    Ops = {"create", "update", "activate", "deactivate", "categorize", "recategorize", "open", "close"}
    None = None
CONSTRAINT OneSubject
SYMMETRY Symmetric
PROPERTIES
    RacesAnswered
    SwitchKeepsEdits
    OwnRowsOnly
CHECK_DEADLOCK FALSE
