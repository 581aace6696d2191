CONSTANTS
    None = None
    r1 = r1
    r2 = r2
    s1 = s1
    s2 = s2
    m1 = m1
    m2 = m2
    c1 = c1
    c2 = c2
    k1 = k1
    k2 = k2
    Requests = {r1, r2}
    Stores = {s1, s2}
    Founded = {s1}
    Methods = {m1, m2}
    Started = {m1}
    Codes = {c1, c2}
    Keys = {k1, k2}
    MaxNumber = 4
    Ops = {"status", "update", "create", "method", "replace", "bind", "sale"}
SPECIFICATION Spec
CONSTRAINT OneSubject
SYMMETRY Symmetric
INVARIANT OrganizationRetains
PROPERTIES KeepsOperational RegisterSpec
