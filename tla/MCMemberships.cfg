CONSTANTS
    r1 = r1
    r2 = r2
    u1 = u1
    u2 = u2
    m1 = m1
    m2 = m2
    i1 = i1
    i2 = i2
    None = None
    Members = {m1, m2}
    Users = {u1, u2}
    Invitations = {i1, i2}
    Requests = {r1, r2}
    Crashes = TRUE
SPECIFICATION Spec
SYMMETRY Interchangeable
INVARIANTS LastOwner 
PROPERTIES OwnersSerialized AcceptedJoins EndsStand
