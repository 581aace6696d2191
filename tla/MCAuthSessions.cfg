CONSTANTS
    r1 = r1
    r2 = r2
    r3 = r3
    s1 = s1
    s2 = s2
    t1 = t1
    t2 = t2
    t3 = t3
    u1 = u1
    None = None
    Users = {u1}
    Sessions = {s1, s2}
    Tokens = {t1, t2, t3}
    Requests = {r1, r2, r3}
    MaxVersion = 1
    Crashes = TRUE
SPECIFICATION Spec
SYMMETRY Interchangeable
INVARIANTS OneLiveToken EndedSessionHasNoLiveToken ActiveSessionsKnowThePassword 
PROPERTIES LogoutAllIsComplete
