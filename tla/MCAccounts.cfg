SPECIFICATION Spec
CONSTANTS
    None = None
    Users = {u1, u2}
    Boxes = {b1, b2}
    Slugs = {g1, g2}
    Names = {n1, n2}
    Tokens = {t1, t2, t3}
    Requests = {r1, r2}
    TTL <- MCTTL
    MaxTime = 1
    MaxVersion = 2
CONSTRAINT OneSubject
SYMMETRY Symmetric
INVARIANTS
    OneLiveToken
    TokensUsedRightly
    RegisteredWhole
PROPERTY VerificationAnsweredAlike
CHECK_DEADLOCK FALSE
