SPECIFICATION Spec
CONSTANTS
    None = None
    Members = {"ana", "bia", "eva"}
    Roles = {"owner", "manager", "clerk", "helper"}
    Stores = {x}
    OrganizationScopes <- MCOrganizationScopes
    StoreScopes <- MCStoreScopes
    Manage = "manage"
    Owners = "owners"
    FirstRoles <- MCRoles
    FirstBindings <- MCBindings
    RoleRequests <- MCRequests
    Sessions = {s1}
    ClientHandlers = {"h1"}
    RoleHandlers = {"h2", "h3"}
    Clients = {"eva"}
    TTL = 2
    MaxTime = 1
    MaxVersion = 2
    MaxTokens = 1
CONSTRAINT OneSubject
INVARIANT AcceptedTokensAreEarned
PROPERTY NobodyGrantsMoreThanTheyHold
CHECK_DEADLOCK FALSE
