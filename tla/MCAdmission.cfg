SPECIFICATION AdmissionSpec
CONSTANTS
    c1 = c1
    c2 = c2
    c3 = c3
    p = p
    Client <- MCClient
    Scope = {p}
    NoScope = NoScope
    ScopeOf <- MCScopeOf
    MaxCapacity = 2
    Admin = Admin
INVARIANTS
    SlotAccounting
    NoStrandedWaiter
PROPERTIES
    ImplementsPool
