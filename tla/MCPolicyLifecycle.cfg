\* One policy, two requests at a time, a role of another scope, drafts to refuse.
SPECIFICATION Spec
CONSTANTS
    s1 = s1
    s2 = s2
    p2 = p2
    a1 = a1
    a2 = a2
    a3 = a3
    e1 = e1
    e2 = e2
    x1 = x1
    x2 = x2
    Scopes = {s1, s2}
    Roles = {a1, a3}
    Endpoints = {e1}
    Subjects = {}
    ScopeOfRole <- MCScopeOfRole
    ScopeOfEndpoint <- MCScopeOfEndpoint
    Policies = {p1}
    ScopeOfPolicy <- MCScopeOfPolicy
    Rules = {x1, x2}
    Bodies <- SomeDrafts
    Requests = {q1, q2}
    RollbackVersions = {0, 1, 2}
SYMMETRY RequestSymmetry
INVARIANTS
    TypeOK
    PublishedMatchesSnapshot
    OnlyFirstVersion
    BindingsStayInScope
PROPERTIES
    DeletedStaysDeleted
    ImplementsCatalog
