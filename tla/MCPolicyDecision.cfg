\* Two policies, two roles, one decision at a time; s2 is a scope without content.
SPECIFICATION Spec
CONSTANTS
    s1 = s1
    s2 = s2
    a1 = a1
    a2 = a2
    e1 = e1
    allow = allow
    deny = deny
    Scopes = {s1, s2}
    Roles = {a1, a2}
    Endpoints = {e1}
    Subjects = {u1}
    ScopeOfRole <- MCScopeOfRole
    ScopeOfEndpoint <- MCScopeOfEndpoint
    Policies = {p1, p2}
    Contents <- MCContents
    ScopeOfPolicy <- MCScopeOfPolicy
    Rules = {allow, deny}
    DenyRules = {deny}
    Attributes <- MCAttributes
    Decisions = {d1}
SYMMETRY PolicySymmetry
INVARIANTS
    DecisionTypeOK
    DeletedNeverGrants
    StandingDenyWins
    StandingAllowCounts
