\* Two replacements of one user's roles overlap.
SPECIFICATION Spec
CONSTANTS
    s1 = s1
    s2 = s2
    a1 = a1
    a2 = a2
    b1 = b1
    Scopes = {s1}
    Roles = {a1, a2}
    Subjects = {u1}
    ScopeOfRole <- MCScopeOfRole
    Lists <- OneRole
    Txns = {q1, q2}
INVARIANTS
    RolesGivenTogether
