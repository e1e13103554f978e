\* Three requests on two roles of one service resource.
SPECIFICATION FairSpec
CONSTANTS
    s1 = s1
    s2 = s2
    a1 = a1
    a2 = a2
    b1 = b1
    Scopes = {s1}
    Roles = {a1, a2}
    Subjects = {u1}
    ScopeOfRole <- MCScopeOfRole
    Lists <- BothRoles
    Txns = {q1, q2, q3}
INVARIANTS
    TypeOK
    AssignedRolesExist
PROPERTIES
    EndsUnlessLockedOut
