\* Two requests, two roles of one service resource and one of another.
SPECIFICATION FairSpec
CONSTANTS
    s1 = s1
    s2 = s2
    a1 = a1
    a2 = a2
    b1 = b1
    Scopes = {s1, s2}
    Roles = {a1, a2, b1}
    Subjects = {u1}
    ScopeOfRole <- MCScopeOfRole
    Lists <- SomeLists
    Txns = {q1, q2}
INVARIANTS
    TypeOK
    AssignedRolesExist
PROPERTIES
    ImplementsDirectory
    EndsUnlessLockedOut
