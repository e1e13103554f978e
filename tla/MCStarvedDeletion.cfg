\* Not a regular run: TLC gives the deletion that never gets its role.
SPECIFICATION FairSpec
CONSTANTS
    s1 = s1
    s2 = s2
    a1 = a1
    a2 = a2
    b1 = b1
    Scopes = {s1}
    Roles = {a1}
    Subjects = {u1, u2}
    ScopeOfRole <- MCScopeOfRole
    Lists <- SharedRole
    Txns = {q1, q2, q3}
PROPERTIES
    EveryTransactionEnds
