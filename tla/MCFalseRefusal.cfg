\* Two deletions of one service resource.
SPECIFICATION Spec
CONSTANTS
    k1 = k1
    k2 = k2
    m1 = m1
    r1 = r1
    r2 = r2
    Keys = {k1, k2}
    Objects = {m1, r1, r2}
    ScopeOf <- MCScopeOf
    Seeds = {m1}
    Sources = {"local"}
    Requests = {q1, q2}
SYMMETRY Symmetry
INVARIANTS
    RefusedMeansReferenced
