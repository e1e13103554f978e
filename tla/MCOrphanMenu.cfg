\* A child is created while its parent is deleted.
SPECIFICATION Spec
CONSTANTS
    s1 = s1
    s2 = s2
    m1 = m1
    m2 = m2
    m3 = m3
    NoMenu = NoMenu
    Scopes = {s1}
    Menus = {m1, m2}
    Buttons = {}
    Roles = {}
    ScopeOfMenu <- MCScopeOfMenu
    ScopeOfRole <- MCScopeOfRole
    Lists <- NoLists
    Requests = {q1, q2}
SYMMETRY RequestSymmetry
INVARIANTS
    ParentsLive
