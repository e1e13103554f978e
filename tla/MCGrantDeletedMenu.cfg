\* A menu is granted while it is deleted.
SPECIFICATION Spec
CONSTANTS
    s1 = s1
    s2 = s2
    m1 = m1
    m2 = m2
    m3 = m3
    NoMenu = NoMenu
    Scopes = {s1, s2}
    Menus = {m1, m2, m3}
    Buttons = {}
    Roles = {a1}
    ScopeOfMenu <- MCScopeOfMenu
    ScopeOfRole <- MCScopeOfRole
    Lists <- OneMenu
    Requests = {q1, q2}
SYMMETRY RequestSymmetry
INVARIANTS
    GrantedMenusLive
