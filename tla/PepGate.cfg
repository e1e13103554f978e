\* Two calls at once, and a PDP that may never answer.  No symmetry: it is not
\* sound for liveness.
SPECIFICATION FairSpec
CONSTANTS
    Calls = {c1, c2}
    Subjects = {s1, s2}
    Endpoints = {e1, e2}
INVARIANTS
    TypeOK
    ServedWasAllowed
PROPERTIES
    CallsEnd
