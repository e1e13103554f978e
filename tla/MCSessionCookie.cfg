\* Two logins by two tabs, with lost, late and repeated requests.
SPECIFICATION Spec
CONSTANTS
    Flows = {f1, f2}
    Requests = {q1, q2}
    None = None
SYMMETRY Symmetry
INVARIANTS
    TypeOK
    SessionFromOwnFlow
    ServedForItsCaller
PROPERTIES
    SessionFromItsCallback
