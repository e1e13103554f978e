\* The response to a callback is lost and the browser repeats the URL.
SPECIFICATION Spec
CONSTANTS
    Flows = {f1}
    Requests = {q1, q2}
    None = None
SYMMETRY Symmetry
INVARIANTS
    FlowUsedOnce
