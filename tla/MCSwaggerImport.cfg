\* One client that repeats its import, one that does anything else.
SPECIFICATION FairSpec
CONSTANTS
    a = a
    b = b
    None = None
    Routes = {a, b}
    Slots = {e1, e2, e3}
    Documents <- TwoDocuments
    Requests = {q1, q2}
    Importers = {q1}
INVARIANTS
    TypeOK
    ResultCoversDocument
PROPERTIES
    RetryCompletes
