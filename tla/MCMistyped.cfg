\* One comparison.
SPECIFICATION EvalSpec
CONSTANTS
    Paths = {"d"}
    Values <- MCValues
    Within <- MCWithin
    Inputs <- MCInputs
    Drafts <- LeafDrafts
    Lists <- MCLists
    Size <- MCSize
    MaxDepth = 3
    MaxNodes = 4
INVARIANTS
    TypeErrorsFailClosed
CHECK_DEADLOCK FALSE
