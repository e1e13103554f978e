\* Every tree of a few hundred by itself, and every list of three policies.
SPECIFICATION EvalSpec
CONSTANTS
    Paths = {"d"}
    Values <- MCValues
    Within <- MCWithin
    Inputs <- MCInputs
    Drafts <- MCDrafts
    Lists <- MCLists
    Size <- MCSize
    MaxDepth = 3
    MaxNodes = 4
INVARIANTS
    EvalTypeOK
    EvaluatorTotal
    DecisionMatchesReference
    PublishedIsBounded
CHECK_DEADLOCK FALSE
