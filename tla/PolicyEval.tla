------------------------------ MODULE PolicyEval ------------------------------
(***************************************************************************)
(* From a policy's condition to a decision: validate and compile, which    *)
(* every policy passes before it is published, and eval, which decides on  *)
(* published snapshots alone.                                              *)
(*                                                                         *)
(* The pointers and slices of a condition are sequences, so that a node     *)
(* can have no operator, one, or several, and a condition that a policy may *)
(* do without is a list of at most one.  The code walks trees by recursion; *)
(* here that is a function over lists of conditions, which are finite: they *)
(* are decoded from JSON.  An attribute is named by its path alone, not by  *)
(* its source; strings are compared by the constant Within.                 *)
(***************************************************************************)
EXTENDS Naturals, Sequences, SequencesExt, FiniteSets

CONSTANTS
    Paths,              \* attributes that conditions read
    Values,             \* values of attributes and literals, with their type
    Within,             \* pairs of strings, the first part of the second
    MaxDepth,           \* maxDepth of a condition
    MaxNodes,           \* maxNodes of a condition
    Inputs,             \* attributes of a decision request
    Lists,              \* lists of conditions, with the lists behind and below
    Size,               \* of each list, more than that of those behind and below
    Drafts              \* lists of policies to publish and decide on

\* What a node consists of: the conditions of its operator, if it has one.
Children(c) == IF c.all # <<>> THEN c.all ELSE IF c.any # <<>> THEN c.any ELSE c.not

Policy == [effect : {"allow", "deny"}, bound : BOOLEAN,
           condition : {s \in Lists : Len(s) <= 1}]

ASSUME EvalAssumption ==
    /\ MaxDepth \in Nat /\ MaxNodes \in Nat
    /\ Size \in [Lists -> Nat]
    /\ \A s \in Lists :
         /\ s \in Seq(UNION {Range(t) : t \in Lists})
         /\ s # <<>> => Tail(s) \in Lists /\ Size[Tail(s)] < Size[s]
         /\ \A c \in Range(s) : /\ Children(c) \in Lists /\ Size[Children(c)] < Size[s]
                                /\ Len(c.not) <= 1       \* a pointer
    /\ Drafts \subseteq Seq(Policy)

VARIABLES
    drafts,             \* policies not yet published
    snapshots,          \* published snapshots, in the order of the query
    input,              \* attributes of the request
    at,                 \* the snapshot the evaluator looks at
    result

evalVars == <<drafts, snapshots, input, at, result>>

Operators == {"eq", "neq", "in", "not_in", "contains", "exists"}
Types == {"string", "string_list", "boolean"}

-----------------------------------------------------------------------------
\* validate: exactly one of All, Any, Not and Comparison is set.
Kinds(c) == Cardinality({f \in {"all", "any", "not", "comparison"} : c[f] # <<>>})

ValidRef(ref) ==
    /\ ref.type \in Types
    /\ IF ref.source = "literal" THEN ref.value # <<>> ELSE ref.path \in Paths

ValidComparison(c) ==
    /\ c.op \in Operators
    /\ ValidRef(c.left)
    /\ IF c.op = "exists" THEN c.right = <<>>
       ELSE /\ c.right # <<>>
            /\ ValidRef(c.right[1])
            /\ c.left.type = c.right[1].type

\* The count that no valid condition reaches stands for the error.
Invalid == MaxNodes + 1

\* Faulty: a node may do without an operator.
WellFormedEmpty(c, depth, n) ==
    /\ depth <= MaxDepth /\ n < MaxNodes
    /\ Kinds(c) <= 1

\* Faulty: only the number of nodes is limited.
WellFormedAnyDepth(c, depth, n) == n < MaxNodes /\ Kinds(c) = 1

WellFormed(c, depth, n) ==
    /\ depth <= MaxDepth /\ n < MaxNodes
    /\ Kinds(c) = 1

\* condition, of each of a list: the number of nodes once they, at a depth, have
\* been added to n.
Counted[s \in Lists] ==
    [depth \in Nat |-> [n \in Nat |->
        LET c == Head(s) IN
        IF s = <<>> THEN n
        ELSE IF ~WellFormed(c, depth, n) THEN Invalid
        ELSE IF c.comparison # <<>> /\ ~ValidComparison(c.comparison[1]) THEN Invalid
        ELSE Counted[Tail(s)][depth][Counted[Children(c)][depth + 1][n + 1]]]]

Valid(condition) == Counted[condition][1][0] # Invalid

-----------------------------------------------------------------------------
\* resolve: no value, or one.
Resolve(ref) ==
    IF ref.source = "literal" THEN ref.value
    ELSE IF ref.path \in DOMAIN input THEN <<input[ref.path]>> ELSE <<>>

\* contains: of an element by a list, of a part by a string.
Includes(container, v) ==
    /\ v.type = "string"
    /\ CASE container.type = "string_list" -> v.value \in container.value
         [] container.type = "string" -> <<v.value, container.value>> \in Within
         [] OTHER -> FALSE

\* reflect.DeepEqual: values of different types differ.
Equal(x, y) == x.type = y.type /\ x.value = y.value

\* comparison, on the values of its operands; "error" and "panic" are outcomes.
Outcome(b) == IF b THEN "yes" ELSE "no"

Compare(op, left, right) ==
    CASE op = "eq" -> Outcome(Equal(left, right))
      [] op = "neq" -> Outcome(~Equal(left, right))
      [] op = "in" -> Outcome(Includes(right, left))
      [] op = "not_in" -> Outcome(~Includes(right, left))
      [] op = "contains" -> Outcome(Includes(left, right))
      [] OTHER -> "error"

Comparison(c) ==
    LET left == Resolve(c.left) IN
    IF c.op = "exists" THEN Outcome(left # <<>>)
    ELSE IF left = <<>> THEN "no"
    ELSE IF c.right = <<>> THEN "panic"
    ELSE IF Resolve(c.right[1]) = <<>> THEN "no"
    ELSE Compare(c.op, left[1], Resolve(c.right[1])[1])

\* The loop goes on while the outcome is `rest`, and stops at the first other one.
First(outcomes, rest) ==
    LET stops == {i \in DOMAIN outcomes : outcomes[i] # rest}
    IN IF stops = {} THEN rest ELSE outcomes[Min(stops)]

Negated(m) == IF m \in {"yes", "no"} THEN Outcome(m = "no") ELSE m

\* matchesCondition, of each of a list.
Match[s \in Lists] ==
    [i \in DOMAIN s |->
        LET c == s[i]
            below == Match[Children(c)]
        IN IF c.all # <<>> THEN First(below, "yes")
           ELSE IF c.any # <<>> THEN First(below, "no")
           ELSE IF c.not # <<>> THEN Negated(below[1])
           ELSE IF c.comparison = <<>> THEN "panic"
           ELSE Comparison(c.comparison[1])]

\* A policy without condition always matches.
MatchesCondition(condition) == First(Match[condition], "yes")

-----------------------------------------------------------------------------
Pending == [decision |-> "deny", reason |-> "pending", matched |-> <<>>]

EvalInit ==
    /\ drafts \in Drafts
    /\ snapshots = <<>>
    /\ input \in Inputs
    /\ at = 1
    /\ result = Pending

\* A policy is published, if compile accepts it.
Publish ==
    /\ drafts # <<>>
    /\ drafts' = Tail(drafts)
    /\ snapshots' = IF Valid(Head(drafts).condition) THEN Append(snapshots, Head(drafts))
                    ELSE snapshots
    /\ UNCHANGED <<input, at, result>>

\* Faulty: an allow ends the loop as well.
EndsOnMatch(effect) == TRUE

\* A deny that matches ends the loop.
Ends(effect) == effect = "deny"

\* Faulty: the reason is the decision.
DecidedPlain(effect, matched) ==
    [decision |-> effect, reason |-> effect, matched |-> matched]

Decided(effect, matched) ==
    [decision |-> effect, matched |-> matched,
     reason |-> IF effect = "deny" THEN "explicit_deny" ELSE "allowed_by_policy"]

\* evaluateByAuthorizationType, one snapshot per step.  `bound`: type, scope,
\* endpoint and role fit the request.
EvaluateNext ==
    /\ drafts = <<>> /\ result.reason = "pending" /\ at <= Len(snapshots)
    /\ LET s == snapshots[at]
           m == IF s.bound THEN MatchesCondition(s.condition) ELSE "no"
           matched == Append(result.matched, at)
       IN result' = IF m = "no" THEN result
                    ELSE IF m # "yes" THEN [result EXCEPT !.reason = m]
                    ELSE IF Ends(s.effect) THEN Decided(s.effect, matched)
                    ELSE [result EXCEPT !.matched = matched]
    /\ at' = at + 1
    /\ UNCHANGED <<drafts, snapshots, input>>

\* The loop has ended without a deny.
Conclude ==
    /\ drafts = <<>> /\ result.reason = "pending" /\ at > Len(snapshots)
    /\ result' = IF result.matched # <<>> THEN Decided("allow", result.matched)
                 ELSE [result EXCEPT !.reason = "default_deny"]
    /\ UNCHANGED <<drafts, snapshots, input, at>>

EvalNext == Publish \/ EvaluateNext \/ Conclude

EvalSpec == EvalInit /\ [][EvalNext]_evalVars

-----------------------------------------------------------------------------
EvalTypeOK ==
    /\ drafts \in Seq(Policy) /\ snapshots \in Seq(Policy)
    /\ input \in Inputs
    /\ at \in 1 .. Len(snapshots) + 1
    /\ result \in [decision : {"allow", "deny"}, matched : Seq(1 .. Len(snapshots)),
                   reason : {"pending", "explicit_deny", "allowed_by_policy",
                             "default_deny", "error", "panic"}]

\* No policy that compile accepts makes the evaluator fail, whatever the request
\* says: not with an error, which would deny every request it applies to, and
\* not by reading an operand that is not there (validate.Condition).
EvaluatorTotal == result.reason \notin {"error", "panic"}

\* Which conditions of a list hold, by what they mean, without an order of
\* evaluation.
Holds[s \in Lists] ==
    {i \in DOMAIN s :
        LET c == s[i]
            below == Holds[Children(c)]
        IN IF c.all # <<>> THEN below = DOMAIN c.all
           ELSE IF c.any # <<>> THEN below # {}
           ELSE IF c.not # <<>> THEN below = {}
           ELSE Comparison(c.comparison[1]) = "yes"}

Applies(i) ==
    LET s == snapshots[i] IN s.bound /\ Holds[s.condition] = DOMAIN s.condition

\* Whatever order the snapshots come in: the answer is deny if one that denies
\* applies, allow if only others do, and deny if none does; an allow rests on
\* all that apply, an explicit deny on the one that ended the loop (Evaluate).
DecisionMatchesReference ==
    LET applying == {i \in DOMAIN snapshots : Applies(i)}
        denying == {i \in applying : snapshots[i].effect = "deny"}
    IN result.reason # "pending" =>
         /\ (result.decision = "allow") = (denying = {} /\ applying # {})
         /\ (result.reason = "explicit_deny") = (denying # {})
         /\ Range(result.matched) \subseteq applying
         /\ result.decision = "allow" => Range(result.matched) = applying
         /\ result.reason = "explicit_deny" => Last(result.matched) \in denying

Nodes[s \in Lists] ==
    IF s = <<>> THEN 0 ELSE 1 + Nodes[Children(Head(s))] + Nodes[Tail(s)]

Depth[s \in Lists] ==
    IF s = <<>> THEN 0 ELSE Max({1 + Depth[Children(Head(s))], Depth[Tail(s)]})

\* What is published stays within the limits, however its branches are laid out
\* (maxDepth, maxNodes).
PublishedIsBounded ==
    \A s \in Range(snapshots) :
        Nodes[s.condition] <= MaxNodes /\ Depth[s.condition] <= MaxDepth

\* An attribute has another type than the condition says.
Mistyped(ref) ==
    LET v == Resolve(ref) IN v # <<>> /\ v[1].type # ref.type

ReadsMistyped[s \in Lists] ==
    \E c \in Range(s) :
        \/ ReadsMistyped[Children(c)]
        \/ \E leaf \in Range(c.comparison) :
             Mistyped(leaf.left) \/ \E ref \in Range(leaf.right) : Mistyped(ref)

\* An attribute of the wrong type never grants access: 属性类型错误 ... 均失败关闭,
\* wrong attribute types fail closed (docs/custom-pdp-design.md:211).
TypeErrorsFailClosed ==
    result.decision = "allow" =>
      \A i \in Range(result.matched) : ~ReadsMistyped[snapshots[i].condition]

\* The validator restricts the combinations of operator and type
\* (docs/custom-pdp-design.md:154): a comparison it accepts is not decided for
\* all values of its type.
CombinationsRestricted ==
    \A s \in Range(snapshots) : s.condition # <<>> =>
      \A leaf \in Range(s.condition[1].comparison) : leaf.op # "exists" =>
        LET typed == {v \in Values : v.type = leaf.left.type}
        IN {"yes", "no"} = {Compare(leaf.op, x, y) : x \in typed, y \in typed}
=============================================================================
