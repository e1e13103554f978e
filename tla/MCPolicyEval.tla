----------------------------- MODULE MCPolicyEval -----------------------------
(* Conditions, requests and lists of policies for PolicyEval. *)
EXTENDS PolicyEval, TLC

Str(s) == [type |-> "string", value |-> s]

MCValues ==
    {Str("a"), Str("ab"), [type |-> "boolean", value |-> TRUE],
     [type |-> "boolean", value |-> FALSE],
     [type |-> "string_list", value |-> {"a"}], [type |-> "string_list", value |-> {}]}

MCWithin == {<<"a", "a">>, <<"ab", "ab">>, <<"a", "ab">>}

\* Requests with the attribute d absent, or of one of the types.
MCInputs == {<<>>, "d" :> Str("a"), "d" :> Str("ab"), "d" :> [type |-> "string_list", value |-> {"a"}]}

Node(f, v) == (f :> v) @@ [all |-> <<>>, any |-> <<>>, not |-> <<>>, comparison |-> <<>>]

Attr(type) == [source |-> "subject", path |-> "d", type |-> type, value |-> <<>>]
Literal(type, v) == [source |-> "literal", path |-> "", type |-> type, value |-> v]

Leaf(op, left, right) == Node("comparison", <<[op |-> op, left |-> left, right |-> right]>>)

\* Comparisons of the attribute with a literal, with right operands missing,
\* superfluous or of another type, and an operator that does not exist.
Leaves ==
    {Leaf(op, Attr("string"), right) :
       op \in Operators \cup {"lt"},
       right \in {<<>>, <<Literal("string", <<Str("a")>>)>>, <<Literal("boolean", <<>>)>>}}
    \cup {Leaf(op, Attr("string_list"), <<Attr("string_list")>>) : op \in {"eq", "in", "not_in"}}

Empty == Node("all", <<>>)
Two == [Empty EXCEPT !.any = <<Leaf("exists", Attr("string"), <<>>)>>,
                     !.not = <<Leaf("exists", Attr("string"), <<>>)>>]

Few == {Empty, Leaf("exists", Attr("string"), <<>>),
        Leaf("eq", Attr("string"), <<Literal("string", <<Str("a")>>)>>),
        Leaf("neq", Attr("string"), <<Literal("string", <<Str("a")>>)>>)}

Pairs(S) == {Node(f, <<c, d>>) : f \in {"all", "any"}, c \in S, d \in S}
Nots(S) == {Node("not", <<c>>) : c \in S}

\* Trees up to depth 4 and 7 nodes, among them some beyond the limits of 3 and 4.
Trees ==
    LET two == Pairs(Few) \cup Nots(Few)
    IN Leaves \cup {Empty, Two} \cup two \cup Nots(two) \cup Nots(Nots(two))
         \cup Pairs({Node("not", <<c>>) : c \in Few} \cup {CHOOSE c \in Pairs(Few \ {Empty}) : TRUE})

MCPolicy(effect, bound, condition) == [effect |-> effect, bound |-> bound, condition |-> condition]

\* Every tree by itself; and lists of three policies, every one of which
\* depends on the attribute in another way, or does not fit the request.
MCDrafts ==
    {<<MCPolicy("allow", TRUE, <<c>>)>> : c \in Trees}
    \cup [1 .. 3 -> {MCPolicy(effect, TRUE, condition) : effect \in {"allow", "deny"},
                        condition \in {<<>>} \cup {<<c>> : c \in Few \ {Empty}}}
                    \cup {MCPolicy("deny", FALSE, <<>>)}]

LeafDrafts == [1 .. 1 -> {MCPolicy("allow", TRUE, <<c>>) : c \in Leaves}]

\* Every list of conditions in those policies, and how many nodes it has.
RECURSIVE ListsOf(_)
ListsOf(s) ==
    {s} \cup IF s = <<>> THEN {} ELSE ListsOf(Tail(s)) \cup ListsOf(Children(Head(s)))

MCLists == UNION {ListsOf(<<c>>) : c \in Trees \cup Few}

RECURSIVE SizeOf(_)
SizeOf(s) == IF s = <<>> THEN 0 ELSE 1 + SizeOf(Tail(s)) + SizeOf(Children(Head(s)))

MCSize == [s \in MCLists |-> SizeOf(s)]
=============================================================================
