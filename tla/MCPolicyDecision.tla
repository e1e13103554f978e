--------------------------- MODULE MCPolicyDecision ---------------------------
(***************************************************************************)
(* Two policies of one scope, one decision at a time.  The contents are    *)
(* such as PolicyLifecycle lets be published: bound in the policies' scope.*)
(***************************************************************************)
EXTENDS PolicyDecision, TLC

CONSTANTS s1, s2, a1, a2, e1, allow, deny

MCScopeOfRole == [r \in Roles |-> s1]
MCScopeOfEndpoint == [e \in Endpoints |-> s1]
MCScopeOfPolicy == [p \in Policies |-> s1]

MCContents == {[rule |-> allow, roles |-> {a1, a2}, endpoints |-> {e1}],
               [rule |-> deny, roles |-> {a2}, endpoints |-> {e1}]}

\* A call that the deny rule does not concern, and one that it does.
MCAttributes == {{allow}, {allow, deny}}

PolicySymmetry == Permutations(Policies)
=============================================================================
