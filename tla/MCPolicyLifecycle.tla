-------------------------- MODULE MCPolicyLifecycle --------------------------
(***************************************************************************)
(* Small instances of PolicyLifecycle.  Role a3, endpoint e2 and           *)
(* policy p2 belong to the second service resource, the rest to the first. *)
(***************************************************************************)
EXTENDS PolicyLifecycle, TLC

CONSTANTS s1, s2, p2, a1, a2, a3, e1, e2, x1, x2

MCScopeOfRole == [r \in Roles |-> IF r = a3 THEN s2 ELSE s1]
MCScopeOfEndpoint == [e \in Endpoints |-> IF e = e2 THEN s2 ELSE s1]
MCScopeOfPolicy == [p \in Policies |-> IF p = p2 THEN s2 ELSE s1]

\* Two drafts that differ in every part that is read on its own.
TwoDrafts == {[rule |-> x1, roles |-> {a1}, endpoints |-> {e1}],
              [rule |-> x2, roles |-> {a1, a2}, endpoints |-> {e1}]}

OneDraft == {[rule |-> x1, roles |-> {a1}, endpoints |-> {e1}]}

\* Drafts that must be refused: an empty list, and a list that reaches into the
\* other scope.
BadDrafts == {[rule |-> x1, roles |-> {}, endpoints |-> {e1}],
              [rule |-> x1, roles |-> {a1, a3}, endpoints |-> {e1}]}

\* Two drafts that differ in what is evaluated, and the bad ones.
TwoRules == {[rule |-> x, roles |-> {a1}, endpoints |-> {e1}] : x \in {x1, x2}}

SomeDrafts == TwoRules \cup BadDrafts

RequestSymmetry == Permutations(Requests)
=============================================================================
