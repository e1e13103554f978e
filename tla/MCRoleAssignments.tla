-------------------------- MODULE MCRoleAssignments --------------------------
(***************************************************************************)
(* Small instances of RoleAssignments.  Role b1 belongs to the second       *)
(* service resource, the others to the first.                              *)
(***************************************************************************)
EXTENDS RoleAssignments, TLC

CONSTANTS s1, s2, a1, a2, b1

MCScopeOfRole == [r \in Roles |-> IF r = b1 THEN s2 ELSE s1]

AnyList == SUBSET Roles

OneRole == {{a1}, {a2}}

SharedRole == {{a1}}

BothRoles == {{a1, a2}}

\* Two roles in either order, one role of the other scope, a list across scopes.
SomeLists == {{a1, a2}, {a1}, {b1}, {a1, b1}}
=============================================================================
