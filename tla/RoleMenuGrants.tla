---------------------------- MODULE RoleMenuGrants ----------------------------
(***************************************************************************)
(* What the tables roles, menus and role_menus promise: the menus granted   *)
(* to a role change as a whole.  A grant names a list, and the list is what *)
(* the role has until the next grant, less the menus deleted since.         *)
(***************************************************************************)
CONSTANTS
    Menus,
    Roles,
    Lists               \* the lists of menus clients grant

VARIABLES
    granted,            \* the menus of each role
    ended               \* the roles that are deleted

grantVars == <<granted, ended>>

GrantInit ==
    /\ granted = [r \in Roles |-> {}]
    /\ ended = {}

\* PUT /roles/{id}/menus.
Grant(r, list) ==
    /\ r \notin ended
    /\ granted' = [granted EXCEPT ![r] = list]
    /\ UNCHANGED ended

\* A menu is deleted; a grant that overlaps the deletion may keep it.
Unlink(m, keeping) ==
    /\ granted' = [r \in Roles |-> IF r \in keeping THEN granted[r] ELSE granted[r] \ {m}]
    /\ UNCHANGED ended

\* A role is deleted, and its grants with it.
End(r) ==
    /\ granted' = [granted EXCEPT ![r] = {}]
    /\ ended' = ended \cup {r}

GrantNext ==
    \/ \E r \in Roles, list \in Lists : Grant(r, list)
    \/ \E m \in Menus, keeping \in SUBSET Roles : Unlink(m, keeping)
    \/ \E r \in Roles : End(r)

GrantSpec == GrantInit /\ [][GrantNext]_grantVars
=============================================================================
