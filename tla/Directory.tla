------------------------------ MODULE Directory ------------------------------
(***************************************************************************)
(* The tables policies and decisions refer to: service resources (scopes), *)
(* roles, API endpoints and user_roles.  Every action is one statement or  *)
(* one transaction of the repository, so it takes effect atomically.       *)
(*                                                                         *)
(* The scope of a role or an endpoint is a constant: UPDATE statements     *)
(* never set service_resource, and an id is never used again.  A role that *)
(* is not created yet is not distinguished from one nobody refers to.      *)
(***************************************************************************)

CONSTANTS
    Scopes,             \* service resource keys
    Roles,              \* role ids
    Endpoints,          \* API endpoint ids
    Subjects,           \* NexusAuth user ids
    ScopeOfRole,        \* roles.service_resource
    ScopeOfEndpoint     \* authorization_api_endpoints.service_resource

ASSUME DirectoryAssumption ==
    /\ ScopeOfRole \in [Roles -> Scopes]
    /\ ScopeOfEndpoint \in [Endpoints -> Scopes]

VARIABLES
    scopeActive,        \* is_active of each service resource
    roleState,          \* enabled / is_deleted of each role
    endpointState,      \* enabled / is_deleted of each endpoint
    userRoles           \* live rows of user_roles, per subject

dirVars == <<scopeActive, roleState, endpointState, userRoles>>

\* is_deleted implies NOT enabled (a CHECK of each table), so the two columns
\* have three values.
EntityState == {"enabled", "disabled", "deleted"}

DirTypeOK ==
    /\ scopeActive \in [Scopes -> BOOLEAN]
    /\ roleState \in [Roles -> EntityState]
    /\ endpointState \in [Endpoints -> EntityState]
    /\ userRoles \in [Subjects -> SUBSET Roles]

DirInit ==
    /\ scopeActive = [s \in Scopes |-> TRUE]
    /\ roleState = [r \in Roles |-> "enabled"]
    /\ endpointState = [e \in Endpoints |-> "enabled"]
    /\ userRoles = [u \in Subjects |-> {}]

-----------------------------------------------------------------------------
\* The service resource is enabled or disabled, here or in NexusAuth; a deleted
\* one is not active either.
SetScopeActive(s, active) ==
    /\ scopeActive' = [scopeActive EXCEPT ![s] = active]
    /\ UNCHANGED <<roleState, endpointState, userRoles>>

\* PermissionService.UpdateRole, of which only `enabled` matters here.  The scope
\* was found active by an earlier read; when the UPDATE runs it need not be.
UpdateRole(r, enabled) ==
    /\ roleState[r] # "deleted"
    /\ roleState' = [roleState EXCEPT ![r] = IF enabled THEN "enabled" ELSE "disabled"]
    /\ UNCHANGED <<scopeActive, endpointState, userRoles>>

\* RoleRepository.SoftDelete: the role and its user_roles rows in one
\* transaction.  Policy bindings are left alone.
DeleteRole(r) ==
    /\ roleState[r] # "deleted"
    /\ roleState' = [roleState EXCEPT ![r] = "deleted"]
    /\ userRoles' = [u \in Subjects |-> userRoles[u] \ {r}]
    /\ UNCHANGED <<scopeActive, endpointState>>

\* APIEndpointService.UpdateAPIEndpoint, likewise.
UpdateEndpoint(e, enabled) ==
    /\ endpointState[e] # "deleted"
    /\ endpointState' = [endpointState EXCEPT ![e] = IF enabled THEN "enabled" ELSE "disabled"]
    /\ UNCHANGED <<scopeActive, roleState, userRoles>>

DeleteEndpoint(e) ==
    /\ endpointState[e] # "deleted"
    /\ endpointState' = [endpointState EXCEPT ![e] = "deleted"]
    /\ UNCHANGED <<scopeActive, roleState, userRoles>>

RolesIn(s) == {r \in Roles : ScopeOfRole[r] = s}

\* UserRoleRepository.Replace, at its COMMIT: every requested role is live,
\* enabled and of the scope (its row is locked FOR SHARE since it was checked);
\* assignments of other scopes stay, and so do the rows that a concurrent
\* replacement inserted after this one had cleared the scope.
ReplaceUserRoles(u, s, requested, concurrent) ==
    /\ requested \subseteq RolesIn(s)
    /\ \A r \in requested : roleState[r] = "enabled"
    /\ concurrent \subseteq userRoles[u] \cap RolesIn(s)
    /\ userRoles' = [userRoles EXCEPT ![u] = (@ \ RolesIn(s)) \cup requested \cup concurrent]
    /\ UNCHANGED <<scopeActive, roleState, endpointState>>

DirNext ==
    \/ \E s \in Scopes, active \in BOOLEAN : SetScopeActive(s, active)
    \/ \E r \in Roles, enabled \in BOOLEAN : UpdateRole(r, enabled)
    \/ \E r \in Roles : DeleteRole(r)
    \/ \E e \in Endpoints, enabled \in BOOLEAN : UpdateEndpoint(e, enabled)
    \/ \E e \in Endpoints : DeleteEndpoint(e)
    \/ \E u \in Subjects, s \in Scopes :
         \E requested \in SUBSET RolesIn(s), concurrent \in SUBSET userRoles[u] :
           ReplaceUserRoles(u, s, requested, concurrent)

\* The directory on its own: what the detailed model of user_roles implements.
DirSpec == DirInit /\ [][DirNext]_dirVars

\* UserRoleRepository.ListRoleIDs: what the PDP and the console read.
EffectiveRoles(u, s) ==
    {r \in userRoles[u] : ScopeOfRole[r] = s /\ roleState[r] = "enabled"}
=============================================================================
