# Permission Center: TLA+ models and proofs

This directory holds the TLA+ development for the permission center (Go back end,
PostgreSQL schema, PDP and PEP client). `src/` paths are relative to the repository root.

## 1. Inventory

| Component | Source | State it keeps | Operations | Talks to |
| --- | --- | --- | --- | --- |
| Policy lifecycle | `internal/biz/policy.go`, `internal/data/db/repo/policy_repo.go` | `authorization_policies` rows, role bindings, API targets, version snapshots | Create, Update, Publish, Rollback, Delete | roles and endpoints (validation, triggers), service-resource catalog |
| PDP decision | `Decide` in `internal/biz/policy.go`, `internal/policy/eval` | none of its own; a decision log | Decide, Simulate | endpoints, user roles, published snapshots |
| Policy compiler, validator, model | `internal/policy/{compile,validate,model}` | none (pure) | Snapshot, Condition | called by lifecycle |
| Roles, role menus, user roles | `internal/biz/permission.go`, `repo/role_repo.go`, `repo/user_role_repo.go` | `roles`, `role_menus`, `user_roles` | create, update, delete, replace menus, replace user roles | menus, catalog |
| Menu tree | `internal/biz/permission.go`, `repo/menu_repo.go` | `menus` | create, update, delete, tree | role menus, catalog |
| API endpoints and Swagger import | `internal/biz/api_endpoint.go`, `internal/biz/swagger.go`, `repo/api_endpoint_repo.go` | `authorization_api_endpoints` | CRUD, import | catalog, policies |
| Service-resource catalog | `internal/biz/service_resource.go`, `repo/service_resource_repo.go` | `service_resources` (local mode) or NexusAuth (remote) | CRUD, get, list | everything scoped |
| Login session | `internal/auth/*.go` | an encrypted cookie in the browser (flow state, user) | login, callback, me, logout, bearer | NexusAuth |
| PEP client | `sdk/pdp` | none | Decide, RequireAPI | PDP over HTTP |
| HTTP layer, config, logging, dashboard, demos | `internal/server/http`, `internal/config`, `internal/logging`, `dashboard`, `demo` | none that outlives a request | decoding, wiring, formatting | services |

All state that survives a request is in PostgreSQL (and, for logins, in the browser's
cookie). The Go process keeps none: a handler is a sequence of calls on one connection
pool, only some of which are grouped in a transaction. What is hard in this program is
therefore what happens *between* the database calls of one handler, when other handlers,
other instances or a failure get in between; all transactions are READ COMMITTED.

### Interactions

- Creating or updating a policy reads the catalog, then every role, then every endpoint,
  then writes row and bindings in one transaction; triggers check the bindings again.
- Publishing reads the draft (row, roles, targets: three statements), inserts a version and
  then updates the row: two transactions.
- Rolling back reads the row and a stored version and updates the row.
- A decision reads catalog, endpoint, user roles and published snapshots, in this order,
  one statement each. It reaches a published policy through the *live* targets table and
  evaluates the *stored* snapshot.
- Deleting a role takes its menus and user assignments along, and leaves policy bindings.
- Deleting a service resource is refused while roles, menus or endpoints refer to it.

### Hard behaviours and what makes each component correct

| Component | Hard behaviour | Correct means |
| --- | --- | --- |
| Policy lifecycle | check-then-act over several statements, two-transaction publish, late saves, row locks | what is served is one frozen content; bindings stay in scope; a deletion is final; every request returns |
| PDP decision | four reads at four instants | nothing deleted grants access; a deny that stood wins; an allow that stood is found |
| Condition language | negation over missing attributes, depth and node limits | what is published can be evaluated; decisions agree with a reference |
| Roles and user roles | concurrent replacements that only share-lock the roles | assignments name live roles; no group of transactions waits for itself for ever |
| Menu tree | a parent deleted while a child is created, grants that overlap deletions | no deletion commits over a child; a tree that is returned is complete; grants change as a whole |
| Endpoints and import | one insert per operation, no transaction | no route twice; a repeated import completes an interrupted one |
| Service resources | deletion against NOT EXISTS checks | a scope that is off admits nobody and only loses objects |
| Login session | state lives in one cookie that several tabs overwrite | a callback is accepted once, for the flow it belongs to |
| PEP client | timeouts and malformed answers | a request passes only on an answer of allow |

`PROJECT.json` lists the hazards line by line with the properties that cover them.

## 2. Plan

Modules in the order in which they build on each other. Every module of the plan exists.

1. `Directory`: the tables that policies and decisions refer to, one action per committed
   write.
2. `PublishedCatalog`: the abstract specification of publishing. `PolicyLifecycle` (extends
   Directory), the five handlers call by call, refines it.
3. `PolicyDecision` (extends Directory and PublishedCatalog): the decision point against
   the abstract catalog instead of the handlers, which is what the refinement is for.
4. `PolicyEval`: condition trees, validator limits, evaluator and deny-overrides, against a
   reference definition.
5. `RoleAssignments`: the statements that write `roles` and `user_roles`, with their row
   locks. It refines `Directory`.
6. `MenuForest`: the statements that write `menus` and `role_menus`. It refines
   `RoleMenuGrants`, the abstract specification of grants.
7. `ServiceCatalog`, `SwaggerImport`: deletion of a scope against creation in it;
   interrupted and repeated imports.
8. `SessionCookie`: tabs that log in, call back and log out over one cookie. `PepGate`: the
   middleware in front of a PDP that may be late, broken or silent.

How they fit together:

    PolicyLifecycle --implements--> PublishedCatalog <--extends-- PolicyDecision
          |                                                            |
          +----------extends--------> Directory <------extends---------+
                                          ^                            |
    RoleAssignments ----implements--------+       PepGate (granted) ---+--- PolicyEval (rules)
    MenuForest ---------implements--> RoleMenuGrants

`PepGate` and `PolicyEval` touch `PolicyDecision` through one value each: what the PDP would
answer now, and the rules whose condition a call satisfies.

The properties worth stating are those of section 1's last table; the theorems worth proving
are types and safety of each component, and the refinements. Section 5 says what is proved.
What is left is work on bounds: the `menus` run with three requests, and the search for a
Swagger document.

## 3. Modules

A request (`req`, `txn`, `call`, `dec`) is always a record with the handler's next step in
`pc` and the handler's variables in the other fields; `Idle` when there is none. A statement
is one action when its rows cannot be waited for, else one action per row.

### Directory

| TLA+ | Code |
| --- | --- |
| `scopeActive` | `is_active` of a service resource, local or remote |
| `roleState`, `endpointState` | `enabled` and `is_deleted` of a row; a CHECK makes deleted imply disabled, hence three values |
| `userRoles` | live `user_roles` rows per subject |
| `SetScopeActive`, `UpdateRole`, `DeleteRole`, `UpdateEndpoint`, `DeleteEndpoint` | the UPDATE statement (or transaction) at the end of the service method of that name. Earlier reads of the method are not repeated in the guard: they may be out of date when the UPDATE runs |
| `ReplaceUserRoles` | `UserRoleRepository.Replace` at COMMIT; `concurrent` are rows that another replacement inserted meanwhile |
| `EffectiveRoles` | `ListRoleIDs` |

Service resource, role and endpoint ids are never reused and never change scope, so the
scope of each is a constant.

### PolicyLifecycle

| TLA+ | Code |
| --- | --- |
| `policies` | row of `authorization_policies` with its bindings (`status`, `current_version`, content) |
| `versions` | rows of `authorization_policy_versions` |
| `req[q]` | a handler in progress: `pc` is its next database call, `value` its Go variable of that name, `todo` the roles validation has yet to read |
| `Create`, `Update`, `Publish`, `Rollback` | arrival of the request with the handler's first read and early returns |
| `ValidateScope`, `ValidateRole`, `ValidateEndpoints` | `normalizeAndValidate` |
| `ReadRoles`, `ReadTargets` | `loadBindings` |
| `SaveVersion`, `GetVersion` | the repository calls, with the assignments that follow them |
| `Save`, `Commit` | the transaction of `save`: up to COMMIT, holding the row lock, and COMMIT |
| `Delete` | `SoftDelete`, one statement |
| `Fail` | an error, a disconnect or a crash at any point; an open transaction is rolled back |

A content is a rule and two sets. The rule stands for effect, authorization type, priority
and condition, which the code always copies together. Names, descriptions and audit fields
are left out: nothing reads them back.

Endpoints are validated, and bindings checked by the triggers, one row after the other; the
model reads them together. This loses nothing: these checks ask only that a row is not
deleted, and deletion is final, so a sequence of checks succeeds exactly if all would have
at the time of the first. Roles must also be *enabled*, which is not final, so `ValidateRole`
reads one at a time.

### PublishedCatalog

`frozen`, `served`, `retired` per policy. `PolicyLifecycle!Catalog` instantiates it:
`frozen` is the set of contents of the policy's versions, `served` the row's content when
published, `retired` the archived policies. Freezing and serving are separate steps and a
policy may be withdrawn, since that is what the handlers do.

### PolicyDecision

| TLA+ | Code |
| --- | --- |
| `Decide` | `Decide` up to `ensureScope` |
| `GetEndpoint`, `RoleIDs`, `Evaluate` | the three reads that follow, each with its early returns |
| `Matched`, `Reason` | `ListPublishedByEndpoint` with the filter in `evaluateByAuthorizationType`; deny overrides |
| `Return` | the answer, or an error at any point |
| `Attributes` | which rules the asked type and the attributes of a call satisfy: the evaluator of conditions is pure |
| `held` (history) | policies that have applied to the call ever since it began |
| `gone` (in `dec`) | what was deleted when the call began |

The simulation endpoint is the same code. The decision log is written after the answer is
fixed and its failure is ignored, so it is left out.

### PolicyEval

| TLA+ | Code |
| --- | --- |
| `Kinds`, `ValidRef`, `ValidComparison` | the checks of one node in `validate.go` |
| `Counted`, `WellFormed`, `Valid` | the validator's walk over the tree, with depth and node count |
| `Publish` | validation of every policy in a list, then the compiled snapshot: same tree |
| `Resolve`, `Equal`, `Includes`, `Compare`, `Comparison` | `resolve`, `comparison` and `contains` of `eval.go` |
| `Match`, `First`, `Negated`, `MatchesCondition` | `matchesCondition`: evaluation of `all`, `any`, `not` and comparisons, with their order and early exits |
| `EvaluateNext`, `Conclude` | `evaluateByAuthorizationType`: the loop over the snapshots, deny-overrides, default deny |
| `Holds`, `Applies` | not code: the reference definition |

A condition node is a record of four sequences, at most one of which a well-formed node
fills; an optional condition is a sequence of length 0 or 1. Values carry their type; of
strings only equality and containment matter, which `Within` gives. The outcome of an
evaluation is yes, no, error or panic. Trees of any shape reach the validator, well-formed
or not; only what it accepts reaches the evaluator, as in the code.

The code walks trees by recursion. The model has functions over `Lists`, the lists of
conditions there are: with a list also the one behind its first condition and those below
its conditions. `Size` says that this ends. A tree decoded from JSON is finite and has no
cycles, so for any set of them there are such `Lists` and such a `Size`, the number of nodes
(`MCPolicyEval` computes both from its trees). The names begin with `Eval` where
`PolicyDecisionProofs`, which extends both parts of the PDP, would meet them twice.

### RoleAssignments

| TLA+ | Code |
| --- | --- |
| `roles`, `assigned` | `roles` and the live rows of `user_roles`, as committed |
| `txn[q]` | an open transaction: what it has `locked`, the `area` its UPDATE ranges over, rows `todo`, `cleared` and `added` |
| `StartReplace`, `LockRole`, `Scan`, `Clear`, `Insert`, `Commit` | `UserRoleRepository.Replace`: BEGIN; SELECT ... FOR SHARE; the clearing UPDATE finds its rows and takes them one at a time; INSERT ... ON CONFLICT DO UPDATE per row; COMMIT |
| `StartDelete`, `LockRole`, `Scan`, `Clear`, `Commit` | `RoleRepository.SoftDelete`: the UPDATE of the role, then of its assignments |
| `CreateRole`, `UpdateRole` | the single statements, which wait for the role's lock |
| `Conflict`, `Written`, `Free` | FOR SHARE against the lock of an UPDATE, and rows that an open transaction has written |
| `Rollback`, `BreakDeadlock` | errors and disconnects; PostgreSQL's deadlock detection |

`ImplementsDirectory` is the refinement to `Directory`, whose `ReplaceUserRoles` allows what
the code does and no more: rows that another replacement inserted meanwhile may survive.

### RoleMenuGrants and MenuForest

| TLA+ | Code |
| --- | --- |
| `menus`, `parent`, `roles` | the rows of these tables, as committed |
| `links`, `grants` | rows of `role_menus` that exist, and those that are live: an existing row needs no new key and so no lock on the menu |
| `StartCreate`, `InsertMenu`, `KeyMenu`, `CommitMenu` | `CreateMenu`: the service reads the parent, the trigger reads it again at the INSERT, the foreign key locks it (KEY SHARE), COMMIT |
| `StartDeleteMenu`, `ListChildren`, `LockMenu`, `CheckChildren`, `Scan`, `ClearRow`, `CommitRows` | `DeleteMenu` and `SoftDelete`: the service lists children, the repository locks the menu (FOR UPDATE), asks for children again, clears `role_menus` |
| `StartGrant`, `CheckMenu`, `LockRole`, `Scan`, `ClearRow`, `InsertRow`, `PutRow`, `CommitRows` | `GrantRoleMenus` and `ReplaceMenus`: each menu is read; FOR UPDATE on the role; UPDATE; per menu the trigger, then the row |
| `StartDeleteRole` ... | `DeleteRole` and `SoftDelete` of the role |
| `UpdateMenu`, `UpdateRole`, `CreateRole` | the single statements |
| `Listed`, `TreeFails`, `Below` | `MenuTree`: the list of a scope's menus, the error for a missing parent, and what hangs below the roots |
| `Fail` | an error, a disconnect, or PostgreSQL ending a transaction |

`RoleMenuGrants` promises that a grant replaces the menus of a role as a whole. Its `Unlink`
lets some roles keep a deleted menu: a grant whose trigger ran before the deletion committed
does that (section 7).

### ServiceCatalog

| TLA+ | Code |
| --- | --- |
| `services`, `remote`, `source` | `service_resources`, what NexusAuth lists, the configured source |
| `objects` | roles, menus and endpoints: any row that names a scope |
| `CreateService` | `ServiceResourceService.Create`, with the trigger that seeds the navigation in the same statement |
| `StartChange`, `Change` | `Update`, which reads and then writes |
| `StartDelete`, `Scan`, `Delete` | `Delete`: `ensureLocal`; the UPDATE evaluates its NOT EXISTS (`Scan`) and then changes the row |
| `StartPut`, `Put` | creation or update of an object: `ensureServiceResource`, later the statement |
| `SetRemote`, `Restart`, `Drop` | NexusAuth (external); a restart with another configuration; a request that ends without a write |

### SwaggerImport

| TLA+ | Code |
| --- | --- |
| `rows`, `active` | `authorization_api_endpoints` of one scope, and whether the scope is on |
| `StartImport`, `Fetch`, `List` | `ImportSwaggerAPIEndpoints`: scope check, fetch and parse, list of what exists |
| `SkipSeen`, `CheckScope`, `Insert`, `Return` | the loop: one `CreateAPIEndpoint` per missing operation, "already exists" counts as skipped, any other error ends the import and keeps what it has created |
| `StartCreate`, `Create`, `StartUpdate`, `Update`, `DeleteEndpoint`, `Toggle` | the other handlers of endpoints, and the scope going off and on |
| `Fail` | an error, a disconnect or a crash |
| `been` (history) | routes that were live at some moment of a request |

A deleted row that no request names may be forgotten and its slot used again, so that three
slots stand for any number of rows.

### SessionCookie

| TLA+ | Code |
| --- | --- |
| `cookie` | the browser's one cookie: flow state and session |
| `drawn`, `codes`, `expired`, `ended` | state values drawn by Login, codes of the provider, `flowMaxAge`, expiry of the id token |
| `Login`, `CheckState`, `Exchange`, `Logout`, `ServeAPI` | the handlers of `auth.go`; a callback is two steps, before and after the exchange with the provider |
| `SendLogin` ..., `Deliver`, `Lose` | the browser sends a request with the cookie it has *then*, and takes a response's Set-Cookie *later*, in any order, or never |
| `Authorize` | external: the provider issues a code |

State, nonce and PKCE verifier of a login are drawn together and used together: they are one
value. A code is sent at most twice (`tried`).

### PepGate

| TLA+ | Code |
| --- | --- |
| `Arrive`, `Send`, `Answer`, `Timeout`, `Finish` | `RequireAPI` and `Client.Decide`: identity and endpoint, request, response, timeout, next call of the connection |
| `Decide`, `Spoil` | the PDP's answer at its own time, or what else an exchange can come to |
| `Regrant` | policies and roles change |
| `ever` (history) | calls the PDP would have allowed at some moment since they arrived |

### Faulty variants

A definition whose comment starts with "Faulty" is never used by a specification. Each is a
plausible mistake in the definition below it and shows that a property can fail: put in its
place, TLC finds the property named in `PROJECT.json` ("mutants") violated.

## 4. Runs

All runs that must pass, with the properties they check:

| Run | Instance | Properties | Shows |
| --- | --- | --- | --- |
| `lifecycle` | 1 policy, 2 requests, roles of 2 scopes, 4 drafts, 2 of them to refuse | `TypeOK`, `PublishedMatchesSnapshot`, `OnlyFirstVersion`, `BindingsStayInScope`, `DeletedStaysDeleted`, `ImplementsCatalog` | what is served is one frozen content of the policy's scope, and a deletion is final, in every interleaving and with failures anywhere |
| `liveness` | 1 policy, 2 requests, 1 draft | `EveryRequestReturns` | row locks keep nobody for ever |
| `decision` | 2 policies, 2 roles, allow and deny, 1 decision | `DecisionTypeOK`, `DeletedNeverGrants`, `StandingDenyWins`, `StandingAllowCounts` | four reads at four instants: nothing deleted grants, a deny or an allow that stood throughout counts |
| `policy_eval` | 1 attribute, trees to depth 4 and 7 nodes (limits 3 and 4), every list of 3 policies of 9 | `EvalTypeOK`, `EvaluatorTotal`, `DecisionMatchesReference`, `PublishedIsBounded` | what the validator accepts is bounded and never fails; decisions are those of the reference |
| `roles` | 2 transactions, 3 roles in 2 scopes, 1 user | `TypeOK`, `AssignedRolesExist`, `ImplementsDirectory`, `EndsUnlessLockedOut` | the transactions implement the atomic operations of Directory; deadlocks end, and only a deletion can be kept waiting, by replacements that share its role |
| `menus` | 2 requests, 3 menus in 2 scopes, 1 role, 3 lists | `TypeOK`, `GrantedRolesExist`, `TreeShowsAll`, `NoTwoDeadlock`, `DeletionLeavesNoChild`, `ImplementsGrants` | no deletion over a child, no partial tree, grants as a whole, none that survives its role |
| `service_catalog` | 2 scopes, 3 objects, both sources, 2 requests | `TypeOK`, `InactiveScopeFrozen` | a scope that is off admits nobody |
| `swagger_import` | 2 routes, 3 rows, 2 documents, 2 requests | `TypeOK`, `ResultCoversDocument`, `RetryCompletes` | a result accounts for every route; a repeated import completes an interrupted one |
| `session` | 2 logins, 2 requests on their way | `TypeOK`, `SessionFromOwnFlow`, `ServedForItsCaller`, `SessionFromItsCallback` | a session comes from its own login and its own callback |
| `pep_gate` | 2 calls, 2 users, 2 endpoints | `TypeOK`, `ServedWasAllowed`, `CallsEnd` | only what was allowed is served; every call ends |

Runs that must fail: `published_reverts` and `replace_merges`, section 7.

Bounds. Each instance is the smallest in which its races can happen. Handlers of different
policies share no row, so one policy meets every race of `lifecycle`; its drafts differ in
rule and roles, which different statements read. Rollback is asked for versions 0 (refused),
1 and 2 (never there); the domain of versions needs no bound, since `OnlyFirstVersion` shows
that it stays at 1. For `decision`, two policies are what deny-overrides needs, and two roles
let one of a policy's roles be deleted while the other stands. In `roles` two of the three
roles share a scope, so that lists can cross, and the third shows that other scopes are left
alone. In `menus` m2 can be a child of m1 and m3 is of another scope. Two requests are one
that holds a lock and one that waits; the proofs of section 5 hold for any number. In
`service_catalog` one object is seeded, and one is of the other scope. The documents of
`swagger_import` are one with two routes and one where cleaning makes two paths equal. In
`policy_eval` the limits are 3 and 4 instead of the code's, and the trees exceed both. In
`session` two logins are what one cookie can confuse, `tried` counts to 2.

Requests (and the policies of `decision`) are symmetric in the runs without liveness; the
runs with liveness use no symmetry. Deadlock is checked except for `policy_eval` (and the two
counterexample configurations over the same module), where an evaluation ends: elsewhere
clients can always ask.

Fairness. All of it is in specifications named `FairSpec`; nothing is assumed of arrivals,
deletions or failures.

- `PolicyLifecycle`: strong fairness of `Handle(q)`. A goroutine that is running goes on,
  which weak fairness would say; PostgreSQL serves the queue of a row lock in order, so that
  a waiter is not overtaken for ever by requests that arrive later, which strong fairness
  adds.
- `RoleAssignments`: the same for `Step(q)`, except while replacements lock a deletion out
  (`LockedOut`), and weak fairness of `BreakDeadlock(q)`: PostgreSQL looks for deadlocks after
  `deadlock_timeout`. Without it two replacements whose lists cross can wait for each other
  for ever. The exception is needed because waiters are granted a lock in turn only where
  each lock asked for excludes the one held: a FOR SHARE joins a role that is share-locked
  already and does not queue behind the UPDATE of a deletion. A replacement waits for a role
  only while a deletion has it, and rows of `user_roles` are locked exclusively.
  `EndsUnlessLockedOut` therefore promises a deletion nothing while it is locked out, and an
  end to everybody else. With two requests the role is free between two replacements;
  `MCThreeRequests.cfg` (run by hand, it passes) checks the property with three, on two
  roles of one scope, where the replacements can overlap.
- `SwaggerImport`: weak fairness of the importer, which goes on and asks again. `RetryCompletes`
  holds for a scope that ends up on and for disturbances that end.
- `PepGate`: weak fairness of sending and of the timeout, which is the middleware's own clock;
  nothing is assumed of the PDP.

`MenuForest` states no liveness. `NoTwoDeadlock` says that no two requests wait for each
other. Four can: with two grants and two deletions of menus each may wait for the next.
PostgreSQL ends one of them, which is `Fail`. `UpdateMenu` is one statement: it holds nothing
while it waits, so its wait for a deletion of the menu is a guard. Unique codes are left out,
and with them the waits on their index; the property says nothing of those.

## 5. Proofs

For all values of the constants that satisfy the named ASSUME of the module (and any number
of requests, policies, roles and so on):

| Module | Theorem | Property | Inductive invariant |
| --- | --- | --- | --- |
| `PolicyLifecycleProofs` | `TypeCorrect` | `TypeOK` | itself |
| | `PublishedIsSnapshot`, `FirstVersionOnly` | `PublishedMatchesSnapshot`, `OnlyFirstVersion` | `VersionInv` |
| | `BindingsInScope` | `BindingsStayInScope` | `BindInv` |
| | `DeletionIsFinal` | `DeletedStaysDeleted` | `LockInv` |
| | `LifecycleImplementsCatalog` | `ImplementsCatalog` | `VersionInv`, `LockInv`, `KeyInv` |
| `PolicyDecisionProofs` | `TypeCorrect` | `DecisionTypeOK` | itself |
| | `NothingDeletedGrants`, `DenyWins`, `AllowCounts` | `DeletedNeverGrants`, `StandingDenyWins`, `StandingAllowCounts` | `CatalogInv`, `CallOK` |
| | `EvaluatorTypeCorrect`, `EvaluatorNeverFails`, `EvaluatorIsRight`, `LimitsHold` | `EvalTypeOK`, `EvaluatorTotal`, `DecisionMatchesReference`, `PublishedIsBounded` | `EvalInv` |
| `RoleAssignmentsProofs` | `TypeCorrect` | `TypeOK` | itself |
| | `DeletedRolesUnassigned`, `TransactionsAreAtomic` | `AssignedRolesExist`, `ImplementsDirectory` | `TxnInv`, `LockInv` |
| `MenuForestProofs` | `TypeCorrect` | `TypeOK` | itself |
| | `DeletedRolesGrantNothing`, `NoChildLeft`, `NoTwoWait`, `GrantsAreAtomic` | `GrantedRolesExist`, `DeletionLeavesNoChild`, `NoTwoDeadlock`, `ImplementsGrants` | `CallInv`, `LockInv` |
| | `MenusFormForest`, `TreeIsComplete` | that no menu is its own ancestor; `TreeShowsAll` | `ForestInv` |
| `SwaggerImportProofs` | `TypeCorrect`, `ImportsCoverDocuments` | `TypeOK`, `ResultCoversDocument` | `IInv`, with `ImportOK` |
| `ServiceCatalogProofs` | `TypeCorrect`, `ScopeIsFrozen` | `TypeOK`, `InactiveScopeFrozen` | `TypeOK` |
| `SessionCookieProofs` | `TypeCorrect` | `TypeOK` | with `CodesDrawn` |
| | `OwnFlow`, `ServedForCaller`, `SessionsComeFromCallbacks` | `SessionFromOwnFlow`, `ServedForItsCaller`, `SessionFromItsCallback` | `RequestOK` and a sane cookie |
| `PepGateProofs` | `TypeCorrect`, `OnlyAllowedIsServed` | `TypeOK`, `ServedWasAllowed` | `IInv` |

The properties are rarely inductive: what a step writes is what a request has carried since
an earlier one. So each invariant says what a request's record may hold at each `pc`, and
which locks exclude each other.

- `VersionInv`: before `SaveVersion` and `GetVersion` a call carries a draft at version 0,
  after them one of the stored snapshots. Both properties need each other: that no draft
  has a version is why Publish only asks for version 1.
- `BindInv`: a publisher knows the roles to be in scope after `ReadRoles` and the targets
  after `ReadTargets`; the triggers establish it again for editors, and a snapshot for a
  rollback. It uses `VersionInv` for the status of the policies a publisher may read.
- `LockInv` (PolicyLifecycle): at most one transaction has written a policy's row, the row is
  not deleted while one has, and the id of a create belongs to it alone.
- `KeyInv`: policy and version determine the snapshot. With `OnlyFirstVersion` there is at
  most one snapshot per policy, hence at most one content to freeze and to serve.
- `CatalogInv` and `CallOK`: a policy has at most one content and serves only that, so that
  one which applied at the first read still matches at the last if it has stood since
  (`StandOK`); what was read names nothing deleted when the call began (`GoneOK`, `ReadOK`);
  what an allow and a default deny rest on (`AllowedOK`, `DefaultOK`).
- `TxnInv` and `LockInv` (RoleAssignments): a locked role is as the WHERE clause wanted it
  until the transaction ends; a deletion that has scanned has all live rows of its role in
  `todo` or `cleared`, since no replacement can hold a role that it has locked.
- `CallInv` and `LockInv` (MenuForest): the same for grants, role by role; and a deletion that
  has asked for children has none left, since the parent's lock keeps creations out. That two
  requests never wait for each other follows from what they can share: two writers of one
  role never write together, and a deletion of a menu shares a single row with a writer of a
  role, which only one of them can have written.
- `ForestInv`: every set of menus ever created has one whose parent is not in it, which is
  what it means to have no cycle; a menu that a request is about to create is not there yet,
  so it is nobody's parent, and two requests create two menus. The tree then lacks no menu: those it lacked would be such a set.
- `ImportOK`: an import has counted every operation it has passed, as created or skipped, and
  the route of each was live at some moment since it began.
- `EvalInv`: every snapshot is a condition that `validate` accepts; until the loop ends, the
  matched are exactly those that apply among the snapshots looked at, none of them a deny.
  It rests on `ValidDecided`: what `validate` accepts has a yes or no for every request, the
  one its meaning gives, and no more nodes or depth than allowed.
- SessionCookie: a session in a cookie or in a reply belongs to a flow whose code was
  redeemed; a callback that reached the exchange carried its own flow (`FlowOK`).
- PepGate: a PDP answer of allow that a call still waits for was true at some moment since
  it arrived, because an answer is bound to its exchange.

The invariants were model-checked on the instances of section 4 before they were proved.

Recursion. The library's induction theorems cannot be instantiated by the provers, so what
holds of all trees is proved through a least counterexample (`Smallest`: of the lists that
lack a property one has no smaller one). That the recursive functions of `PolicyEval` are
equal to the right sides of their definitions is proved too, from `Recursion`: such a
definition has a solution when it looks at smaller lists only.

Only model-checked, and why: liveness (`EveryRequestReturns`, `EndsUnlessLockedOut`,
`RetryCompletes`, `CallsEnd`) is beyond the prover. Every invariant and every other action
property that a run checks is stated by a theorem. The counterexamples of section 7 are TLC's.

## 6. Not modelled

- HTTP layer, wiring, configuration, logging, dashboard and demos: they decode, format and
  wire, and keep no state that outlives a request.
- The search for a Swagger document (links, redirects, depth limit) and its parsing: one
  outcome, the routes found or none. Controllers and summaries of endpoints.
- Verification of tokens, discovery and encryption of the cookie: outcomes.
- The decision log, which is written after the answer is fixed and whose failure is ignored.
- Codes, names, descriptions, icons, sort order and audit fields of rows; uniqueness of codes.
- The JSON form of snapshots.

No property says that a decision reflects one instant: a decision can combine roles read
before a change with snapshots read after it, the code takes no common snapshot, and no
document promises one. `StandingDenyWins` and `StandingAllowCounts` say what does hold.

## 7. Where code and documents disagree

Two runs end with a counterexample and are listed as findings:

- `published_reverts` (`PublishedNeverReverts`): an Update that read the draft before it
  was published writes "draft" back over "published", and the PDP silently stops
  evaluating the policy.
- `replace_merges` (`RolesGivenTogether`): two overlapping replacements of a user's roles each
  clear what is committed and insert their own list; the user ends with the union, although
  the service's comment calls the replacement atomic.

Eleven more configurations give counterexamples, most of the same kind. They are run by hand, with
`tlc -config <file>.cfg <module>`:

| File | Module | Property | What happens |
| --- | --- | --- | --- |
| `MCTornSnapshot.cfg` | `MCPolicyLifecycle` | `SnapshotIsAuthored` | Publish reads the draft in three statements; an Update between them makes it freeze the rule of one draft with the bindings of another |
| `MCStuckDraft.cfg` | `MCPolicyLifecycle` | `DraftIsPublishable` | a Publish that fails after `SaveVersion` leaves its version behind; every later Publish of the draft hits the primary key, only a Rollback to the version still works |
| `MCBindDeleted.cfg` | `MCPolicyLifecycle` | `BindsOnlyLive` | the trigger does not lock the role or endpoint it checks; a deletion comes before COMMIT |
| `MCStarvedDeletion.cfg` | `MCRoleAssignments` | `EveryTransactionEnds` | no source promises it, but an operator would expect it: replacements that overlap keep a role share-locked, and the deletion of the role waits as long as they do; an update of the role waits in the same way |
| `MCOrphanMenu.cfg` | `MCMenuForest` | `ParentsLive` | the trigger reads the parent without a lock, a deletion finds no child yet and commits, and the foreign key compares keys only; the tree of the scope then fails |
| `MCGrantDeletedMenu.cfg` | `MCMenuForest` | `GrantedMenusLive` | the trigger on `role_menus` reads the menu without a lock, and the row it admits is not visible to the deletion under way |
| `MCFlowTwice.cfg` | `MCSessionCookie` | `FlowUsedOnce` | the flow is consumed in the callback's response; until the browser has it, a repeated request makes the exchange again (and fails at the provider) |
| `MCStrayObject.cfg` | `MCServiceCatalog` | `NoStrays` | NOT EXISTS sees what is committed; an object whose scope check came before is inserted after |
| `MCFalseRefusal.cfg` | `MCServiceCatalog` | `RefusedMeansReferenced` | of two deletions one changes no row and answers "still referenced" |
| `MCMistyped.cfg` | `MCPolicyEval` | `TypeErrorsFailClosed` | an attribute of another type than declared differs from the literal, so `neq` and `not_in` hold |
| `MCCombinations.cfg` | `MCPolicyEval` | `CombinationsRestricted` | operators and value types are combined freely as long as both operands declare one type |

`OnlyFirstVersion` is a related observation: since published policies refuse updates and
nothing ever sets "disabled", no policy gets a second version, although schema and handlers
are written for many.
