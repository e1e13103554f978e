--------------------------- MODULE PolicyLifecycle ---------------------------
(***************************************************************************)
(* The life of an authorization policy: draft, publish, roll back, delete. *)
(*                                                                         *)
(* A handler of AuthorizationPolicyService is a sequence of database calls *)
(* on one pool, without a transaction around them, so the handlers of      *)
(* concurrent requests interleave between any two calls.  Each action below *)
(* is one database call (a statement, or a transaction up to a point where *)
(* others can tell) with the Go code that leads to it; the Go variable     *)
(* `value` travels in the call record.  A handler's first read is its      *)
(* first action: nothing it does before can be seen by others, and a first *)
(* read that makes the handler return changes nothing at all.              *)
(***************************************************************************)
EXTENDS Directory, Naturals

CONSTANTS
    Policies,           \* policy ids
    ScopeOfPolicy,      \* authorization_policies.service_resource, never updated
    Rules,              \* effect, authorization_type, priority and condition as one
    Bodies,             \* the contents clients submit
    Requests,           \* HTTP requests being served at the same time
    RollbackVersions    \* the versions clients ask to roll back to

\* What a draft says and a snapshot freezes.
Content == [rule : Rules, roles : SUBSET Roles, endpoints : SUBSET Endpoints]

ASSUME PolicyAssumption ==
    /\ ScopeOfPolicy \in [Policies -> Scopes]
    /\ Rules # {}
    /\ Bodies \subseteq Content
    /\ RollbackVersions \subseteq Nat

VARIABLES
    policies,           \* each policy's row with its bindings
    versions,           \* the rows of authorization_policy_versions
    req                 \* what each request is doing

policyVars == <<policies, versions, req>>
vars == <<dirVars, policyVars>>

\* "absent" is an id no row has yet; "archived" goes with is_deleted.
Status == {"absent", "draft", "published", "disabled", "archived"}

Value == [status : Status, version : Nat, content : Content]

Snapshots == [policy : Policies, version : Nat, content : Content]

Idle == [pc |-> "idle"]

\* pc is the next database call, todo the roles that validation has yet to read.
Call == [pc : {"scope", "validate", "readRoles", "readTargets", "saveVersion",
               "getVersion", "save", "commit"},
         op : {"create", "update", "publish", "rollback"},
         policy : Policies,
         value : Value,
         todo : SUBSET Roles]

TypeOK ==
    /\ DirTypeOK
    /\ policies \in [Policies -> Value]
    /\ versions \subseteq Snapshots
    /\ req \in [Requests -> Call \cup {Idle}]

NoContent == [rule |-> CHOOSE r \in Rules : TRUE, roles |-> {}, endpoints |-> {}]

Init ==
    /\ DirInit
    /\ policies = [p \in Policies |->
                     [status |-> "absent", version |-> 0, content |-> NoContent]]
    /\ versions = {}
    /\ req = [q \in Requests |-> Idle]

-----------------------------------------------------------------------------
\* Faulty: the WHERE clause forgets is_deleted.
FoundDeletedToo(p) == policies[p].status # "absent"

\* WHERE id = $1 AND is_deleted = FALSE finds a row.
Found(p) == policies[p].status \notin {"absent", "archived"}

Start(q, call) ==
    /\ req[q] = Idle
    /\ req' = [req EXCEPT ![q] = call]
    /\ UNCHANGED <<dirVars, policies, versions>>

\* The handler is about to make the call named pc: it goes on to `next`, or,
\* if the call fails, returns the error.
Proceed(q, pc, ok, next) ==
    /\ req[q].pc = pc
    /\ req' = [req EXCEPT ![q] = IF ok THEN next ELSE Idle]

\* Create, with a fresh id.
Create(q, p, body) ==
    /\ policies[p].status = "absent"
    /\ \A r \in Requests : req[r] # Idle => req[r].policy # p
    /\ Start(q, [pc |-> "scope", op |-> "create", policy |-> p, todo |-> {},
                 value |-> [status |-> "draft", version |-> 0, content |-> body]])

\* Update: status and version are those of the row just read.
Update(q, p, body) ==
    /\ Found(p)
    /\ policies[p].status # "published"
    /\ Start(q, [pc |-> "scope", op |-> "update", policy |-> p, todo |-> {},
                 value |-> [policies[p] EXCEPT !.content = body]])

\* Publish: the row is read here, the bindings by ReadRoles and ReadTargets.
Publish(q, p) ==
    /\ policies[p].status \in {"draft", "disabled"}
    /\ Start(q, [pc |-> "readRoles", op |-> "publish", policy |-> p, todo |-> {},
                 value |-> [policies[p] EXCEPT
                              !.content = [rule |-> @.rule, roles |-> {}, endpoints |-> {}]]])

\* Rollback: of the policy read, all that matters is replaced by GetVersion.
Rollback(q, p, v) ==
    /\ v >= 1
    /\ Found(p)
    /\ Start(q, [pc |-> "getVersion", op |-> "rollback", policy |-> p, todo |-> {},
                 value |-> [policies[p] EXCEPT !.version = v]])

\* Delete is one UPDATE; like any UPDATE of the row it waits for a
\* transaction that has written it.
\* Faulty: whoever is about to save counts as well, the request itself included.
LockedByWaiters(p) ==
    \E q \in Requests : req[q].pc \in {"save", "commit"} /\ req[q].policy = p

Locked(p) == \E q \in Requests : req[q].pc = "commit" /\ req[q].policy = p

\* Faulty: the row is removed while its status is set to a value of its own.
DeleteAsRemoved(p) ==
    /\ Found(p)
    /\ ~Locked(p)
    /\ policies' = [policies EXCEPT ![p].status = "removed"]
    /\ UNCHANGED <<dirVars, versions, req>>

Delete(p) ==
    /\ Found(p)
    /\ ~Locked(p)
    /\ policies' = [policies EXCEPT ![p].status = "archived"]
    /\ UNCHANGED <<dirVars, versions, req>>

-----------------------------------------------------------------------------
\* Faulty: empty lists are not looked for.
AnyContent(content) == TRUE

\* At least one role and one endpoint.
Complete(content) == content.roles # {} /\ content.endpoints # {}

\* normalizeAndValidate, for Create and Update: the scope, then the roles, then
\* the endpoints.
ValidateScope(q) ==
    LET c == req[q] IN
    /\ Proceed(q, "scope",
               scopeActive[ScopeOfPolicy[c.policy]] /\ Complete(c.value.content),
               [c EXCEPT !.pc = "validate", !.todo = c.value.content.roles])
    /\ UNCHANGED <<dirVars, policies, versions>>

\* One of the roles is read; a role can be disabled while the next one is.
ValidateRole(q) ==
    LET c == req[q] IN
    /\ c.pc = "validate"
    /\ \E r \in c.todo :
         Proceed(q, "validate",
                 ScopeOfRole[r] = ScopeOfPolicy[c.policy] /\ roleState[r] = "enabled",
                 [c EXCEPT !.todo = @ \ {r}])
    /\ UNCHANGED <<dirVars, policies, versions>>

\* The endpoints are read one by one too, but only for being there: what is
\* deleted stays so, hence if each is there in its turn, all were at first.
ValidateEndpoints(q) ==
    LET c == req[q] IN
    /\ c.pc = "validate" /\ c.todo = {}
    /\ Proceed(q, "validate",
               \A e \in c.value.content.endpoints :
                 /\ ScopeOfEndpoint[e] = ScopeOfPolicy[c.policy]
                 /\ endpointState[e] # "deleted",
               [c EXCEPT !.pc = "save"])
    /\ UNCHANGED <<dirVars, policies, versions>>

-----------------------------------------------------------------------------
\* loadBindings: two SELECTs after the SELECT of the row.
ReadRoles(q) ==
    LET c == req[q] IN
    /\ Proceed(q, "readRoles", TRUE,
               [c EXCEPT !.pc = "readTargets",
                         !.value.content.roles = policies[c.policy].content.roles])
    /\ UNCHANGED <<dirVars, policies, versions>>

ReadTargets(q) ==
    LET c == req[q] IN
    /\ Proceed(q, "readTargets", TRUE,
               [c EXCEPT !.pc = "saveVersion",
                         !.value.content.endpoints = policies[c.policy].content.endpoints])
    /\ UNCHANGED <<dirVars, policies, versions>>

\* Faulty: the table has no primary key.
NoKey(p, v) == FALSE

\* The row (policy_id, version) exists.
HasVersion(p, v) == \E s \in versions : s.policy = p /\ s.version = v

\* What Publish makes of the policy it has read.
Published(value) == [value EXCEPT !.status = "published", !.version = @ + 1]

\* SaveVersion: an INSERT that commits on its own and fails on a key that exists.
SaveVersion(q) ==
    LET c == req[q]
        taken == HasVersion(c.policy, c.value.version + 1)
    IN
    /\ Proceed(q, "saveVersion", ~taken,
               [c EXCEPT !.pc = "save", !.value = Published(c.value)])
    /\ versions' = IF taken THEN versions
                   ELSE versions \cup {[policy |-> c.policy,
                                        version |-> c.value.version + 1,
                                        content |-> c.value.content]}
    /\ UNCHANGED <<dirVars, policies>>

\* Faulty: only the bindings are restored.
RestoredBindings(value, snapshot) ==
    [value EXCEPT !.status = "published", !.content.roles = snapshot.content.roles,
                  !.content.endpoints = snapshot.content.endpoints]

\* Faulty: the policy is restored as a draft, to be published again.
RestoredDraft(value, snapshot) ==
    [value EXCEPT !.status = "draft", !.content = snapshot.content]

\* Rollback puts the snapshot's content in place of the policy's.
Restored(value, snapshot) ==
    [value EXCEPT !.status = "published", !.content = snapshot.content]

\* GetVersion, with the assignments that follow it.
GetVersion(q) ==
    LET c == req[q] IN
    /\ c.pc = "getVersion"
    /\ \/ /\ ~HasVersion(c.policy, c.value.version)
          /\ Proceed(q, "getVersion", FALSE, Idle)
       \/ \E s \in versions :
            /\ s.policy = c.policy /\ s.version = c.value.version
            /\ Proceed(q, "getVersion", TRUE,
                       [c EXCEPT !.pc = "save", !.value = Restored(c.value, s)])
    /\ UNCHANGED <<dirVars, policies, versions>>

-----------------------------------------------------------------------------
\* The trigger on both binding tables: referenced rows exist in the policy's scope.
MayBind(p, content) ==
    /\ \A r \in content.roles :
         ScopeOfRole[r] = ScopeOfPolicy[p] /\ roleState[r] # "deleted"
    /\ \A e \in content.endpoints :
         ScopeOfEndpoint[e] = ScopeOfPolicy[p] /\ endpointState[e] # "deleted"

\* The transaction of `save` up to COMMIT: it writes and so locks the row, and
\* the triggers read the directory without locking it, one row after the other;
\* again all of them were there at first.
Save(q) ==
    LET c == req[q] IN
    /\ c.pc = "save"
    /\ ~Locked(c.policy)
    /\ Proceed(q, "save",
               /\ c.op = "create" \/ Found(c.policy)
               /\ MayBind(c.policy, c.value.content),
               [c EXCEPT !.pc = "commit"])
    /\ UNCHANGED <<dirVars, policies, versions>>

\* COMMIT: row and bindings at once.
Commit(q) ==
    LET c == req[q] IN
    /\ Proceed(q, "commit", FALSE, Idle)
    /\ policies' = [policies EXCEPT ![c.policy] = c.value]
    /\ UNCHANGED <<dirVars, versions>>

\* A request fails at any point: the database or the network fails, the client
\* goes away, a code or a name is taken, the process dies.  What was committed
\* stays, a transaction that is open is undone.
Fail(q) ==
    /\ req[q] # Idle
    /\ req' = [req EXCEPT ![q] = Idle]
    /\ UNCHANGED <<dirVars, policies, versions>>

-----------------------------------------------------------------------------
\* A request that is being served makes its next call.
Handle(q) ==
    \/ ValidateScope(q) \/ ValidateRole(q) \/ ValidateEndpoints(q)
    \/ ReadRoles(q) \/ ReadTargets(q) \/ SaveVersion(q) \/ GetVersion(q)
    \/ Save(q) \/ Commit(q)

Arrive(q, p) ==
    \/ \E body \in Bodies : Create(q, p, body) \/ Update(q, p, body)
    \/ Publish(q, p)
    \/ \E v \in RollbackVersions : Rollback(q, p, v)

PolicyNext ==
    \/ \E q \in Requests, p \in Policies : Arrive(q, p)
    \/ \E p \in Policies : Delete(p)
    \/ \E q \in Requests : Handle(q) \/ Fail(q)

Next ==
    \/ PolicyNext
    \/ DirNext /\ UNCHANGED policyVars

Spec == Init /\ [][Next]_vars

-----------------------------------------------------------------------------
(* Properties *)

\* A published policy is exactly the stored snapshot of its current version:
\* the PDP selects a policy by its rows in the targets table and then evaluates
\* the snapshot, so the two must never disagree (Publish, Rollback, save,
\* ListPublishedByEndpoint).
FrozenAs(p, value) ==
    \E s \in versions : /\ s.policy = p
                        /\ s.version = value.version
                        /\ s.content = value.content

PublishedMatchesSnapshot ==
    \A p \in Policies :
        policies[p].status = "published" => FrozenAs(p, policies[p])

\* Whatever is bound or frozen belongs to the policy's service resource, and a
\* policy binds at least one role and one endpoint (normalizeAndValidate, the
\* triggers, and Publish re-reading both lists).
WellBound(p, content) ==
    /\ content.roles # {}
    /\ content.endpoints # {}
    /\ \A r \in content.roles : ScopeOfRole[r] = ScopeOfPolicy[p]
    /\ \A e \in content.endpoints : ScopeOfEndpoint[e] = ScopeOfPolicy[p]

BindingsStayInScope ==
    /\ \A p \in Policies : policies[p].status # "absent" => WellBound(p, policies[p].content)
    /\ \A s \in versions : WellBound(s.policy, s.content)

\* No policy ever gets a second version: published policies refuse Update,
\* nothing writes "disabled", and every draft is at version 0, so Publish only
\* ever asks for version 1 and Rollback only ever finds version 1.
OnlyFirstVersion ==
    /\ \A s \in versions : s.version = 1
    /\ \A p \in Policies :
         /\ policies[p].status \in {"absent", "draft"} => policies[p].version = 0
         /\ policies[p].status = "published" => policies[p].version = 1
         /\ policies[p].status # "disabled"

\* Nothing brings a deleted policy back or touches what it was: requests that
\* read it before it was deleted find no row when they save.
DeletedStaysDeleted ==
    [][\A p \in Policies : policies[p].status = "archived" =>
         policies'[p] = policies[p]]_vars

\* The served content of a policy is frozen once and for all: seen through this
\* mapping, every step is one that PublishedCatalog allows.
Catalog == INSTANCE PublishedCatalog WITH
    Contents <- Content,
    frozen <- [p \in Policies |-> {s.content : s \in {t \in versions : t.policy = p}}],
    served <- [p \in Policies |-> IF policies[p].status = "published"
                                  THEN {policies[p].content} ELSE {}],
    retired <- {p \in Policies : policies[p].status = "archived"}

\* The handlers implement PublishedCatalog: whatever requests race or fail, one
\* policy never serves two different contents, not even one after the other,
\* and nothing once it is deleted (Publish, Rollback, Delete, save, the primary
\* key of the versions).
ImplementsCatalog == Catalog!CatalogSpec

\* A policy's content is one that a client submitted as a whole: Publish
\* freezes the draft, not a mixture of two drafts.
SnapshotIsAuthored == \A s \in versions : s.content \in Bodies

\* Only a rollback or a deletion changes a policy that is published; an edit
\* needs a new draft.
PublishedNeverReverts ==
    [][\A p \in Policies :
         policies[p].status = "published" => policies'[p].status # "draft"]_vars

\* A draft can be published: the version that Publish will save is not taken,
\* unless another publish of the same policy is under way.
DraftIsPublishable ==
    \A p \in Policies : policies[p].status = "draft" =>
        \/ ~HasVersion(p, policies[p].version + 1)
        \/ \E q \in Requests : /\ req[q] # Idle
                              /\ req[q].policy = p
                              /\ req[q].value.status = "published"

\* At the moment a binding is written, what it refers to is not deleted.
BindsOnlyLive ==
    [][\A p \in Policies :
         LET old == policies[p].content  new == policies'[p].content IN
         /\ \A r \in new.roles \ old.roles : roleState[r] # "deleted"
         /\ \A e \in new.endpoints \ old.endpoints : endpointState[e] # "deleted"]_vars

\* Under the fairness below every request is answered: no handler waits for a
\* row lock for ever.
EveryRequestReturns == \A q \in Requests : req[q] # Idle ~> req[q] = Idle

\* Handlers run on, and PostgreSQL grants a row lock to the waiters in turn.
Fairness == \A q \in Requests : SF_vars(Handle(q))

FairSpec == Spec /\ Fairness
=============================================================================
