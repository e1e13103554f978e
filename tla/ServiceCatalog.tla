---------------------------- MODULE ServiceCatalog ----------------------------
(***************************************************************************)
(* Service resources, the scopes of everything else.  With source "local"  *)
(* they are rows of service_resources, with "nexusauth" what a remote       *)
(* directory lists.  No foreign key leads to them: roles, menus and         *)
(* endpoints are created and updated after a check of their scope, and a    *)
(* deletion looks for what is left.                                         *)
(*                                                                         *)
(* Get and ensureLocal, which update and deletion begin with, are one read: *)
(* a deletion between them is answered like one before them.  Rows of       *)
(* source 'nexusauth' do not appear: nothing calls UpsertNexusAuth.         *)
(***************************************************************************)
EXTENDS TLC

CONSTANTS
    Keys,               \* keys of service resources
    Objects,            \* roles, menus and API endpoints
    ScopeOf,            \* service_resource of an object
    Seeds,              \* the menus of the default navigation
    Sources,            \* service_resource.source, as configured
    Requests            \* requests being served at the same time

ASSUME CatalogAssumption ==
    /\ ScopeOf \in [Objects -> Keys]
    /\ Seeds \subseteq Objects
    /\ Sources \subseteq {"local", "nexusauth", ""}

VARIABLES
    services,           \* service_resources: the row of each key
    remote,             \* the keys that the remote directory lists as active
    source,             \* the source of this process
    objects,            \* roles, menus and endpoints
    req                 \* what each request is about to do

vars == <<services, remote, source, objects, req>>

Row == {"none", "enabled", "disabled", "deleted"}

Idle == [op |-> "idle"]

Request ==
    [op : {"create", "update"}, object : Objects]
      \cup [op : {"change"}, key : Keys, to : {"enabled", "disabled"}]
      \cup [op : {"delete"}, key : Keys]
      \cup [op : {"write", "refused"}, key : Keys, found : BOOLEAN]

TypeOK ==
    /\ services \in [Keys -> Row]
    /\ remote \subseteq Keys
    /\ source \in {"local", "nexusauth"}
    /\ objects \in [Objects -> Row]
    /\ req \in [Requests -> Request \cup {Idle}]

\* Faulty: there is no default.
ConfiguredAsWritten(s) == s

\* Any other source keeps the process from starting.
Configured(s) == IF s = "" THEN "nexusauth" ELSE s

Init ==
    /\ services = [k \in Keys |-> "none"]
    /\ remote \in SUBSET Keys
    /\ source \in {Configured(s) : s \in Sources}
    /\ objects = [o \in Objects |-> "none"]
    /\ req = [q \in Requests |-> Idle]

Live(row) == row \in {"enabled", "disabled"}

\* ensureServiceResource: the configured source has the key, and it is active.
Active(k) == IF source = "local" THEN services[k] = "enabled" ELSE k \in remote

Set(q, r) == req' = [req EXCEPT ![q] = r]

-----------------------------------------------------------------------------
\* Faulty: the menus of every scope are seeded.
SeededEverywhere(k) == Seeds

\* The trigger on service_resources puts the default navigation into the scope.
Seeded(k) == {o \in Seeds : ScopeOf[o] = k}

\* Create.  A key is the primary key of its row, so a deleted one stays taken.
CreateService(k, to) ==
    /\ source = "local"
    /\ services[k] = "none"
    /\ services' = [services EXCEPT ![k] = to]
    /\ objects' = [o \in Objects |-> IF o \in Seeded(k) THEN "enabled" ELSE objects[o]]
    /\ UNCHANGED <<remote, source, req>>

\* Update and Delete first read the row.
StartService(q, k, r) ==
    /\ source = "local"
    /\ req[q] = Idle
    /\ Live(services[k])
    /\ Set(q, r)
    /\ UNCHANGED <<services, remote, source, objects>>

StartChange(q, k, to) == StartService(q, k, [op |-> "change", key |-> k, to |-> to])
StartDelete(q, k) == StartService(q, k, [op |-> "delete", key |-> k])

\* The UPDATE of a row that has been deleted in the meantime changes nothing.
Written(row, to) == IF Live(row) THEN to ELSE row

Change(q) ==
    /\ req[q].op = "change"
    /\ services' = [services EXCEPT ![req[q].key] = Written(@, req[q].to)]
    /\ Set(q, Idle)
    /\ UNCHANGED <<remote, source, objects>>

Referenced(k) == \E o \in Objects : ScopeOf[o] = k /\ Live(objects[o])

\* SoftDelete: NOT EXISTS in the snapshot of the UPDATE ...
Scan(q) ==
    /\ req[q].op = "delete"
    /\ Set(q, [op |-> "write", key |-> req[q].key, found |-> Referenced(req[q].key)])
    /\ UNCHANGED <<services, remote, source, objects>>

\* ... which then waits for the row, and reads again only the row itself.
Delete(q) ==
    /\ req[q].op = "write"
    /\ LET k == req[q].key IN
         IF Live(services[k]) /\ ~req[q].found
         THEN services' = [services EXCEPT ![k] = "deleted"] /\ Set(q, Idle)
         ELSE Set(q, [req[q] EXCEPT !.op = "refused"]) /\ UNCHANGED services
    /\ UNCHANGED <<remote, source, objects>>

-----------------------------------------------------------------------------
\* CreateRole, CreateMenu, CreateAPIEndpoint and their updates check the scope ...
StartPut(q, o, op) ==
    /\ req[q] = Idle
    /\ o \notin Seeds \/ op = "update"
    /\ IF op = "create" THEN objects[o] = "none" ELSE Live(objects[o])
    /\ Active(ScopeOf[o])
    /\ Set(q, [op |-> op, object |-> o])
    /\ UNCHANGED <<services, remote, source, objects>>

\* ... and write later, whatever has become of it.
Put(q, to) ==
    /\ req[q].op \in {"create", "update"}
    /\ LET o == req[q].object
           due == IF req[q].op = "create" THEN objects[o] = "none" ELSE Live(objects[o])
       IN objects' = IF due THEN [objects EXCEPT ![o] = to] ELSE objects
    /\ Set(q, Idle)
    /\ UNCHANGED <<services, remote, source>>

\* Deletions do not look at the scope.
DeleteObject(o) ==
    /\ Live(objects[o])
    /\ objects' = [objects EXCEPT ![o] = "deleted"]
    /\ UNCHANGED <<services, remote, source, req>>

-----------------------------------------------------------------------------
\* External: the remote directory is administered elsewhere.
SetRemote(keys) ==
    /\ \E s \in Sources : Configured(s) = "nexusauth"
    /\ remote' = keys
    /\ UNCHANGED <<services, source, objects, req>>

\* A request is answered, or a statement of it or the remote directory fails.
Drop(q) ==
    /\ req[q] # Idle
    /\ Set(q, Idle)
    /\ UNCHANGED <<services, remote, source, objects>>

\* The process starts again, perhaps configured with the other source.
Restart(s) ==
    /\ source' = Configured(s)
    /\ req' = [q \in Requests |-> Idle]
    /\ UNCHANGED <<services, remote, objects>>

Next ==
    \/ \E k \in Keys, to \in {"enabled", "disabled"} :
         \/ CreateService(k, to)
         \/ \E q \in Requests : StartChange(q, k, to)
    \/ \E q \in Requests :
         \/ \E k \in Keys : StartDelete(q, k)
         \/ \E o \in Objects, op \in {"create", "update"} : StartPut(q, o, op)
         \/ \E to \in {"enabled", "disabled"} : Put(q, to)
         \/ Change(q) \/ Scan(q) \/ Delete(q) \/ Drop(q)
    \/ \E o \in Objects : DeleteObject(o)
    \/ \E keys \in SUBSET Keys : SetRemote(keys)
    \/ \E s \in Sources : Restart(s)

Spec == Init /\ [][Next]_vars

-----------------------------------------------------------------------------
\* A request that writes to scope k has passed its check.
Admitted(k) ==
    \E q \in Requests : req[q].op \in {"create", "update"} /\ ScopeOf[req[q].object] = k

\* Once a scope is off or deleted at the configured source, and the requests that
\* were admitted before are done, nothing in it changes any more except by
\* deletion, and it stays so: not through a request that begins now, nor through
\* other sources or the navigation of another scope (ensureServiceResource).
InactiveScopeFrozen ==
    [][\A k \in Keys :
         /\ ~Active(k) /\ ~Active(k)' /\ ~Admitted(k)
         /\ services'[k] = services[k]
         => /\ ~Admitted(k)'
            /\ \A o \in Objects :
                 ScopeOf[o] = k /\ objects'[o] # objects[o] => objects'[o] = "deleted"]_vars

\* What is not deleted is in a service resource that is not deleted, "still
\* referenced" (service_resource_repo.go:230).
NoStrays ==
    \A o \in Objects : Live(objects[o]) => services[ScopeOf[o]] # "deleted"

\* A deletion refused because the resource is "still referenced" has found a
\* role, a menu or an endpoint that refers to it (service_resource_repo.go:230).
RefusedMeansReferenced ==
    \A q \in Requests : req[q].op = "refused" => req[q].found
=============================================================================
