---------------------------- MODULE SwaggerImport ----------------------------
(***************************************************************************)
(* The API endpoints of one service resource, and their import from a      *)
(* Swagger document: the import lists the routes once, creates what it     *)
(* misses endpoint by endpoint, and has no transaction around it, while    *)
(* other requests create, move and delete endpoints.                       *)
(*                                                                         *)
(* A route is a method with a path.  Fetching and parsing are one outcome:  *)
(* the routes of the document in the order of the import, where one may     *)
(* come twice because paths are cleaned.  A row that is deleted and that no *)
(* request names may be forgotten: its slot then stands for a new row.      *)
(***************************************************************************)
EXTENDS Naturals, Sequences, SequencesExt

CONSTANTS
    Routes,             \* method and path of an endpoint
    Slots,              \* rows of authorization_api_endpoints
    Documents,          \* what the document may say: sequences of routes
    Requests,           \* requests being served at the same time
    Importers,          \* those of clients that do nothing but import
    None                \* no row

ASSUME ImportAssumption ==
    /\ Importers \subseteq Requests
    /\ Documents \subseteq Seq(Routes) \ {<<>>}
    /\ None \notin [route : Routes, live : BOOLEAN]

VARIABLES
    active,             \* the service resource is active
    rows,               \* the endpoints
    req,                \* what each request is about to do
    been                \* routes that were live at some moment of the request

vars == <<active, rows, req, been>>

Row == [route : Routes, live : BOOLEAN]

Idle == [op |-> "idle"]

\* Of an import: its operations, the routes it believes to be there, the
\* operation it is at, and its result so far.
Importing ==
    [op : {"import"}, pc : {"fetch", "list", "next", "insert", "done"},
     doc : Documents \cup {<<>>}, seen : SUBSET Routes,
     at : Nat \ {0}, created : Nat, skipped : Nat]

Request ==
    Importing
      \cup [op : {"create"}, route : Routes]
      \cup [op : {"update"}, slot : Slots, route : Routes]
      \cup {Idle}

TypeOK ==
    /\ active \in BOOLEAN
    /\ rows \in [Slots -> Row \cup {None}]
    /\ req \in [Requests -> Request]
    /\ been \in [Requests -> SUBSET Routes]

Init ==
    /\ active = TRUE
    /\ rows = [e \in Slots |-> None]
    /\ req = [q \in Requests |-> Idle]
    /\ been = [q \in Requests |-> {}]

Live(e) == rows[e] # None /\ rows[e].live

LiveRoutes == {rows[e].route : e \in {x \in Slots : Live(x)}}

Set(q, r) == req' = [req EXCEPT ![q] = r]

Named(e) == \E q \in Requests : req[q].op = "update" /\ req[q].slot = e

\* The INSERT, in a row of its own.
Store(e, route) ==
    /\ ~Live(e) /\ ~Named(e)
    /\ rows' = [rows EXCEPT ![e] = [route |-> route, live |-> TRUE]]

-----------------------------------------------------------------------------
\* ImportSwaggerAPIEndpoints, whose scope must be active.
StartImport(q) ==
    /\ req[q] = Idle
    /\ active
    /\ Set(q, [op |-> "import", pc |-> "fetch", doc |-> <<>>, seen |-> {},
               at |-> 1, created |-> 0, skipped |-> 0])
    /\ UNCHANGED <<active, rows>>

At(q, pc) == req[q].op = "import" /\ req[q].pc = pc

Fetch(q, doc) ==
    /\ At(q, "fetch")
    /\ Set(q, [req[q] EXCEPT !.pc = "list", !.doc = doc])
    /\ UNCHANGED <<active, rows>>

\* Faulty: the list contains deleted endpoints.
ListedWithDeleted == {rows[e].route : e \in {x \in Slots : rows[x] # None}}

\* Faulty: rows, not routes.
ListedRows == {rows[e] : e \in {x \in Slots : Live(x)}}

Listed == LiveRoutes

List(q) ==
    /\ At(q, "list")
    /\ Set(q, [req[q] EXCEPT !.pc = "next", !.seen = Listed])
    /\ UNCHANGED <<active, rows>>

Operation(q) == req[q].doc[req[q].at]

\* An operation is dealt with.
Advance(r) ==
    [r EXCEPT !.at = @ + 1, !.pc = IF r.at = Len(r.doc) THEN "done" ELSE "next"]

Skip(q) == Set(q, Advance([req[q] EXCEPT !.skipped = @ + 1]))

SkipSeen(q) ==
    /\ At(q, "next")
    /\ Operation(q) \in req[q].seen
    /\ Skip(q)
    /\ UNCHANGED <<active, rows>>

\* Faulty: no failure to create an endpoint ends the import.
SkippedErrorAny(error) == TRUE

\* Only an endpoint that exists is passed over, any other error ends the import.
SkippedError(error) == error = "exists"

Fails(q, error) == IF SkippedError(error) THEN Skip(q) ELSE Set(q, Idle)

\* CreateAPIEndpoint, of an import, checks the scope again ...
CheckScope(q) ==
    /\ At(q, "next")
    /\ Operation(q) \notin req[q].seen
    /\ IF active THEN Set(q, [req[q] EXCEPT !.pc = "insert"]) ELSE Fails(q, "disabled")
    /\ UNCHANGED <<active, rows>>

\* ... before the INSERT, which the unique index of live routes may refuse.
Insert(q) ==
    /\ At(q, "insert")
    /\ IF Operation(q) \in LiveRoutes
       THEN Fails(q, "exists") /\ UNCHANGED rows
       ELSE /\ \E e \in Slots : Store(e, Operation(q))
            /\ Set(q, Advance([req[q] EXCEPT !.seen = @ \cup {Operation(q)},
                                             !.created = @ + 1]))
    /\ UNCHANGED active

-----------------------------------------------------------------------------
\* CreateAPIEndpoint, called by itself.
StartCreate(q, route) ==
    /\ req[q] = Idle
    /\ active
    /\ Set(q, [op |-> "create", route |-> route])
    /\ UNCHANGED <<active, rows>>

Create(q) ==
    /\ req[q].op = "create"
    /\ IF req[q].route \in LiveRoutes THEN UNCHANGED rows
       ELSE \E e \in Slots : Store(e, req[q].route)
    /\ Set(q, Idle)
    /\ UNCHANGED active

\* UpdateAPIEndpoint reads the endpoint and its scope ...
StartUpdate(q, e, route) ==
    /\ req[q] = Idle
    /\ Live(e) /\ active
    /\ Set(q, [op |-> "update", slot |-> e, route |-> route])
    /\ UNCHANGED <<active, rows>>

\* ... and moves it, unless it is gone or the route is another endpoint's.
Update(q) ==
    /\ req[q].op = "update"
    /\ LET e == req[q].slot
           route == req[q].route
           taken == \E x \in Slots \ {e} : Live(x) /\ rows[x].route = route
       IN rows' = IF Live(e) /\ ~taken THEN [rows EXCEPT ![e].route = route] ELSE rows
    /\ Set(q, Idle)
    /\ UNCHANGED active

DeleteEndpoint(e) ==
    /\ Live(e)
    /\ rows' = [rows EXCEPT ![e].live = FALSE]
    /\ UNCHANGED <<active, req>>

\* The service resource is switched on or off.
Toggle ==
    /\ active' = ~active
    /\ UNCHANGED <<rows, req>>

\* A request fails, or the process does: what an import has created stays.
Fail(q) ==
    /\ req[q] # Idle
    /\ Set(q, Idle)
    /\ UNCHANGED <<active, rows>>

\* The result is returned.
Return(q) ==
    /\ At(q, "done")
    /\ Set(q, Idle)
    /\ UNCHANGED <<active, rows>>

ImportStep(q) ==
    \/ \E doc \in Documents : Fetch(q, doc)
    \/ List(q) \/ SkipSeen(q) \/ CheckScope(q) \/ Insert(q) \/ Return(q)

Step ==
    \/ \E q \in Requests :
         \/ StartImport(q) \/ ImportStep(q)
         \/ Create(q) \/ Update(q) \/ Fail(q)
    \/ \E q \in Requests \ Importers, r \in Routes :
         StartCreate(q, r) \/ \E e \in Slots : StartUpdate(q, e, r)
    \/ \E e \in Slots : DeleteEndpoint(e)
    \/ Toggle

\* been is a history variable.
Remember ==
    been' = [q \in Requests |->
               IF req'[q].op # "import" THEN {}
               ELSE LiveRoutes' \cup IF req[q].op = "import" THEN been[q] ELSE LiveRoutes]

Next == Step /\ Remember

Spec == Init /\ [][Next]_vars

\* An import goes on, and an importer asks for another whenever none is under way.
FairSpec ==
    /\ Spec
    /\ \A q \in Importers : WF_vars((StartImport(q) \/ ImportStep(q)) /\ Remember)

-----------------------------------------------------------------------------
\* A result accounts for every operation of the document, and every route of
\* it has been live at some moment of the import, in whatever order others
\* create, move and delete endpoints and switch the scope
\* (ImportSwaggerAPIEndpoints).
ResultCoversDocument ==
    \A q \in Requests : At(q, "done") =>
      /\ req[q].created + req[q].skipped = Len(req[q].doc)
      /\ ToSet(req[q].doc) \subseteq been[q]

\* Nobody takes a route away or interrupts an import.
Undisturbed ==
    /\ LiveRoutes \subseteq LiveRoutes'
    /\ \A q \in Requests :
         req[q].op = "import" /\ req'[q].op # "import" => At(q, "done")

\* Imports that were interrupted, refused halfway or misled by a stale list are
\* made good by the next one: once the disturbances end, every route of the
\* document is live for good.
RetryCompletes ==
    <>[]active /\ <>[][Undisturbed]_vars => <>[](\E doc \in Documents : ToSet(doc) \subseteq LiveRoutes)
=============================================================================
