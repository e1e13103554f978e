-------------------------- MODULE SwaggerImportProofs --------------------------
(***************************************************************************)
(* Proofs about SwaggerImport, for every set of routes, rows, documents and *)
(* requests.                                                                *)
(***************************************************************************)
EXTENDS SwaggerImport, TLAPS

USE ImportAssumption

-----------------------------------------------------------------------------
(* Type correctness *)

\* The routes that are live are routes.
LEMMA LiveType == ASSUME TypeOK PROVE LiveRoutes \subseteq Routes
BY DEF TypeOK, LiveRoutes, Live, Row

\* A request that imports, or updates, is one of these records.
LEMMA RequestType ==
    ASSUME TypeOK, NEW q \in Requests
    PROVE  /\ req[q].op = "import" => req[q] \in Importing
           /\ req[q].op = "create" => req[q].route \in Routes
           /\ req[q].op = "update" => req[q].slot \in Slots /\ req[q].route \in Routes
BY DEF TypeOK, Request, Importing, Idle

\* The operation an import is at.
LEMMA OperationType ==
    ASSUME NEW r \in Importing, r.doc \in Documents, r.at <= Len(r.doc)
    PROVE  r.at \in DOMAIN r.doc /\ r.doc[r.at] \in Routes
<1>1. r.doc \in Seq(Routes)
    OBVIOUS
<1> QED BY <1>1 DEF Importing

\* An import that has dealt with an operation.
LEMMA AdvanceType ==
    ASSUME NEW r \in Importing
    PROVE  /\ Advance(r) \in Importing
           /\ Advance(r).at = r.at + 1
           /\ Advance(r).pc = IF r.at = Len(r.doc) THEN "done" ELSE "next"
           /\ Advance(r).doc = r.doc /\ Advance(r).seen = r.seen
           /\ Advance(r).created = r.created /\ Advance(r).skipped = r.skipped
<1>1. PICK at \in Nat \ {0} : at = r.at + 1
    BY DEF Importing
<1>2. PICK pc \in {"next", "done"} : pc = IF r.at = Len(r.doc) THEN "done" ELSE "next"
    OBVIOUS
<1>3. PICK u : u = [r EXCEPT !.at = at, !.pc = pc]
    OBVIOUS
<1>4. /\ u \in Importing
      /\ u.at = at /\ u.pc = pc /\ u.doc = r.doc /\ u.seen = r.seen
      /\ u.created = r.created /\ u.skipped = r.skipped
    BY <1>3 DEF Importing
<1>5. Advance(r) = u
    BY <1>1, <1>2, <1>3 DEF Advance
<1> QED BY <1>1, <1>2, <1>4, <1>5

\* What an import is once it has passed over an operation, or created its route.
LEMMA SkippedType ==
    ASSUME NEW r \in Importing
    PROVE  LET u == Advance([r EXCEPT !.skipped = @ + 1])
           IN  /\ u \in Importing
               /\ u.at = r.at + 1 /\ u.pc = IF r.at = Len(r.doc) THEN "done" ELSE "next"
               /\ u.doc = r.doc /\ u.seen = r.seen
               /\ u.created = r.created /\ u.skipped = r.skipped + 1
<1>0. PICK n \in Nat : n = r.skipped + 1
    BY DEF Importing
<1>1. PICK t : t = [r EXCEPT !.skipped = n]
    OBVIOUS
<1>2. /\ t \in Importing /\ t.skipped = n /\ t.at = r.at /\ t.doc = r.doc /\ t.seen = r.seen
      /\ t.created = r.created
    BY <1>1 DEF Importing
<1> QED BY <1>0, <1>1, <1>2, AdvanceType

LEMMA CreatedType ==
    ASSUME NEW r \in Importing, NEW route \in Routes
    PROVE  LET u == Advance([r EXCEPT !.seen = @ \cup {route}, !.created = @ + 1])
           IN  /\ u \in Importing
               /\ u.at = r.at + 1 /\ u.pc = IF r.at = Len(r.doc) THEN "done" ELSE "next"
               /\ u.doc = r.doc /\ u.seen = r.seen \cup {route}
               /\ u.created = r.created + 1 /\ u.skipped = r.skipped
<1>0. PICK n \in Nat : n = r.created + 1
    BY DEF Importing
<1>4. PICK seen \in SUBSET Routes : seen = r.seen \cup {route}
    BY DEF Importing
<1>1. PICK t : t = [r EXCEPT !.seen = seen, !.created = n]
    OBVIOUS
<1>2. /\ t \in Importing /\ t.created = n /\ t.seen = seen /\ t.at = r.at /\ t.doc = r.doc
      /\ t.skipped = r.skipped
    BY <1>1 DEF Importing
<1> QED BY <1>0, <1>1, <1>2, <1>4, AdvanceType

-----------------------------------------------------------------------------
(* The invariant of an import *)

\* The import has dealt with the operations before `at`, and whatever it has dealt
\* with, believes to be there or could find has been live since it began.
ImportOK(r, seenLive) ==
    r.op = "import" =>
        /\ LiveRoutes \cup r.seen \subseteq seenLive
        /\ r.created + r.skipped + 1 = r.at
        /\ r.pc # "fetch" => r.doc \in Documents
        /\ r.pc \in {"fetch", "list"} => r.at = 1
        /\ r.pc \in {"next", "insert"} => r.at <= Len(r.doc)
        /\ r.pc = "done" => r.at = Len(r.doc) + 1
        /\ \A i \in 1 .. Len(r.doc) : i < r.at => r.doc[i] \in seenLive

IInv == TypeOK /\ \A q \in Requests : ImportOK(req[q], been[q])

LEMMA InitInv == Init => IInv
BY DEF Init, IInv, TypeOK, Request, ImportOK, Idle

-----------------------------------------------------------------------------
(* IInv is preserved *)

\* Nothing that was live at some moment of an import is forgotten.
LEMMA Remembers ==
    ASSUME Remember, NEW q \in Requests, req'[q].op = "import"
    PROVE  /\ LiveRoutes' \subseteq been'[q]
           /\ req[q].op = "import" => been[q] \subseteq been'[q]
           /\ req[q].op # "import" => LiveRoutes \subseteq been'[q]
BY DEF Remember

\* A request that nobody touches.
LEMMA Untouched ==
    ASSUME IInv, Remember, NEW q \in Requests, req'[q] = req[q]
    PROVE  ImportOK(req[q], been[q])'
BY Remembers DEF IInv, ImportOK

\* Requests and rows keep their types, and so does the history.
LEMMA HistoryType ==
    ASSUME Remember, rows' \in [Slots -> Row \cup {None}], been \in [Requests -> SUBSET Routes],
           TypeOK
    PROVE  been' \in [Requests -> SUBSET Routes]
<1>1. LiveRoutes' \subseteq Routes
    BY DEF LiveRoutes, Live, Row
<1> QED BY <1>1, LiveType DEF Remember

\* A step of one request, and what it does to the rows.
LEMMA RequestStep ==
    ASSUME IInv, Remember, NEW q \in Requests, NEW r \in Request, Set(q, r),
           active' = active, rows' \in [Slots -> Row \cup {None}],
           ImportOK(r, been[q])'
    PROVE  IInv'
<1>1. req'[q] = r /\ \A o \in Requests \ {q} : req'[o] = req[o]
    BY DEF Set, IInv, TypeOK
<1>2. req' \in [Requests -> Request]
    BY DEF Set, IInv, TypeOK
<1>3. TypeOK'
    BY <1>2, HistoryType DEF IInv, TypeOK
<1>4. ASSUME NEW o \in Requests PROVE ImportOK(req[o], been[o])'
  <2>1. CASE o = q
      BY <1>1, <2>1 DEF ImportOK
  <2>2. CASE o # q
      BY <1>1, <2>2, Untouched
  <2> QED BY <2>1, <2>2
<1> QED BY <1>3, <1>4 DEF IInv

\* A request that does not import afterwards.
LEMMA OtherStep ==
    ASSUME IInv, Remember, NEW q \in Requests, NEW r \in Request, Set(q, r), r.op # "import",
           active' = active, rows' \in [Slots -> Row \cup {None}]
    PROVE  IInv'
BY RequestStep DEF ImportOK

\* A step of an import that leaves the rows alone.
LEMMA ImportStepInv ==
    ASSUME IInv, Remember, NEW q \in Requests, req[q].op = "import",
           NEW u \in Importing, Set(q, u), UNCHANGED <<active, rows>>,
           ASSUME NEW seenLive, been[q] \subseteq seenLive
           PROVE  ImportOK(u, seenLive)
    PROVE  IInv'
<1>1. req'[q] = u /\ u.op = "import"
    BY DEF Set, IInv, TypeOK, Importing
<1>2. been[q] \subseteq been'[q] /\ LiveRoutes' = LiveRoutes
    BY <1>1, Remembers DEF LiveRoutes, Live
<1>3. ImportOK(u, been'[q])
    BY <1>2
<1>4. ImportOK(u, been[q])'
    BY <1>2, <1>3 DEF ImportOK
<1> QED BY <1>4, RequestStep DEF Request, IInv, TypeOK

LEMMA StartImportInv ==
    ASSUME IInv, Remember, NEW q \in Requests, StartImport(q)
    PROVE  IInv'
<1>1. PICK u : u = [op |-> "import", pc |-> "fetch", doc |-> <<>>, seen |-> {},
                    at |-> 1, created |-> 0, skipped |-> 0]
    OBVIOUS
<1>2. u \in Request /\ Set(q, u) /\ UNCHANGED <<active, rows>>
    BY <1>1 DEF StartImport, Request, Importing
<1>3. req'[q].op = "import"
    BY <1>1, <1>2 DEF Set, IInv, TypeOK
<1>4. LiveRoutes' \subseteq been'[q]
    BY <1>3, Remembers
<1>5. ImportOK(u, been[q])'
  <2>1. u.doc = <<>> /\ u.seen = {} /\ u.at = 1 /\ u.created = 0 /\ u.skipped = 0 /\ u.pc = "fetch"
      BY <1>1
  <2>2. Len(u.doc) = 0
      BY <2>1
  <2> QED BY <1>4, <2>1, <2>2 DEF ImportOK
<1> QED BY <1>2, <1>5, RequestStep DEF IInv, TypeOK

LEMMA FetchInv ==
    ASSUME IInv, Remember, NEW q \in Requests, NEW doc \in Documents, Fetch(q, doc)
    PROVE  IInv'
<1>1. PICK r : r = req[q]
    OBVIOUS
<1>2. r \in Importing /\ r.op = "import" /\ ImportOK(r, been[q]) /\ r.pc = "fetch"
    BY <1>1, RequestType DEF Fetch, At, IInv
<1>3. PICK u : u = [r EXCEPT !.pc = "list", !.doc = doc]
    OBVIOUS
<1>4. /\ u \in Importing /\ u.pc = "list" /\ u.doc = doc
      /\ u.seen = r.seen /\ u.at = r.at /\ u.created = r.created /\ u.skipped = r.skipped
    BY <1>2, <1>3 DEF Importing
<1>5. ASSUME NEW seenLive, been[q] \subseteq seenLive PROVE ImportOK(u, seenLive)
    BY <1>2, <1>4, <1>5 DEF ImportOK
<1>6. Set(q, u) /\ UNCHANGED <<active, rows>>
    BY <1>1, <1>3 DEF Fetch
<1> QED BY <1>1, <1>2, <1>4, <1>5, <1>6, ImportStepInv

LEMMA ListInv ==
    ASSUME IInv, Remember, NEW q \in Requests, List(q)
    PROVE  IInv'
<1>1. PICK r : r = req[q]
    OBVIOUS
<1>2. r \in Importing /\ r.op = "import" /\ ImportOK(r, been[q]) /\ r.pc = "list"
    BY <1>1, RequestType DEF List, At, IInv
<1>3. PICK u : u = [r EXCEPT !.pc = "next", !.seen = LiveRoutes]
    OBVIOUS
<1>4. /\ u \in Importing /\ u.pc = "next" /\ u.seen = LiveRoutes
      /\ u.doc = r.doc /\ u.at = r.at /\ u.created = r.created /\ u.skipped = r.skipped
    BY <1>2, <1>3, LiveType DEF Importing, IInv
<1>5. 1 <= Len(r.doc)
  <2>1. r.doc \in Seq(Routes) /\ r.doc # <<>>
      BY <1>2 DEF ImportOK
  <2> QED BY <2>1
<1>6. ASSUME NEW seenLive, been[q] \subseteq seenLive PROVE ImportOK(u, seenLive)
    BY <1>2, <1>4, <1>5, <1>6 DEF ImportOK
<1>7. Set(q, u) /\ UNCHANGED <<active, rows>>
    BY <1>1, <1>3 DEF List, Listed
<1> QED BY <1>1, <1>2, <1>4, <1>6, <1>7, ImportStepInv

\* An operation whose route has been live since the import began is passed over.
LEMMA SkipInv ==
    ASSUME IInv, Remember, NEW q \in Requests, At(q, "next") \/ At(q, "insert"),
           Operation(q) \in been[q], Skip(q), UNCHANGED <<active, rows>>
    PROVE  IInv'
<1>1. PICK r : r = req[q]
    OBVIOUS
<1>2. /\ r \in Importing /\ r.op = "import" /\ ImportOK(r, been[q])
      /\ r.pc \in {"next", "insert"}
    BY <1>1, RequestType DEF At, IInv
<1>3. PICK u : u = Advance([r EXCEPT !.skipped = @ + 1])
    OBVIOUS
<1>4. /\ u \in Importing
      /\ u.at = r.at + 1 /\ u.pc = IF r.at = Len(r.doc) THEN "done" ELSE "next"
      /\ u.doc = r.doc /\ u.seen = r.seen
      /\ u.created = r.created /\ u.skipped = r.skipped + 1
    BY <1>2, <1>3, SkippedType
<1>5. /\ Len(r.doc) \in Nat /\ r.at \in Nat /\ r.at <= Len(r.doc)
      /\ r.created \in Nat /\ r.skipped \in Nat
  <2>1. r.doc \in Seq(Routes)
      BY <1>2 DEF ImportOK
  <2> QED BY <1>2, <2>1 DEF ImportOK, Importing
<1>6. ASSUME NEW seenLive, been[q] \subseteq seenLive PROVE ImportOK(u, seenLive)
  <2>1. \A i \in 1 .. Len(u.doc) : i < u.at => u.doc[i] \in seenLive
      BY <1>1, <1>2, <1>4, <1>5, <1>6 DEF ImportOK, Operation
  <2>2. u.created + u.skipped + 1 = u.at
      BY <1>2, <1>4, <1>5 DEF ImportOK
  <2>3. /\ u.pc = "done" => u.at = Len(u.doc) + 1
        /\ u.pc \in {"next", "insert"} => u.at <= Len(u.doc)
      BY <1>2, <1>4, <1>5
  <2> QED BY <1>2, <1>4, <1>6, <2>1, <2>2, <2>3 DEF ImportOK
<1>7. Set(q, u)
    BY <1>1, <1>3 DEF Skip
<1> QED BY <1>1, <1>2, <1>4, <1>6, <1>7, ImportStepInv

\* The checks before the INSERT.
LEMMA CheckScopeInv ==
    ASSUME IInv, Remember, NEW q \in Requests, CheckScope(q)
    PROVE  IInv'
<1>1. PICK r : r = req[q]
    OBVIOUS
<1>2. r \in Importing /\ r.op = "import" /\ ImportOK(r, been[q]) /\ r.pc = "next"
    BY <1>1, RequestType DEF CheckScope, At, IInv
<1>3. CASE active
  <2>1. PICK u : u = [r EXCEPT !.pc = "insert"]
      OBVIOUS
  <2>2. /\ u \in Importing /\ u.pc = "insert" /\ u.seen = r.seen
        /\ u.doc = r.doc /\ u.at = r.at /\ u.created = r.created /\ u.skipped = r.skipped
      BY <1>2, <2>1 DEF Importing
  <2>3. ASSUME NEW seenLive, been[q] \subseteq seenLive PROVE ImportOK(u, seenLive)
      BY <1>2, <2>2, <2>3 DEF ImportOK
  <2>4. Set(q, u) /\ UNCHANGED <<active, rows>>
      BY <1>1, <1>3, <2>1 DEF CheckScope
  <2> QED BY <1>1, <1>2, <2>2, <2>3, <2>4, ImportStepInv
<1>4. CASE ~active
  <2>1. Set(q, Idle) /\ UNCHANGED <<active, rows>>
      BY <1>4 DEF CheckScope, Fails, SkippedError
  <2> QED BY <2>1, OtherStep DEF Request, Idle, IInv, TypeOK
<1> QED BY <1>3, <1>4

\* A row that is written.
LEMMA StoreType ==
    ASSUME TypeOK, NEW e \in Slots, NEW route \in Routes, Store(e, route)
    PROVE  rows' \in [Slots -> Row \cup {None}] /\ route \in LiveRoutes'
<1>1. PICK row : row = [route |-> route, live |-> TRUE]
    OBVIOUS
<1>2. row \in Row /\ row # None /\ row.live /\ row.route = route
  <2>1. row \in Row
      BY <1>1 DEF Row
  <2>2. None \notin Row
      BY DEF Row
  <2>3. row.live /\ row.route = route
      BY <1>1
  <2> QED BY <2>1, <2>2, <2>3
<1>3. rows' = [rows EXCEPT ![e] = row]
    BY <1>1 DEF Store
<1>4. rows' \in [Slots -> Row \cup {None}] /\ rows'[e] = row
    BY <1>2, <1>3 DEF TypeOK
<1> QED BY <1>2, <1>4 DEF LiveRoutes, Live

\* The INSERT: the route is live then, or was before.
LEMMA InsertInv ==
    ASSUME IInv, Remember, NEW q \in Requests, Insert(q)
    PROVE  IInv'
<1>1. PICK r : r = req[q]
    OBVIOUS
<1>2. r \in Importing /\ r.op = "import" /\ ImportOK(r, been[q]) /\ r.pc = "insert"
    BY <1>1, RequestType DEF Insert, At, IInv
<1>3. /\ Len(r.doc) \in Nat /\ r.at \in Nat /\ r.at <= Len(r.doc)
      /\ r.created \in Nat /\ r.skipped \in Nat /\ Operation(q) \in Routes
  <2>1. r.doc \in Seq(Routes) /\ r.doc \in Documents
      BY <1>2 DEF ImportOK
  <2> QED BY <1>1, <1>2, <2>1, OperationType DEF ImportOK, Importing, Operation
<1>4. CASE Operation(q) \in LiveRoutes
  <2>1. Skip(q) /\ UNCHANGED <<active, rows>>
      BY <1>4 DEF Insert, Fails, SkippedError
  <2>2. Operation(q) \in been[q]
      BY <1>2, <1>4 DEF ImportOK
  <2> QED BY <2>1, <2>2, SkipInv DEF Insert
<1>5. CASE Operation(q) \notin LiveRoutes
  <2> DEFINE route == Operation(q)
  <2>1. PICK e \in Slots : Store(e, route)
      BY <1>5 DEF Insert
  <2>2. rows' \in [Slots -> Row \cup {None}] /\ route \in LiveRoutes' /\ active' = active
      BY <1>3, <2>1, StoreType DEF IInv, Insert
  <2>3. PICK u : u = Advance([r EXCEPT !.seen = @ \cup {route}, !.created = @ + 1])
      OBVIOUS
  <2>4. /\ u \in Importing
        /\ u.at = r.at + 1 /\ u.pc = IF r.at = Len(r.doc) THEN "done" ELSE "next"
        /\ u.doc = r.doc /\ u.seen = r.seen \cup {route}
        /\ u.created = r.created + 1 /\ u.skipped = r.skipped
      BY <1>2, <1>3, <2>3, CreatedType
  <2>5. Set(q, u)
      BY <1>1, <1>5, <2>3 DEF Insert
  <2>6. req'[q].op = "import"
      BY <2>4, <2>5 DEF Set, Importing, IInv, TypeOK
  <2>7. LiveRoutes' \subseteq been'[q] /\ been[q] \subseteq been'[q]
      BY <1>1, <1>2, <2>6, Remembers
  <2>8. \A i \in 1 .. Len(u.doc) : i < u.at => u.doc[i] \in been'[q]
    <3> SUFFICES ASSUME NEW i \in 1 .. Len(r.doc), i < r.at + 1
                 PROVE  r.doc[i] \in been'[q]
        BY <2>4
    <3>1. CASE i < r.at
        BY <1>2, <2>7, <3>1 DEF ImportOK
    <3>2. CASE i = r.at
        BY <1>1, <2>2, <2>7, <3>2 DEF Operation
    <3> QED BY <1>3, <3>1, <3>2
  <2>9. u.created + u.skipped + 1 = u.at
    <3>1. r.created + r.skipped + 1 = r.at
        BY <1>2 DEF ImportOK
    <3>2. u.at = r.at + 1 /\ u.created = r.created + 1 /\ u.skipped = r.skipped
        BY <2>4
    <3> QED BY <1>3, <3>1, <3>2
  <2>10. /\ u.pc = "done" => u.at = Len(u.doc) + 1
         /\ u.pc \in {"next", "insert"} => u.at <= Len(u.doc)
         /\ u.pc \in {"next", "done"}
      BY <1>3, <2>4
  <2>11. LiveRoutes' \cup u.seen \subseteq been'[q]
      BY <1>2, <2>2, <2>4, <2>7 DEF ImportOK
  <2>12. ImportOK(u, been[q])'
      BY <1>2, <2>4, <2>8, <2>9, <2>10, <2>11 DEF ImportOK
  <2> QED BY <2>2, <2>4, <2>5, <2>12, RequestStep DEF Request
<1> QED BY <1>4, <1>5

\* A step of a request that does something else.
LEMMA OtherInv ==
    ASSUME IInv, Remember, NEW q \in Requests,
           \/ Create(q) \/ Update(q) \/ Fail(q) \/ Return(q)
           \/ \E route \in Routes : StartCreate(q, route)
           \/ \E e \in Slots, route \in Routes : StartUpdate(q, e, route)
    PROVE  IInv'
<1>1. Idle \in Request
    BY DEF Request
<1>2. CASE Create(q)
  <2>1. req[q].route \in Routes /\ Set(q, Idle) /\ active' = active
      BY <1>2, RequestType DEF Create, IInv
  <2>2. rows' \in [Slots -> Row \cup {None}]
      BY <1>2, <2>1, StoreType DEF Create, IInv, TypeOK
  <2> QED BY <1>1, <2>1, <2>2, OtherStep DEF Idle
<1>3. CASE Update(q)
  <2> DEFINE e == req[q].slot
             route == req[q].route
  <2>1. e \in Slots /\ route \in Routes /\ Set(q, Idle) /\ active' = active
      BY <1>3, RequestType DEF Update, IInv
  <2>2. rows' = rows \/ (Live(e) /\ rows' = [rows EXCEPT ![e].route = route])
      BY <1>3 DEF Update
  <2>3. Live(e) => [rows[e] EXCEPT !.route = route] \in Row
      BY <2>1 DEF Live, IInv, TypeOK, Row
  <2>4. rows' \in [Slots -> Row \cup {None}]
      BY <2>1, <2>2, <2>3 DEF IInv, TypeOK
  <2> QED BY <1>1, <2>1, <2>4, OtherStep DEF Idle
<1>4. CASE Fail(q) \/ Return(q)
    BY <1>1, <1>4, OtherStep DEF Fail, Return, Idle, IInv, TypeOK
<1>5. ASSUME NEW route \in Routes, StartCreate(q, route) PROVE IInv'
  <2>1. PICK r : r = [op |-> "create", route |-> route]
      OBVIOUS
  <2>2. r \in Request /\ r.op # "import"
      BY <2>1 DEF Request
  <2> QED BY <1>5, <2>1, <2>2, OtherStep DEF StartCreate, IInv, TypeOK
<1>6. ASSUME NEW e \in Slots, NEW route \in Routes, StartUpdate(q, e, route) PROVE IInv'
  <2>1. PICK r : r = [op |-> "update", slot |-> e, route |-> route]
      OBVIOUS
  <2>2. r \in Request /\ r.op # "import"
      BY <2>1 DEF Request
  <2> QED BY <1>6, <2>1, <2>2, OtherStep DEF StartUpdate, IInv, TypeOK
<1> QED BY <1>2, <1>3, <1>4, <1>5, <1>6

LEMMA NextInv == IInv /\ [Next]_vars => IInv'
<1> SUFFICES ASSUME IInv, [Next]_vars PROVE IInv'
    OBVIOUS
<1>1. CASE UNCHANGED vars
    BY <1>1 DEF vars, IInv, TypeOK, ImportOK, LiveRoutes, Live
<1>2. CASE Next
  <2>1. Remember
      BY <1>2 DEF Next
  <2>2. ASSUME NEW q \in Requests, ImportStep(q) PROVE IInv'
    <3>1. CASE SkipSeen(q)
      <4>1. Operation(q) \in been[q]
          BY <3>1 DEF SkipSeen, At, IInv, ImportOK
      <4> QED BY <2>1, <3>1, <4>1, SkipInv DEF SkipSeen
    <3>2. CASE Return(q)
        BY <2>1, <3>2, OtherInv
    <3> QED BY <2>1, <2>2, <3>1, <3>2, FetchInv, ListInv, CheckScopeInv, InsertInv DEF ImportStep
  <2>3. ASSUME UNCHANGED req, active' \in BOOLEAN, rows' \in [Slots -> Row \cup {None}]
        PROVE  IInv'
    <3>1. TypeOK'
        BY <2>1, <2>3, HistoryType DEF IInv, TypeOK
    <3> QED BY <2>1, <2>3, <3>1, Untouched DEF IInv
  <2>4. ASSUME NEW e \in Slots, DeleteEndpoint(e) PROVE IInv'
    <3>1. [rows[e] EXCEPT !.live = FALSE] \in Row
        BY <2>4 DEF DeleteEndpoint, Live, IInv, TypeOK, Row
    <3>2. rows' \in [Slots -> Row \cup {None}] /\ active' \in BOOLEAN /\ UNCHANGED req
        BY <2>4, <3>1 DEF DeleteEndpoint, IInv, TypeOK
    <3> QED BY <2>3, <3>2
  <2>5. CASE Toggle
      BY <2>3, <2>5 DEF Toggle, IInv, TypeOK
  <2>6. ASSUME NEW q \in Requests, StartImport(q) \/ Create(q) \/ Update(q) \/ Fail(q)
        PROVE  IInv'
      BY <2>1, <2>6, StartImportInv, OtherInv
  <2>7. ASSUME NEW q \in Requests, NEW r \in Routes,
               StartCreate(q, r) \/ \E e \in Slots : StartUpdate(q, e, r)
        PROVE  IInv'
      BY <2>1, <2>7, OtherInv
  <2> QED BY <1>2, <2>2, <2>4, <2>5, <2>6, <2>7 DEF Next, Step
<1> QED BY <1>1, <1>2

LEMMA InvAlways == Spec => []IInv
BY InitInv, NextInv, PTL DEF Spec

\* Rows, requests and the results of imports keep their types: an import reads no
\* operation behind the end of its document.
THEOREM TypeCorrect == Spec => []TypeOK
<1>1. IInv => TypeOK
    BY DEF IInv
<1> QED BY <1>1, InvAlways, PTL

\* However others create, move and delete endpoints beside it, an import that is
\* done has accounted for every operation, and every route was live since it began.
THEOREM ImportsCoverDocuments == Spec => []ResultCoversDocument
<1>1. IInv => ResultCoversDocument
  <2> SUFFICES ASSUME IInv, NEW q \in Requests, At(q, "done")
               PROVE  /\ req[q].created + req[q].skipped = Len(req[q].doc)
                      /\ ToSet(req[q].doc) \subseteq been[q]
      BY DEF ResultCoversDocument
  <2>1. PICK r : r = req[q]
      OBVIOUS
  <2>2. r \in Importing /\ r.op = "import" /\ r.pc = "done" /\ ImportOK(r, been[q])
      BY <2>1, RequestType DEF At, IInv
  <2>3. /\ r.created + r.skipped + 1 = r.at /\ r.at = Len(r.doc) + 1
        /\ r.doc \in Seq(Routes)
        /\ \A i \in 1 .. Len(r.doc) : i < r.at => r.doc[i] \in been[q]
      BY <2>2 DEF ImportOK
  <2>4. r.created \in Nat /\ r.skipped \in Nat /\ Len(r.doc) \in Nat /\ DOMAIN r.doc = 1 .. Len(r.doc)
      BY <2>2, <2>3 DEF Importing
  <2>5. r.created + r.skipped = Len(r.doc)
      BY <2>3, <2>4
  <2>6. \A i \in DOMAIN r.doc : r.doc[i] \in been[q]
      BY <2>3, <2>4
  <2> QED BY <2>1, <2>5, <2>6 DEF ToSet
<1> QED BY <1>1, InvAlways, PTL
=============================================================================
