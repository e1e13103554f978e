--------------------------- MODULE MenuForestProofs ---------------------------
(***************************************************************************)
(* Proofs about MenuForest, for every set of menus, roles, service          *)
(* resources and requests.                                                  *)
(***************************************************************************)
EXTENDS MenuForest, TLAPS

USE MenuAssumption

-----------------------------------------------------------------------------
(* Type correctness *)

\* What a request can be doing.
Calls == Creation \cup Deletion \cup RoleWrite

\* A request that is under way is one of these.
LEMMA CallType ==
    ASSUME TypeOK, NEW q \in Requests, req[q] # Idle
    PROVE  /\ req[q] \in Calls
           /\ req[q].op = "create" => req[q] \in Creation
           /\ req[q].op = "deleteMenu" => req[q] \in Deletion
           /\ req[q].op \in {"grant", "deleteRole"} => req[q] \in RoleWrite
BY DEF TypeOK, Calls, Creation, Deletion, RoleWrite

\* The idle request is none of them.
LEMMA IdleType == \A t \in Calls : t # Idle /\ t.op # "idle"
BY DEF Calls, Creation, Deletion, RoleWrite, Idle

\* Records that a step changes in some fields.
LEMMA Updated ==
    /\ \A t \in Creation, pc \in {"insert", "key", "commit"} : [t EXCEPT !.pc = pc] \in Creation
    /\ \A t \in Deletion, pc \in {"list", "lock", "exists", "scan", "write"}, rs \in SUBSET Rows :
         /\ [t EXCEPT !.pc = pc] \in Deletion
         /\ [t EXCEPT !.pc = pc, !.todo = rs] \in Deletion
    /\ \A t \in RoleWrite, pc \in {"check", "lock", "scan", "write"}, rs \in SUBSET Rows :
         /\ [t EXCEPT !.pc = pc] \in RoleWrite
         /\ [t EXCEPT !.pc = pc, !.todo = rs] \in RoleWrite
         /\ [t EXCEPT !.todo = rs] \in RoleWrite
         /\ [t EXCEPT !.next = rs] \in RoleWrite
    /\ \A rs, cs \in SUBSET Rows :
         /\ \A t \in Deletion : [t EXCEPT !.todo = rs, !.cleared = cs] \in Deletion
         /\ \A t \in RoleWrite : [t EXCEPT !.todo = rs, !.cleared = cs] \in RoleWrite
    /\ \A t \in RoleWrite, as, fs \in SUBSET Rows :
         [t EXCEPT !.next = {}, !.added = as, !.fresh = fs] \in RoleWrite
BY DEF Creation, Deletion, RoleWrite

\* The initial state is well typed.
LEMMA InitType == Init => TypeOK
BY DEF Init, TypeOK, State, Rows

\* A request that arrives becomes one of the calls.
LEMMA ArriveNext ==
    ASSUME NEW q \in Requests, Arrive(q)
    PROVE  /\ \E next \in Calls : req' = [req EXCEPT ![q] = next]
           /\ UNCHANGED tables
<1>1. CASE \E m \in Menus, p \in Menus \cup {NoMenu} : StartCreate(q, m, p)
    BY <1>1 DEF StartCreate, Start, Calls, Creation
<1>2. CASE \E m \in Menus : StartDeleteMenu(q, m)
    BY <1>2 DEF StartDeleteMenu, Start, Calls, Deletion
<1>3. ASSUME NEW r \in Roles, NEW list \in SUBSET Menus, NEW op \in {"grant", "deleteRole"},
             NEW pc \in {"check", "lock"}
      PROVE  Call(op, pc, r, list) \in Calls
    BY <1>3 DEF Call, Calls, RoleWrite, Rows
<1>4. CASE \E r \in Roles, list \in Lists : StartGrant(q, r, list)
    BY <1>3, <1>4 DEF StartGrant, Start
<1>5. CASE \E r \in Roles : StartDeleteRole(q, r)
  <2>1. PICK r \in Roles : StartDeleteRole(q, r)
      BY <1>5
  <2>2. Call("deleteRole", "lock", r, {}) \in Calls
      BY <1>3
  <2> QED BY <2>1, <2>2 DEF StartDeleteRole, Start
<1> QED BY <1>1, <1>2, <1>4, <1>5 DEF Arrive

\* The steps that commit nothing.
Quiet(q) ==
    \/ InsertMenu(q) \/ KeyMenu(q)
    \/ ListChildren(q) \/ LockMenu(q) \/ CheckChildren(q)
    \/ LockRole(q) \/ Scan(q)
    \/ \E row \in Rows : CheckMenu(q, row) \/ ClearRow(q, row) \/ PutRow(q, row)
    \/ \E m \in Menus : InsertRow(q, m)

\* The request goes on as a call, or returns.
GoesOn(q) == \E next \in Calls \cup {Idle} : req' = [req EXCEPT ![q] = next]

LEMMA Proceeds ==
    ASSUME NEW q \in Requests, NEW ok \in BOOLEAN, NEW next \in Calls,
           Proceed(q, ok, next)
    PROVE  GoesOn(q)
BY DEF Proceed, GoesOn

LEMMA QuietType ==
    ASSUME TypeOK, NEW q \in Requests, Quiet(q)
    PROVE  GoesOn(q) /\ UNCHANGED tables
<1> DEFINE t == req[q]
<1>0. UNCHANGED tables
    BY DEF Quiet, InsertMenu, KeyMenu, ListChildren, LockMenu, CheckChildren, LockRole, Scan,
           CheckMenu, ClearRow, PutRow, InsertRow, Proceed
<1>1. CASE InsertMenu(q) \/ KeyMenu(q)
  <2>0. req[q].op = "create"
      BY <1>1 DEF InsertMenu, KeyMenu, Does
  <2>1. t \in Creation
      BY <2>0, CallType DEF Idle
  <2> QED BY <1>1, <2>1, Updated DEF InsertMenu, KeyMenu, Proceed, GoesOn, Calls
<1>2. CASE ListChildren(q) \/ LockMenu(q) \/ CheckChildren(q)
  <2>1. t \in Deletion
      BY <1>2, CallType DEF ListChildren, LockMenu, CheckChildren, Does, Idle
  <2> QED BY <1>2, <2>1, Updated DEF ListChildren, LockMenu, CheckChildren, Proceed, GoesOn, Calls
<1>3. CASE LockRole(q)
  <2>1. t \in RoleWrite
      BY <1>3, CallType DEF LockRole, Does, Idle
  <2> QED BY <1>3, <2>1, Updated DEF LockRole, Proceed, GoesOn, Calls
<1>4. CASE Scan(q)
  <2>1. Found(q) \in SUBSET Rows
      BY DEF Found, TypeOK
  <2>2. t \in Deletion \/ t \in RoleWrite
      BY <1>4, CallType DEF Scan, Calls, Creation
  <2>3. [t EXCEPT !.pc = "write", !.todo = Found(q)] \in Calls
      BY <2>1, <2>2, Updated DEF Calls
  <2> QED BY <1>4, <2>3 DEF Scan, Proceed, GoesOn
<1>5. ASSUME NEW row \in Rows, CheckMenu(q, row) PROVE GoesOn(q)
  <2>1. t \in RoleWrite
      BY <1>5, CallType DEF CheckMenu, Does, Idle
  <2>2. t.todo \ {row} \in SUBSET Rows
      BY <2>1 DEF RoleWrite
  <2>3. [t EXCEPT !.todo = t.todo \ {row}] \in RoleWrite
      BY <2>1, <2>2, Updated
  <2> QED BY <1>5, <2>3 DEF CheckMenu, Proceed, GoesOn, Calls
<1>6. ASSUME NEW row \in Rows, ClearRow(q, row) PROVE GoesOn(q)
  <2> DEFINE rs == t.todo \ {row}
             cs == t.cleared \cup ({row} \cap grants)
  <2>1. t \in Deletion \/ t \in RoleWrite
      BY <1>6, CallType DEF ClearRow, Writer, Idle
  <2>2. rs \in SUBSET Rows /\ cs \in SUBSET Rows
      BY <2>1 DEF RoleWrite, Deletion
  <2>3. [t EXCEPT !.todo = rs, !.cleared = cs] \in Calls
      BY <2>1, <2>2, Updated DEF Calls
  <2> QED BY <1>6, <2>3 DEF ClearRow, Proceed, GoesOn
<1>7. ASSUME NEW row \in Rows, PutRow(q, row) PROVE GoesOn(q)
  <2> DEFINE as == t.added \cup {row}
             fs == t.fresh \cup (IF TakesKey(row) THEN {row} ELSE {})
  <2>1. t \in RoleWrite
      BY <1>7, CallType DEF PutRow, Does, Idle
  <2>2. as \in SUBSET Rows /\ fs \in SUBSET Rows
      BY <2>1 DEF RoleWrite
  <2>3. [t EXCEPT !.next = {}, !.added = as, !.fresh = fs] \in RoleWrite
      BY <2>1, <2>2, Updated
  <2> QED BY <1>7, <2>3 DEF PutRow, Proceed, GoesOn, Calls
<1>8. ASSUME NEW m \in Menus, InsertRow(q, m) PROVE GoesOn(q)
  <2>1. t \in RoleWrite
      BY <1>8, CallType DEF InsertRow, Does, Idle
  <2>2. {<<t.role, m>>} \in SUBSET Rows
      BY <2>1 DEF RoleWrite, Rows
  <2>3. [t EXCEPT !.next = {<<t.role, m>>}] \in RoleWrite
      BY <2>1, <2>2, Updated
  <2> QED BY <1>8, <2>3 DEF InsertRow, Proceed, GoesOn, Calls
<1> QED BY <1>0, <1>1, <1>2, <1>3, <1>4, <1>5, <1>6, <1>7, <1>8 DEF Quiet

\* Every step keeps the types.
LEMMA NextType == TypeOK /\ [Next]_vars => TypeOK'
<1> SUFFICES ASSUME TypeOK, [Next]_vars PROVE TypeOK'
    OBVIOUS
<1>1. ASSUME NEW q \in Requests, Arrive(q) PROVE TypeOK'
    BY <1>1, ArriveNext DEF TypeOK, tables, Calls
<1>2. ASSUME NEW q \in Requests, Quiet(q) PROVE TypeOK'
    BY <1>2, QuietType DEF TypeOK, GoesOn, tables, Calls
<1>3. ASSUME NEW q \in Requests, CommitMenu(q) PROVE TypeOK'
  <2>1. req[q] \in Creation
      BY <1>3, CallType DEF CommitMenu, Does, Idle
  <2> QED BY <1>3, <2>1 DEF CommitMenu, TypeOK, State, Creation
<1>4. ASSUME NEW q \in Requests, CommitRows(q) PROVE TypeOK'
  <2>1. req[q] \in Deletion \/ req[q] \in RoleWrite
      BY <1>4, CallType DEF CommitRows, Writer, Idle
  <2>2. req[q].op # "deleteMenu" => req[q] \in RoleWrite
      BY <2>1 DEF Deletion
  <2>3. links' \subseteq Rows /\ grants' \subseteq links'
      BY <1>4, <2>2 DEF CommitRows, TypeOK, RoleWrite
  <2>4. menus' \in [Menus -> State] /\ roles' \in [Roles -> State]
      BY <1>4 DEF CommitRows, TypeOK, State
  <2> QED BY <1>4, <2>3, <2>4 DEF CommitRows, TypeOK
<1>5. ASSUME NEW q \in Requests, Fail(q) PROVE TypeOK'
    BY <1>5 DEF Fail, Proceed, TypeOK, tables
<1>6. ASSUME NEW r \in Roles, CreateRole(r) PROVE TypeOK'
    BY <1>6 DEF CreateRole, TypeOK, State
<1>7. ASSUME NEW r \in Roles, NEW enabled \in BOOLEAN, UpdateRole(r, enabled) PROVE TypeOK'
    BY <1>7 DEF UpdateRole, TypeOK, State
<1>8. ASSUME NEW m \in Menus, NEW enabled \in BOOLEAN, UpdateMenu(m, enabled) PROVE TypeOK'
    BY <1>8 DEF UpdateMenu, TypeOK, State
<1>9. CASE UNCHANGED vars
    BY <1>9 DEF vars, tables, TypeOK
<1> QED BY <1>1, <1>2, <1>3, <1>4, <1>5, <1>6, <1>7, <1>8, <1>9 DEF Next, Step, Quiet

\* Tables and requests keep their types, however requests interleave.
THEOREM TypeCorrect == Spec => []TypeOK
BY InitType, NextType, PTL DEF Spec

-----------------------------------------------------------------------------
(* The locks: what a request may rely on *)

RowsOfMenu(m) == {row \in Rows : row[2] = m}

RowsOfRole(r) == {row \in Rows : row[1] = r}

\* The menu is locked, and no child can have appeared since the children were
\* looked for; the rows are those of the menu.
DeletionOK(t) ==
    t.op = "deleteMenu" =>
        /\ t.todo \subseteq links
        /\ t.todo \cup t.cleared \subseteq RowsOfMenu(t.menu)
        /\ t.todo \cap t.cleared = {}
        /\ t.pc # "write" => t.cleared = {}
        /\ t.pc \in {"scan", "write"} => ~HasChild(t.menu)

\* The role stays as it was found, the rows are those of the role, and the
\* clearing UPDATE has missed none.
RoleWriteOK(t) ==
    t.op \in {"grant", "deleteRole"} =>
        /\ t.todo \cup t.cleared \cup t.next \cup t.added \subseteq RowsOfRole(t.role)
        /\ t.todo \cap t.cleared = {}
        /\ t.pc # "write" => t.cleared = {} /\ t.added = {}
        /\ t.pc \in {"scan", "write"} =>
              roles[t.role] \in (IF t.op = "grant" THEN {"enabled"} ELSE Live)
        /\ t.pc = "write" =>
              /\ t.todo \subseteq links
              /\ grants \cap RowsOfRole(t.role) \subseteq t.todo \cup t.cleared
        /\ t.op = "deleteRole" => t.added = {}
        /\ t.fresh \subseteq t.added
        /\ t.op = "grant" => t.list \in Lists

\* A lock that a call holds and one that another request holds.
Holding(t, r) == t.op \in {"grant", "deleteRole"} /\ t.role = r /\ t.pc \in {"scan", "write"}

Removing(t, m) == t.op = "deleteMenu" /\ t.menu = m /\ t.pc \in {"exists", "scan", "write"}

Hanging(t, m) == t.op = "create" /\ t.pc = "commit" /\ t.parent = m

\* The locks of two calls do not exclude each other.
Compatible(t, u) ==
    /\ \A r \in Roles : ~(Holding(t, r) /\ Holding(u, r))
    /\ \A m \in Menus : ~(Removing(t, m) /\ (Removing(u, m) \/ Hanging(u, m)))
    /\ \A m \in Menus : ~(Hanging(t, m) /\ Removing(u, m))

Sound(t) == DeletionOK(t) /\ RoleWriteOK(t)

CallInv == \A q \in Requests : Sound(req[q])

LockInv == \A q, o \in Requests : q # o => Compatible(req[q], req[o])

Kept == CallInv /\ LockInv /\ GrantedRolesExist

IInv == TypeOK /\ Kept

-----------------------------------------------------------------------------
(* IInv holds initially *)

\* A request that is idle needs and holds nothing.
LEMMA IdleSound == Sound(Idle) /\ \A t : Compatible(Idle, t) /\ Compatible(t, Idle)
BY DEF Idle, Sound, DeletionOK, RoleWriteOK, Compatible, Holding, Removing, Hanging

LEMMA InitInv == Init => IInv
<1> SUFFICES ASSUME Init PROVE IInv
    OBVIOUS
<1>1. \A q \in Requests : req[q] = Idle
    BY DEF Init
<1>2. GrantedRolesExist
    BY DEF Init, GrantedRolesExist
<1> QED BY <1>1, <1>2, InitType, IdleSound DEF IInv, Kept, CallInv, LockInv

-----------------------------------------------------------------------------
(* IInv is preserved *)

LEMMA CompatibleSymmetric == \A t, u : Compatible(t, u) => Compatible(u, t)
BY DEF Compatible

\* Locks are what the actions say they are.
LEMMA Locks ==
    ASSUME NEW o \in Requests
    PROVE  /\ \A r : Held(o, r) <=> Holding(req[o], r)
           /\ \A m : Deleting(o, m) <=> Removing(req[o], m)
           /\ \A m : Hanging(req[o], m) => Keyed(o, m)
BY DEF Held, Holding, Deleting, Removing, Hanging, Keyed, Does

\* What one request is to the others depends on its own state only.
LEMMA OfCall ==
    ASSUME IInv, NEW q \in Requests
    PROVE  Sound(req[q]) /\ \A o \in Requests \ {q} : Compatible(req[q], req[o])
BY DEF IInv, Kept, CallInv, LockInv

\* A step of one request that commits nothing need only keep that request sound
\* and its locks compatible with those of the others.
LEMMA QuietStep ==
    ASSUME IInv, NEW q \in Requests, NEW next, UNCHANGED tables,
           req' = [req EXCEPT ![q] = next],
           Sound(next), \A o \in Requests \ {q} : Compatible(next, req[o])
    PROVE  Kept'
<1>1. req'[q] = next /\ \A o \in Requests \ {q} : req'[o] = req[o]
    BY DEF IInv, TypeOK
<1>2. \A t : Sound(t) <=> Sound(t)'
    BY DEF tables, Sound, DeletionOK, RoleWriteOK, HasChild, LiveMenu
<1>3. CallInv'
  <2> SUFFICES ASSUME NEW o \in Requests PROVE Sound(req[o])'
      BY DEF CallInv
  <2>1. PICK t : t = req'[o]
      OBVIOUS
  <2>2. Sound(t)
      BY <1>1, <2>1, OfCall
  <2>3. Sound(t)'
      BY <1>2, <2>2
  <2> QED BY <2>1, <2>3 DEF Sound, DeletionOK, RoleWriteOK
<1>4. LockInv'
  <2> SUFFICES ASSUME NEW o \in Requests, NEW p \in Requests, o # p
               PROVE  Compatible(req'[o], req'[p])
      BY DEF LockInv, Compatible, Holding, Removing, Hanging
  <2> QED BY <1>1, OfCall, CompatibleSymmetric
<1>5. GrantedRolesExist'
    BY DEF tables, IInv, Kept, GrantedRolesExist
<1> QED BY <1>3, <1>4, <1>5 DEF Kept

\* A request returns an error, or fails.
LEMMA GivesUp ==
    ASSUME IInv, NEW q \in Requests, UNCHANGED tables, req' = [req EXCEPT ![q] = Idle]
    PROVE  Kept'
BY IdleSound, QuietStep

\* A request that has arrived holds no lock yet.
LEMMA ArriveInv ==
    ASSUME IInv, NEW q \in Requests, Arrive(q)
    PROVE  Kept'
<1>1. ASSUME NEW next, req' = [req EXCEPT ![q] = next], UNCHANGED tables, Sound(next),
             \A x : ~Holding(next, x) /\ ~Removing(next, x) /\ ~Hanging(next, x)
      PROVE  Kept'
    BY <1>1, QuietStep DEF Compatible
<1>2. CASE \E m \in Menus, p \in Menus \cup {NoMenu} : StartCreate(q, m, p)
  <2>1. PICK m \in Menus, p \in Menus \cup {NoMenu} : StartCreate(q, m, p)
      BY <1>2
  <2>2. PICK t : t = [op |-> "create", pc |-> "insert", menu |-> m, parent |-> p]
      OBVIOUS
  <2>3. Sound(t) /\ \A x : ~Holding(t, x) /\ ~Removing(t, x) /\ ~Hanging(t, x)
      BY <2>2 DEF Sound, DeletionOK, RoleWriteOK, Holding, Removing, Hanging
  <2> QED BY <1>1, <2>1, <2>2, <2>3 DEF StartCreate, Start
<1>3. CASE \E m \in Menus : StartDeleteMenu(q, m)
  <2>1. PICK m \in Menus : StartDeleteMenu(q, m)
      BY <1>3
  <2>2. PICK t : t = [op |-> "deleteMenu", pc |-> "list", menu |-> m, todo |-> {}, cleared |-> {}]
      OBVIOUS
  <2>3. Sound(t) /\ \A x : ~Holding(t, x) /\ ~Removing(t, x) /\ ~Hanging(t, x)
      BY <2>2 DEF Sound, DeletionOK, RoleWriteOK, Holding, Removing, Hanging
  <2> QED BY <1>1, <2>1, <2>2, <2>3 DEF StartDeleteMenu, Start
<1>4. CASE \E r \in Roles, list \in Lists : StartGrant(q, r, list)
  <2>1. PICK r \in Roles, list \in Lists : StartGrant(q, r, list)
      BY <1>4
  <2>2. PICK t : t = Call("grant", "check", r, list)
      OBVIOUS
  <2>3. Sound(t) /\ \A x : ~Holding(t, x) /\ ~Removing(t, x) /\ ~Hanging(t, x)
      BY <2>2 DEF Call, Sound, DeletionOK, RoleWriteOK, RowsOfRole, Rows, Holding, Removing, Hanging
  <2> QED BY <1>1, <2>1, <2>2, <2>3 DEF StartGrant, Start
<1>5. CASE \E r \in Roles : StartDeleteRole(q, r)
  <2>1. PICK r \in Roles : StartDeleteRole(q, r)
      BY <1>5
  <2>2. PICK t : t = Call("deleteRole", "lock", r, {})
      OBVIOUS
  <2>3. Sound(t) /\ \A x : ~Holding(t, x) /\ ~Removing(t, x) /\ ~Hanging(t, x)
      BY <2>2 DEF Call, Sound, DeletionOK, RoleWriteOK, RowsOfRole, Rows, Holding, Removing, Hanging
  <2> QED BY <1>1, <2>1, <2>2, <2>3 DEF StartDeleteRole, Start
<1> QED BY <1>2, <1>3, <1>4, <1>5 DEF Arrive

\* A creation reads its parent, then hangs the child under it, unless the parent
\* is being deleted.
LEMMA CreationInv ==
    ASSUME IInv, NEW q \in Requests, InsertMenu(q) \/ KeyMenu(q)
    PROVE  Kept'
<1>1. PICK t \in Creation : t = req[q]
  <2>1. req[q].op = "create"
      BY DEF InsertMenu, KeyMenu, Does
  <2> QED BY <2>1, CallType DEF IInv, Idle
<1>2. t.op = "create"
    BY DEF Creation
<1>3. CASE InsertMenu(q)
  <2>1. PICK u : u = [t EXCEPT !.pc = "key"]
      OBVIOUS
  <2>2. u.op = "create" /\ u.pc = "key"
      BY <1>2, <2>1 DEF Creation
  <2>3. Sound(u) /\ \A x : Compatible(u, x)
      BY <2>2 DEF Sound, DeletionOK, RoleWriteOK, Compatible, Holding, Removing, Hanging
  <2>4. UNCHANGED tables /\ (req' = [req EXCEPT ![q] = Idle] \/ req' = [req EXCEPT ![q] = u])
      BY <1>1, <1>3, <2>1 DEF InsertMenu, Proceed
  <2> QED BY <2>3, <2>4, GivesUp, QuietStep
<1>4. CASE KeyMenu(q)
  <2>1. PICK u : u = [t EXCEPT !.pc = "commit"]
      OBVIOUS
  <2>2. u.op = "create" /\ u.pc = "commit" /\ u.parent = t.parent
      BY <1>2, <2>1 DEF Creation
  <2>3. Sound(u)
      BY <2>2 DEF Sound, DeletionOK, RoleWriteOK
  <2>4. \A o \in Requests : ~Removing(req[o], t.parent)
      BY <1>1, <1>4, Locks DEF KeyMenu
  <2>5. \A o \in Requests : Compatible(u, req[o])
      BY <2>2, <2>4 DEF Compatible, Holding, Removing, Hanging
  <2>6. UNCHANGED tables /\ req' = [req EXCEPT ![q] = u]
      BY <1>1, <1>4, <2>1 DEF KeyMenu, Proceed
  <2> QED BY <2>3, <2>5, <2>6, QuietStep
<1> QED BY <1>3, <1>4

\* A deletion lists the children, locks the menu and looks for children again.
LEMMA DeletionInv ==
    ASSUME IInv, NEW q \in Requests, ListChildren(q) \/ LockMenu(q) \/ CheckChildren(q)
    PROVE  Kept'
<1>1. PICK t \in Deletion : t = req[q]
  <2>1. req[q].op = "deleteMenu"
      BY DEF ListChildren, LockMenu, CheckChildren, Does
  <2> QED BY <2>1, CallType DEF IInv, Idle
<1>2. t.op = "deleteMenu" /\ Sound(t) /\ \A o \in Requests \ {q} : Compatible(t, req[o])
    BY <1>1, OfCall DEF Deletion
<1>3. ASSUME NEW pc \in {"lock", "exists", "scan"}, NEW u, u = [t EXCEPT !.pc = pc],
             pc = "scan" => ~HasChild(t.menu), t.pc # "write"
      PROVE  Sound(u) /\ u.op = "deleteMenu" /\ u.pc = pc /\ u.menu = t.menu
  <2>1. /\ u.op = "deleteMenu" /\ u.pc = pc /\ u.menu = t.menu
        /\ u.todo = t.todo /\ u.cleared = t.cleared
      BY <1>2, <1>3 DEF Deletion
  <2> QED BY <1>2, <1>3, <2>1 DEF Sound, DeletionOK, RoleWriteOK
<1>4. CASE ListChildren(q)
  <2>1. PICK u : u = [t EXCEPT !.pc = "lock"]
      OBVIOUS
  <2>2. Sound(u) /\ u.op = "deleteMenu" /\ u.pc = "lock"
      BY <1>1, <1>3, <1>4, <2>1 DEF ListChildren, Does
  <2>3. \A x : Compatible(u, x)
      BY <2>2 DEF Compatible, Holding, Removing, Hanging
  <2>4. UNCHANGED tables /\ (req' = [req EXCEPT ![q] = Idle] \/ req' = [req EXCEPT ![q] = u])
      BY <1>1, <1>4, <2>1 DEF ListChildren, Proceed
  <2> QED BY <2>2, <2>3, <2>4, GivesUp, QuietStep
<1>5. CASE LockMenu(q)
  <2>1. PICK u : u = [t EXCEPT !.pc = "exists"]
      OBVIOUS
  <2>2. Sound(u) /\ u.op = "deleteMenu" /\ u.pc = "exists" /\ u.menu = t.menu
      BY <1>1, <1>3, <1>5, <2>1 DEF LockMenu, Does
  <2>3. \A o \in Requests : ~Removing(req[o], t.menu) /\ ~Hanging(req[o], t.menu)
      BY <1>1, <1>5, Locks DEF LockMenu
  <2>4. \A o \in Requests : Compatible(u, req[o])
      BY <2>2, <2>3 DEF Compatible, Holding, Removing, Hanging
  <2>5. UNCHANGED tables /\ (req' = [req EXCEPT ![q] = Idle] \/ req' = [req EXCEPT ![q] = u])
      BY <1>1, <1>5, <2>1 DEF LockMenu, Proceed
  <2> QED BY <2>2, <2>4, <2>5, GivesUp, QuietStep
<1>6. CASE CheckChildren(q)
  <2>1. PICK u : u = [t EXCEPT !.pc = "scan"]
      OBVIOUS
  <2>2. /\ UNCHANGED tables
        /\ req' = [req EXCEPT ![q] = IF ~HasChild(t.menu) THEN u ELSE Idle]
      BY <1>1, <1>6, <2>1 DEF CheckChildren, Proceed
  <2>3. CASE HasChild(t.menu)
      BY <2>2, <2>3, GivesUp
  <2>4. CASE ~HasChild(t.menu)
    <3>1. Sound(u) /\ u.op = "deleteMenu" /\ u.pc = "scan" /\ u.menu = t.menu
        BY <1>1, <1>3, <1>6, <2>1, <2>4 DEF CheckChildren, Does
    <3>2. \A o \in Requests \ {q} : Compatible(u, req[o])
        BY <1>1, <1>2, <1>6, <3>1 DEF CheckChildren, Does, Compatible, Holding, Removing, Hanging
    <3> QED BY <2>2, <2>4, <3>1, <3>2, QuietStep
  <2> QED BY <2>3, <2>4
<1> QED BY <1>4, <1>5, <1>6

\* A role is locked as long as it is what the statement looked for.
LEMMA LockRoleInv ==
    ASSUME IInv, NEW q \in Requests, LockRole(q)
    PROVE  Kept'
<1>1. PICK t \in RoleWrite : t = req[q]
  <2>1. req[q].op \in {"grant", "deleteRole"}
      BY DEF LockRole, Does
  <2> QED BY <2>1, CallType DEF IInv, Idle
<1>2. /\ t.op \in {"grant", "deleteRole"} /\ t.pc \in {"check", "lock"} /\ t.todo = {}
      /\ Sound(t) /\ t.role \in Roles
    BY <1>1, OfCall DEF LockRole, Does, RoleWrite
<1>3. PICK u : u = [t EXCEPT !.pc = "scan"]
    OBVIOUS
<1>4. /\ u.op = t.op /\ u.pc = "scan" /\ u.role = t.role /\ u.list = t.list /\ u.todo = {}
      /\ u.cleared = t.cleared /\ u.next = t.next /\ u.added = t.added /\ u.fresh = t.fresh
    BY <1>2, <1>3 DEF RoleWrite
<1> DEFINE found == roles[t.role] \in (IF t.op = "grant" THEN {"enabled"} ELSE Live)
<1>5. UNCHANGED tables /\ req' = [req EXCEPT ![q] = IF found THEN u ELSE Idle]
    BY <1>1, <1>3 DEF LockRole, Proceed
<1>6. CASE ~found
    BY <1>5, <1>6, GivesUp
<1>7. CASE found
  <2>1. Sound(u)
      BY <1>2, <1>4, <1>7 DEF Sound, DeletionOK, RoleWriteOK
  <2>2. \A o \in Requests : ~Holding(req[o], t.role)
      BY <1>1, Locks DEF LockRole
  <2>3. \A o \in Requests : Compatible(u, req[o])
      BY <1>2, <1>4, <2>2 DEF Compatible, Holding, Removing, Hanging
  <2> QED BY <1>5, <1>7, <2>1, <2>3, QuietStep
<1> QED BY <1>6, <1>7

\* The clearing UPDATE finds every committed row of the menu or role.
LEMMA ScanInv ==
    ASSUME IInv, NEW q \in Requests, Scan(q)
    PROVE  Kept'
<1>1. PICK t : t = req[q]
    OBVIOUS
<1>2. t \in Deletion \/ t \in RoleWrite
    BY <1>1, CallType DEF Scan, Calls, Creation, IInv
<1>3. t.pc = "scan" /\ Sound(t)
    BY <1>1, OfCall DEF Scan
<1>4. PICK rs : rs = Found(q)
    OBVIOUS
<1>5. PICK u : u = [t EXCEPT !.pc = "write", !.todo = rs]
    OBVIOUS
<1>6. UNCHANGED tables /\ req' = [req EXCEPT ![q] = u]
    BY <1>1, <1>4, <1>5 DEF Scan, Proceed
<1>7. grants \subseteq links /\ links \subseteq Rows
    BY DEF IInv, TypeOK
<1>8. CASE t \in Deletion
  <2>1. /\ t.op = "deleteMenu" /\ u.op = t.op /\ u.pc = "write" /\ u.menu = t.menu
        /\ u.todo = rs /\ u.cleared = t.cleared
      BY <1>5, <1>8 DEF Deletion
  <2>2. rs = grants \cap RowsOfMenu(t.menu)
      BY <1>1, <1>4, <1>7, <2>1 DEF Found, RowsOfMenu
  <2>3. Sound(u)
      BY <1>3, <1>7, <2>1, <2>2 DEF Sound, DeletionOK, RoleWriteOK
  <2>4. \A o \in Requests \ {q} : Compatible(u, req[o])
      BY <1>1, <1>3, <2>1, OfCall DEF Compatible, Holding, Removing, Hanging
  <2> QED BY <1>6, <2>3, <2>4, QuietStep
<1>9. CASE t \in RoleWrite
  <2>1. /\ t.op \in {"grant", "deleteRole"} /\ u.op = t.op /\ u.pc = "write" /\ u.role = t.role
        /\ u.list = t.list /\ u.todo = rs /\ u.cleared = t.cleared
        /\ u.next = t.next /\ u.added = t.added /\ u.fresh = t.fresh
      BY <1>5, <1>9 DEF RoleWrite
  <2>2. rs = grants \cap RowsOfRole(t.role)
      BY <1>1, <1>4, <1>7, <2>1 DEF Found, RowsOfRole
  <2>3. Sound(u)
      BY <1>3, <1>7, <2>1, <2>2 DEF Sound, DeletionOK, RoleWriteOK
  <2>4. \A o \in Requests \ {q} : Compatible(u, req[o])
      BY <1>1, <1>3, <2>1, OfCall DEF Compatible, Holding, Removing, Hanging
  <2> QED BY <1>6, <2>3, <2>4, QuietStep
<1> QED BY <1>2, <1>8, <1>9

\* A row found is cleared, or is no longer there.
LEMMA ClearRowInv ==
    ASSUME IInv, NEW q \in Requests, NEW row \in Rows, ClearRow(q, row)
    PROVE  Kept'
<1>1. PICK t : t = req[q]
    OBVIOUS
<1>2. t \in Deletion \/ t \in RoleWrite
  <2>1. TypeOK /\ req[q].op \in {"deleteMenu", "grant", "deleteRole"}
      BY DEF ClearRow, Writer, IInv
  <2>2. req[q] # Idle
      BY <2>1 DEF Idle
  <2> QED BY <1>1, <2>1, <2>2, CallType
<1>3. /\ t.pc = "write" /\ row \in t.todo /\ Sound(t)
      /\ \A o \in Requests \ {q} : Compatible(t, req[o])
    BY <1>1, OfCall DEF ClearRow
<1>4. PICK cs : cs = t.cleared \cup ({row} \cap grants)
    OBVIOUS
<1>5. PICK u : u = [t EXCEPT !.todo = t.todo \ {row}, !.cleared = cs]
    OBVIOUS
<1>6. UNCHANGED tables /\ req' = [req EXCEPT ![q] = u]
    BY <1>1, <1>4, <1>5 DEF ClearRow, Proceed
<1>7. CASE t \in Deletion
  <2>1. /\ t.op = "deleteMenu" /\ u.op = t.op /\ u.pc = t.pc /\ u.menu = t.menu
        /\ u.todo = t.todo \ {row} /\ u.cleared = cs
      BY <1>5, <1>7 DEF Deletion
  <2>2. Sound(u)
      BY <1>3, <1>4, <2>1 DEF Sound, DeletionOK, RoleWriteOK
  <2>3. \A o \in Requests \ {q} : Compatible(u, req[o])
      BY <1>3, <2>1 DEF Compatible, Holding, Removing, Hanging
  <2> QED BY <1>6, <2>2, <2>3, QuietStep
<1>8. CASE t \in RoleWrite
  <2>1. /\ t.op \in {"grant", "deleteRole"} /\ u.op = t.op /\ u.pc = t.pc /\ u.role = t.role
        /\ u.list = t.list /\ u.todo = t.todo \ {row} /\ u.cleared = cs
        /\ u.next = t.next /\ u.added = t.added /\ u.fresh = t.fresh
      BY <1>5, <1>8 DEF RoleWrite
  <2>2. Sound(u)
      BY <1>3, <1>4, <2>1 DEF Sound, DeletionOK, RoleWriteOK
  <2>3. \A o \in Requests \ {q} : Compatible(u, req[o])
      BY <1>3, <2>1 DEF Compatible, Holding, Removing, Hanging
  <2> QED BY <1>6, <2>2, <2>3, QuietStep
<1> QED BY <1>2, <1>7, <1>8

\* Menus are checked, and rows put, while the role is held or not yet needed.
LEMMA GrantInv ==
    ASSUME IInv, NEW q \in Requests,
           \/ \E row \in Rows : CheckMenu(q, row) \/ PutRow(q, row)
           \/ \E m \in Menus : InsertRow(q, m)
    PROVE  Kept'
<1>1. PICK t \in RoleWrite : t = req[q]
  <2>1. req[q].op = "grant"
      BY DEF CheckMenu, PutRow, InsertRow, Does
  <2> QED BY <2>1, CallType DEF IInv, Idle
<1>2. /\ t.op = "grant" /\ t.pc \in {"check", "write"} /\ Sound(t) /\ t.role \in Roles
      /\ \A o \in Requests \ {q} : Compatible(t, req[o])
    BY <1>1, OfCall DEF CheckMenu, PutRow, InsertRow, Does, RoleWrite
<1>3. ASSUME NEW u, u.op = t.op, u.pc = t.pc, u.role = t.role, Sound(u), UNCHANGED tables,
             req' = [req EXCEPT ![q] = Idle] \/ req' = [req EXCEPT ![q] = u]
      PROVE  Kept'
  <2>1. \A o \in Requests \ {q} : Compatible(u, req[o])
      BY <1>2, <1>3 DEF Compatible, Holding, Removing, Hanging
  <2> QED BY <1>3, <2>1, GivesUp, QuietStep
<1>4. CASE \E row \in Rows : CheckMenu(q, row)
  <2>1. PICK row \in Rows : CheckMenu(q, row)
      BY <1>4
  <2>2. PICK u : u = [t EXCEPT !.todo = t.todo \ {row}]
      OBVIOUS
  <2>3. /\ u.op = t.op /\ u.pc = t.pc /\ u.role = t.role /\ u.list = t.list
        /\ u.todo = t.todo \ {row} /\ u.cleared = t.cleared /\ u.next = t.next
        /\ u.added = t.added /\ u.fresh = t.fresh
      BY <1>1, <2>2 DEF RoleWrite
  <2>4. t.pc = "check"
      BY <1>1, <2>1 DEF CheckMenu, Does
  <2>5. Sound(u)
      BY <1>2, <2>3, <2>4 DEF Sound, DeletionOK, RoleWriteOK
  <2>6. UNCHANGED tables /\ (req' = [req EXCEPT ![q] = Idle] \/ req' = [req EXCEPT ![q] = u])
      BY <1>1, <2>1, <2>2 DEF CheckMenu, Proceed
  <2> QED BY <1>3, <2>3, <2>5, <2>6
<1>5. CASE \E m \in Menus : InsertRow(q, m)
  <2>1. PICK m \in Menus : InsertRow(q, m)
      BY <1>5
  <2>2. PICK u : u = [t EXCEPT !.next = {<<t.role, m>>}]
      OBVIOUS
  <2>3. /\ u.op = t.op /\ u.pc = t.pc /\ u.role = t.role /\ u.list = t.list
        /\ u.todo = t.todo /\ u.cleared = t.cleared /\ u.next = {<<t.role, m>>}
        /\ u.added = t.added /\ u.fresh = t.fresh
      BY <1>1, <2>2 DEF RoleWrite
  <2>4. <<t.role, m>> \in RowsOfRole(t.role)
      BY <1>2 DEF RowsOfRole, Rows
  <2>5. Sound(u)
      BY <1>2, <2>3, <2>4 DEF Sound, DeletionOK, RoleWriteOK
  <2>6. UNCHANGED tables /\ (req' = [req EXCEPT ![q] = Idle] \/ req' = [req EXCEPT ![q] = u])
      BY <1>1, <2>1, <2>2 DEF InsertRow, Proceed
  <2> QED BY <1>3, <2>3, <2>5, <2>6
<1>6. CASE \E row \in Rows : PutRow(q, row)
  <2>1. PICK row \in Rows : PutRow(q, row)
      BY <1>6
  <2>2. PICK fs : fs = t.fresh \cup (IF TakesKey(row) THEN {row} ELSE {})
      OBVIOUS
  <2>3. PICK u : u = [t EXCEPT !.next = {}, !.added = t.added \cup {row}, !.fresh = fs]
      OBVIOUS
  <2>4. /\ u.op = t.op /\ u.pc = t.pc /\ u.role = t.role /\ u.list = t.list
        /\ u.todo = t.todo /\ u.cleared = t.cleared /\ u.next = {}
        /\ u.added = t.added \cup {row} /\ u.fresh = fs
      BY <1>1, <2>3 DEF RoleWrite
  <2>5. t.pc = "write" /\ row \in t.next
      BY <1>1, <2>1 DEF PutRow, Does
  <2>6. Sound(u)
      BY <1>2, <2>2, <2>4, <2>5 DEF Sound, DeletionOK, RoleWriteOK
  <2>7. UNCHANGED tables /\ (req' = [req EXCEPT ![q] = Idle] \/ req' = [req EXCEPT ![q] = u])
      BY <1>1, <2>1, <2>2, <2>3 DEF PutRow, Proceed
  <2> QED BY <1>3, <2>4, <2>6, <2>7
<1> QED BY <1>4, <1>5, <1>6

\* A child is created: its parent is not one whose deletion has found no child.
LEMMA CommitMenuInv ==
    ASSUME IInv, NEW q \in Requests, CommitMenu(q)
    PROVE  Kept'
<1>1. PICK t \in Creation : t = req[q]
  <2>1. req[q].op = "create"
      BY DEF CommitMenu, Does
  <2> QED BY <2>1, CallType DEF IInv, Idle
<1>2. t.op = "create" /\ t.pc = "commit"
    BY <1>1 DEF CommitMenu, Does
<1>3. req'[q] = Idle /\ (\A o \in Requests \ {q} : req'[o] = req[o]) /\ UNCHANGED <<roles, links, grants>>
    BY DEF CommitMenu, IInv, TypeOK
<1>4. ASSUME NEW o \in Requests \ {q} PROVE Sound(req[o])'
  <2>1. Sound(req[o]) /\ Compatible(t, req[o]) /\ req'[o] = req[o]
      BY <1>1, <1>3, OfCall
  <2>2. RoleWriteOK(req[o])'
      BY <1>3, <2>1 DEF Sound, RoleWriteOK
  <2>3. ASSUME NEW m, m = req[o].menu, req[o].op = "deleteMenu", req[o].pc \in {"scan", "write"}
        PROVE  ~HasChild(m)'
    <3>1. ~HasChild(m) /\ m \in Menus
        BY <2>1, <2>3, CallType DEF Sound, DeletionOK, IInv, Deletion, Idle
    <3>2. t.parent # m
        BY <1>2, <2>1, <2>3, <3>1 DEF Compatible, Hanging, Removing
    <3> SUFFICES ASSUME NEW c \in Menus, menus'[c] \in Live, parent'[c] = m PROVE FALSE
        BY DEF HasChild, LiveMenu
    <3>3. CASE c = t.menu
        BY <1>1, <3>2, <3>3 DEF CommitMenu, IInv, TypeOK
    <3>4. CASE c # t.menu
        BY <1>1, <3>1, <3>4 DEF CommitMenu, IInv, TypeOK, HasChild, LiveMenu
    <3> QED BY <3>3, <3>4
  <2>4. DeletionOK(req[o])'
      BY <1>3, <2>1, <2>3 DEF Sound, DeletionOK
  <2> QED BY <2>2, <2>4 DEF Sound
<1>5. CallInv'
    BY <1>3, <1>4, IdleSound DEF CallInv, Sound, DeletionOK, RoleWriteOK, Idle
<1>6. LockInv'
    BY <1>3, IdleSound, OfCall DEF LockInv, Compatible, Holding, Removing, Hanging, Idle
<1>7. GrantedRolesExist'
    BY <1>3 DEF IInv, Kept, GrantedRolesExist
<1> QED BY <1>5, <1>6, <1>7 DEF Kept

\* What a request that commits has cleared and added.
LEMMA AtCommit ==
    ASSUME IInv, NEW q \in Requests, CommitRows(q)
    PROVE  /\ req[q].op \in {"deleteMenu", "grant", "deleteRole"}
           /\ req[q].pc = "write"
           /\ links \subseteq links' /\ parent' = parent
           /\ req[q].op = "deleteMenu" =>
                /\ req[q].menu \in Menus /\ ~HasChild(req[q].menu)
                /\ req[q].cleared \subseteq RowsOfMenu(req[q].menu)
                /\ grants' = grants \ req[q].cleared
                /\ menus' = [menus EXCEPT ![req[q].menu] = "deleted"]
                /\ roles' = roles
           /\ req[q].op = "grant" =>
                /\ req[q].role \in Roles /\ roles[req[q].role] = "enabled"
                /\ req[q].list \in Lists
                /\ grants' = (grants \ RowsOfRole(req[q].role)) \cup ({req[q].role} \X req[q].list)
                /\ menus' = menus
                /\ roles' = roles
           /\ req[q].op = "deleteRole" =>
                /\ req[q].role \in Roles /\ roles[req[q].role] \in Live
                /\ grants' = grants \ RowsOfRole(req[q].role)
                /\ menus' = menus
                /\ roles' = [roles EXCEPT ![req[q].role] = "deleted"]
<1> DEFINE t == req[q]
<1>1. /\ t.op \in {"deleteMenu", "grant", "deleteRole"} /\ t.pc = "write" /\ t.todo = {}
      /\ links \subseteq links' /\ parent' = parent
    BY DEF CommitRows, Writer
<1>2. /\ t.op = "deleteMenu" => t \in Deletion
      /\ t.op \in {"grant", "deleteRole"} => t \in RoleWrite
    BY <1>1, CallType DEF IInv, Idle
<1>3. Sound(t)
    BY OfCall
<1>4. /\ grants' = (grants \ t.cleared) \cup (IF t.op = "deleteMenu" THEN {} ELSE t.added)
      /\ menus' = [m \in Menus |-> IF t.op = "deleteMenu" /\ m = t.menu THEN "deleted" ELSE menus[m]]
      /\ roles' = [r \in Roles |-> IF t.op = "deleteRole" /\ r = t.role THEN "deleted" ELSE roles[r]]
      /\ t.op = "grant" => t.added = {t.role} \X t.list
    BY DEF CommitRows
<1>5. /\ menus \in [Menus -> State] /\ roles \in [Roles -> State]
      /\ t.op # "deleteMenu" => menus' = menus
      /\ t.op # "deleteRole" => roles' = roles
    BY <1>4 DEF IInv, TypeOK
<1>6. CASE t.op = "deleteMenu"
  <2>1. t.menu \in Menus /\ ~HasChild(t.menu) /\ t.cleared \subseteq RowsOfMenu(t.menu)
      BY <1>1, <1>2, <1>3, <1>6 DEF Sound, DeletionOK, Deletion
  <2>2. grants' = grants \ t.cleared /\ menus' = [menus EXCEPT ![t.menu] = "deleted"]
      BY <1>4, <1>5, <1>6
  <2> QED BY <1>1, <1>5, <1>6, <2>1, <2>2
<1>7. CASE t.op = "grant"
  <2>1. /\ t.role \in Roles /\ roles[t.role] = "enabled" /\ t.list \in Lists
        /\ grants \cap RowsOfRole(t.role) \subseteq t.cleared
        /\ t.cleared \subseteq RowsOfRole(t.role)
      BY <1>1, <1>2, <1>3, <1>7 DEF Sound, RoleWriteOK, RoleWrite
  <2>2. grants' = (grants \ RowsOfRole(t.role)) \cup ({t.role} \X t.list)
      BY <1>4, <1>7, <2>1
  <2> QED BY <1>1, <1>5, <1>7, <2>1, <2>2
<1>8. CASE t.op = "deleteRole"
  <2>1. /\ t.role \in Roles /\ roles[t.role] \in Live /\ t.added = {}
        /\ grants \cap RowsOfRole(t.role) \subseteq t.cleared
        /\ t.cleared \subseteq RowsOfRole(t.role)
      BY <1>1, <1>2, <1>3, <1>8 DEF Sound, RoleWriteOK, RoleWrite
  <2>2. /\ grants' = grants \ RowsOfRole(t.role)
        /\ roles' = [roles EXCEPT ![t.role] = "deleted"]
      BY <1>4, <1>5, <1>8, <2>1
  <2> QED BY <1>1, <1>5, <1>8, <2>1, <2>2
<1> QED BY <1>1, <1>6, <1>7, <1>8

\* A role keeps what a request that holds it has found.
LEMMA CommitRowsInv ==
    ASSUME IInv, NEW q \in Requests, CommitRows(q)
    PROVE  Kept'
<1> DEFINE t == req[q]
<1>1. req'[q] = Idle /\ \A o \in Requests \ {q} : req'[o] = req[o]
    BY DEF CommitRows, IInv, TypeOK
<1>2. /\ menus \in [Menus -> State] /\ roles \in [Roles -> State] /\ grants \subseteq Rows
      /\ links \subseteq links' /\ parent' = parent
      /\ t.op \in {"deleteMenu", "grant", "deleteRole"} /\ t.pc = "write"
    BY AtCommit DEF IInv, TypeOK
<1>3. \A m \in Menus : menus'[m] = menus[m] \/ menus'[m] = "deleted"
    BY <1>2, AtCommit
<1>4. \A m : HasChild(m)' => HasChild(m)
    BY <1>2, <1>3 DEF HasChild, LiveMenu, Live
<1>5. ASSUME NEW r \in Roles, ~Holding(t, r)
      PROVE  roles'[r] = roles[r] /\ grants' \cap RowsOfRole(r) \subseteq grants
  <2>1. CASE t.op = "deleteMenu"
      BY <2>1, AtCommit
  <2>2. CASE t.op \in {"grant", "deleteRole"}
    <3>1. t.role # r /\ t.role \in Roles
        BY <1>2, <1>5, <2>2, AtCommit DEF Holding
    <3>2. roles'[r] = roles[r]
        BY <1>2, <2>2, <3>1, AtCommit
    <3>3. grants' \cap RowsOfRole(r) \subseteq grants
        BY <2>2, <3>1, AtCommit DEF RowsOfRole
    <3> QED BY <3>2, <3>3
  <2> QED BY <1>2, <2>1, <2>2
<1>6. ASSUME NEW o \in Requests \ {q} PROVE Sound(req[o])'
  <2>1. Sound(req[o]) /\ Compatible(t, req[o]) /\ req'[o] = req[o]
      BY <1>1, OfCall
  <2>2. DeletionOK(req[o])'
      BY <1>2, <1>4, <2>1 DEF Sound, DeletionOK
  <2>3. CASE ~(req[o].op \in {"grant", "deleteRole"} /\ req[o].pc \in {"scan", "write"})
      BY <2>1, <2>2, <2>3 DEF Sound, RoleWriteOK
  <2>4. CASE req[o].op \in {"grant", "deleteRole"} /\ req[o].pc \in {"scan", "write"}
    <3>1. req[o].role \in Roles
        BY <2>4, CallType DEF IInv, Idle, RoleWrite
    <3>2. ~Holding(t, req[o].role)
        BY <2>1, <2>4, <3>1 DEF Compatible, Holding
    <3>3. /\ roles'[req[o].role] = roles[req[o].role]
          /\ grants' \cap RowsOfRole(req[o].role) \subseteq grants
        BY <1>5, <3>1, <3>2
    <3> QED BY <1>2, <2>1, <2>2, <3>3 DEF Sound, RoleWriteOK
  <2> QED BY <2>2, <2>3, <2>4 DEF Sound
<1>7. CallInv'
    BY <1>1, <1>6, IdleSound DEF CallInv, Sound, DeletionOK, RoleWriteOK, Idle
<1>8. LockInv'
    BY <1>1, IdleSound, OfCall DEF LockInv, Compatible, Holding, Removing, Hanging, Idle
<1>9. GrantedRolesExist'
  <2> SUFFICES ASSUME NEW row \in grants' PROVE roles'[row[1]] \in Live
      BY DEF GrantedRolesExist
  <2>1. row \in grants => row[1] \in Roles /\ roles[row[1]] \in Live
      BY <1>2 DEF IInv, Kept, GrantedRolesExist, Rows
  <2>2. CASE t.op = "deleteMenu"
      BY <2>1, <2>2, AtCommit
  <2>3. CASE t.op = "grant"
      BY <2>1, <2>3, AtCommit DEF Live
  <2>4. CASE t.op = "deleteRole"
    <3>1. row \in grants /\ row \notin RowsOfRole(t.role)
        BY <2>4, AtCommit
    <3>2. row[1] # t.role
        BY <1>2, <3>1 DEF RowsOfRole
    <3> QED BY <1>2, <2>1, <2>4, <3>1, <3>2, AtCommit
  <2> QED BY <1>2, <2>2, <2>3, <2>4
<1> QED BY <1>7, <1>8, <1>9 DEF Kept

\* Nobody holds a role that is created, enabled or disabled.
LEMMA RoleInv ==
    ASSUME IInv, NEW r \in Roles, NEW state \in Live, \A o \in Requests : ~Holding(req[o], r),
           roles' = [roles EXCEPT ![r] = state], UNCHANGED <<menus, parent, links, grants, req>>
    PROVE  Kept'
<1>1. \A o \in Roles : roles'[o] = IF o = r THEN state ELSE roles[o]
    BY DEF IInv, TypeOK
<1>2. LockInv'
    BY DEF IInv, Kept, LockInv, Compatible, Holding, Removing, Hanging
<1>3. GrantedRolesExist'
    BY <1>1 DEF IInv, Kept, TypeOK, Rows, GrantedRolesExist
<1>4. ASSUME NEW o \in Requests PROVE Sound(req[o])'
  <2>1. Sound(req[o])
      BY OfCall
  <2>2. DeletionOK(req[o])'
      BY <2>1 DEF Sound, DeletionOK, HasChild, LiveMenu
  <2>3. CASE ~(req[o].op \in {"grant", "deleteRole"} /\ req[o].pc \in {"scan", "write"})
      BY <2>1, <2>2, <2>3 DEF Sound, RoleWriteOK
  <2>4. CASE req[o].op \in {"grant", "deleteRole"} /\ req[o].pc \in {"scan", "write"}
    <3>1. req[o].role \in Roles /\ req[o].role # r
        BY <2>4, CallType DEF IInv, Idle, RoleWrite, Holding
    <3>2. roles'[req[o].role] = roles[req[o].role]
        BY <1>1, <3>1
    <3> QED BY <2>1, <2>2, <3>2 DEF Sound, RoleWriteOK
  <2> QED BY <2>2, <2>3, <2>4 DEF Sound
<1> QED BY <1>2, <1>3, <1>4 DEF Kept, CallInv

\* A menu that is enabled or disabled is a child before and after.
LEMMA UpdateMenuInv ==
    ASSUME IInv, NEW m \in Menus, NEW enabled \in BOOLEAN, UpdateMenu(m, enabled)
    PROVE  Kept'
<1>1. UNCHANGED <<parent, roles, links, grants, req>>
    BY DEF UpdateMenu
<1>2. \A c \in Menus : LiveMenu(c)' => LiveMenu(c)
    BY DEF UpdateMenu, IInv, TypeOK, LiveMenu
<1>3. \A c : HasChild(c)' => HasChild(c)
    BY <1>1, <1>2 DEF HasChild
<1>4. ASSUME NEW o \in Requests PROVE Sound(req[o])'
    BY <1>1, <1>3, OfCall DEF Sound, DeletionOK, RoleWriteOK
<1>5. LockInv' /\ GrantedRolesExist'
    BY <1>1 DEF IInv, Kept, LockInv, Compatible, Holding, Removing, Hanging, GrantedRolesExist
<1> QED BY <1>4, <1>5 DEF Kept, CallInv

LEMMA NextInv == IInv /\ [Next]_vars => IInv'
<1> SUFFICES ASSUME IInv, [Next]_vars PROVE Kept'
    BY NextType DEF IInv
<1>1. ASSUME NEW q \in Requests, Arrive(q) PROVE Kept'
    BY <1>1, ArriveInv
<1>2. ASSUME NEW q \in Requests, Step(q) PROVE Kept'
    BY <1>2, CreationInv, DeletionInv, LockRoleInv, ScanInv, ClearRowInv, GrantInv,
       CommitMenuInv, CommitRowsInv DEF Step
<1>3. ASSUME NEW q \in Requests, Fail(q) PROVE Kept'
    BY <1>3, GivesUp DEF Fail, Proceed
<1>4. ASSUME NEW r \in Roles, CreateRole(r) PROVE Kept'
  <2>1. ASSUME NEW o \in Requests PROVE ~Holding(req[o], r)
      BY <1>4, OfCall DEF CreateRole, Holding, Sound, RoleWriteOK, Live
  <2> QED BY <1>4, <2>1, RoleInv DEF CreateRole, Live
<1>5. ASSUME NEW r \in Roles, NEW enabled \in BOOLEAN, UpdateRole(r, enabled) PROVE Kept'
    BY <1>5, Locks, RoleInv DEF UpdateRole, Live
<1>6. ASSUME NEW m \in Menus, NEW enabled \in BOOLEAN, UpdateMenu(m, enabled) PROVE Kept'
    BY <1>6, UpdateMenuInv
<1>7. CASE UNCHANGED vars
    BY <1>7 DEF vars, tables, IInv, Kept, CallInv, Sound, DeletionOK, RoleWriteOK, HasChild, LiveMenu,
       LockInv, Compatible, Holding, Removing, Hanging, GrantedRolesExist
<1> QED BY <1>1, <1>2, <1>3, <1>4, <1>5, <1>6, <1>7 DEF Next

\* What the locks guarantee is always so.
THEOREM LocksCorrect == Spec => []IInv
BY InitInv, NextInv, PTL DEF Spec

\* Grants and deletions may interleave in every way: no deleted role keeps a menu.
THEOREM DeletedRolesGrantNothing == Spec => []GrantedRolesExist
<1>1. IInv => GrantedRolesExist
    BY DEF IInv, Kept
<1> QED BY <1>1, LocksCorrect, PTL

-----------------------------------------------------------------------------
(* Deleting menus *)

\* Menus are deleted by CommitRows only, which finds no child.
LEMMA NextDeletion ==
    ASSUME IInv, [Next]_vars, NEW m \in Menus, LiveMenu(m), menus'[m] = "deleted"
    PROVE  ~HasChild(m)
<1>1. \/ \E q \in Requests : CommitRows(q)
      \/ \E q \in Requests : CommitMenu(q)
      \/ \E c \in Menus, enabled \in BOOLEAN : UpdateMenu(c, enabled)
      \/ menus' = menus
    BY QuietType, ArriveNext
       DEF Next, Step, Quiet, Fail, Proceed, CreateRole, UpdateRole, vars, tables, IInv
<1>2. menus[m] # "deleted" /\ menus \in [Menus -> State]
    BY DEF LiveMenu, Live, IInv, TypeOK
<1>3. CASE \E q \in Requests : CommitRows(q)
    BY <1>2, <1>3, AtCommit
<1>4. CASE \E q \in Requests : CommitMenu(q)
    BY <1>2, <1>4 DEF CommitMenu
<1>5. CASE \E c \in Menus, enabled \in BOOLEAN : UpdateMenu(c, enabled)
    BY <1>2, <1>5 DEF UpdateMenu
<1> QED BY <1>1, <1>2, <1>3, <1>4, <1>5

\* The check for children is not out of date when the deletion commits.
THEOREM NoChildLeft == Spec => DeletionLeavesNoChild
<1>1. IInv /\ [Next]_vars =>
        [\A m \in Menus : LiveMenu(m) /\ menus'[m] = "deleted" => ~HasChild(m)]_vars
    BY NextDeletion
<1> QED BY <1>1, LocksCorrect, PTL DEF Spec, DeletionLeavesNoChild

-----------------------------------------------------------------------------
(* No two requests wait for each other *)

\* A request that somebody waits for holds a lock, and so is about to commit or
\* is writing rows.
Holder(t) ==
    \/ t.op = "create" /\ t.pc = "commit"
    \/ t.op \in {"deleteMenu", "grant", "deleteRole"} /\ t.pc \in {"exists", "scan", "write"}

LEMMA WaitsForHolder ==
    ASSUME IInv, NEW q \in Requests, NEW o \in Requests, WaitsFor(q, o)
    PROVE  Holder(req[o])
<1>1. Sound(req[o])
    BY OfCall
<1>2. ASSUME NEW row, Written(o, row) PROVE Holder(req[o])
  <2>1. CASE req[o].op = "deleteMenu"
    <3>1. row \in req[o].cleared
        BY <1>2, <2>1 DEF Written
    <3>2. req[o].pc = "write"
        BY <1>1, <2>1, <3>1 DEF Sound, DeletionOK
    <3> QED BY <2>1, <3>2 DEF Holder
  <2>2. CASE req[o].op \in {"grant", "deleteRole"}
    <3>1. row \in req[o].cleared \/ row \in req[o].added
        BY <1>2, <2>2 DEF Written
    <3>2. req[o].pc = "write"
        BY <1>1, <2>2, <3>1 DEF Sound, RoleWriteOK
    <3> QED BY <2>2, <3>2 DEF Holder
  <2> QED BY <1>2, <2>1, <2>2 DEF Written, Writer
<1>3. \A m : Deleting(o, m) => Holder(req[o])
    BY DEF Deleting, Holder
<1>4. \A r : Held(o, r) => Holder(req[o])
    BY DEF Held, Holder
<1>5. CASE Does(q, "deleteMenu", "lock") /\ Keyed(o, req[q].menu)
  <2>1. CASE Does(o, "create", "commit")
      BY <2>1 DEF Does, Holder
  <2>2. CASE req[o].op = "grant" /\ req[o].fresh # {}
      BY <1>1, <2>2 DEF Sound, RoleWriteOK, Holder
  <2> QED BY <1>5, <2>1, <2>2 DEF Keyed
<1> QED BY <1>2, <1>3, <1>4, <1>5 DEF WaitsFor

\* A holder that waits is writing rows.
LEMMA HolderWaits ==
    ASSUME NEW q \in Requests, NEW o \in Requests, WaitsFor(q, o), Holder(req[q])
    PROVE  /\ Writer(q) /\ req[q].pc = "write"
           /\ \/ \E row \in req[q].todo : Written(o, row)
              \/ /\ req[q].op = "grant"
                 /\ \E row \in req[q].next : Written(o, row) \/ (TakesKey(row) /\ Deleting(o, row[2]))
BY DEF WaitsFor, Holder, Does, Writer

\* Two writers that wait for each other would have to be the deletion of a menu
\* and a writer of a role, which share one row: that which one of them waits for
\* the other has written.
LEMMA WritersApart ==
    ASSUME IInv, NEW q \in Requests, NEW o \in Requests, q # o,
           req[q].op = "deleteMenu", Holder(req[q]), Holder(req[o]),
           WaitsFor(q, o), WaitsFor(o, q)
    PROVE  FALSE
<1>1. /\ Sound(req[q]) /\ Sound(req[o]) /\ Compatible(req[q], req[o])
      /\ req[q].pc = "write" /\ req[o].pc = "write" /\ Writer(o)
    BY OfCall, HolderWaits
<1>2. req[q] \in Deletion
    BY CallType DEF IInv, Idle
<1>3. PICK row \in req[q].todo : Written(o, row)
    BY HolderWaits
<1>4. row \in links /\ row \in RowsOfMenu(req[q].menu) /\ row \notin req[q].cleared
    BY <1>1, <1>3 DEF Sound, DeletionOK
<1>5. CASE req[o].op = "deleteMenu"
  <2>1. row \in RowsOfMenu(req[o].menu)
      BY <1>1, <1>3, <1>5 DEF Written, Sound, DeletionOK
  <2>2. req[o].menu = req[q].menu
      BY <1>4, <2>1 DEF RowsOfMenu
  <2> QED BY <1>1, <1>2, <1>5, <2>2 DEF Compatible, Removing, Deletion
<1>6. CASE req[o].op \in {"grant", "deleteRole"}
  <2>1. row \in RowsOfRole(req[o].role)
      BY <1>1, <1>3, <1>6 DEF Written, Sound, RoleWriteOK
  <2>2. \A other \in RowsOfRole(req[o].role) \cap RowsOfMenu(req[q].menu) : other = row
      BY <1>4, <2>1 DEF RowsOfRole, RowsOfMenu, Rows
  <2>3. ASSUME NEW other \in req[o].todo \cup req[o].next, Written(q, other)
        PROVE  FALSE
    <3>1. other \in req[q].cleared
        BY <2>3 DEF Written
    <3>2. other \in RowsOfMenu(req[q].menu)
        BY <1>1, <3>1 DEF Sound, DeletionOK
    <3>3. other \in RowsOfRole(req[o].role)
        BY <1>1, <1>6, <2>3 DEF Sound, RoleWriteOK
    <3> QED BY <1>4, <2>2, <3>1, <3>2, <3>3
  <2>4. ASSUME NEW other \in req[o].next, TakesKey(other), Deleting(q, other[2])
        PROVE  FALSE
    <3>1. other \in RowsOfRole(req[o].role)
        BY <1>1, <1>6, <2>4 DEF Sound, RoleWriteOK
    <3>2. other \in RowsOfMenu(req[q].menu)
        BY <2>4, <3>1 DEF RowsOfRole, RowsOfMenu, Deleting
    <3> QED BY <1>4, <2>2, <2>4, <3>1, <3>2 DEF TakesKey
  <2> QED BY <2>3, <2>4, HolderWaits
<1> QED BY <1>1, <1>5, <1>6 DEF Writer

LEMMA InvNoTwoDeadlock == IInv => NoTwoDeadlock
<1> SUFFICES ASSUME IInv, NEW q \in Requests, NEW o \in Requests, q # o,
                    WaitsFor(q, o), WaitsFor(o, q)
             PROVE  FALSE
    BY DEF NoTwoDeadlock
<1>1. Holder(req[q]) /\ Holder(req[o])
    BY WaitsForHolder
<1>2. CASE req[q].op = "deleteMenu" \/ req[o].op = "deleteMenu"
    BY <1>1, <1>2, WritersApart
<1>3. CASE req[q].op # "deleteMenu" /\ req[o].op # "deleteMenu"
  <2>1. /\ req[q].op \in {"grant", "deleteRole"} /\ req[q].pc = "write"
        /\ req[o].op \in {"grant", "deleteRole"} /\ req[o].pc = "write"
        /\ Sound(req[q]) /\ Sound(req[o]) /\ Compatible(req[q], req[o])
      BY <1>1, <1>3, HolderWaits, OfCall DEF Writer
  <2>2. req[q].role \in Roles
      BY <2>1, CallType DEF IInv, Idle, RoleWrite
  <2>3. PICK row \in req[q].todo \cup req[q].next : Written(o, row)
      BY <1>1, <2>1, HolderWaits DEF Deleting
  <2>4. row \in RowsOfRole(req[q].role)
      BY <2>1, <2>3 DEF Sound, RoleWriteOK
  <2>5. row \in RowsOfRole(req[o].role)
      BY <2>1, <2>3 DEF Written, Sound, RoleWriteOK
  <2>6. req[q].role = req[o].role
      BY <2>4, <2>5 DEF RowsOfRole
  <2> QED BY <2>1, <2>2, <2>6 DEF Compatible, Holding
<1> QED BY <1>2, <1>3

\* Any two requests can be told apart by what they have locked: one of them goes
\* on, whatever menus, roles and lists there are.
THEOREM NoTwoWait == Spec => []NoTwoDeadlock
BY LocksCorrect, InvNoTwoDeadlock, PTL

-----------------------------------------------------------------------------
(* MenuTree shows every menu *)

Created == {m \in Menus : menus[m] # "absent"}

\* In every set of menus one hangs under none of the others.
Acyclic ==
    \A nodes \in SUBSET Created : nodes # {} => \E m \in nodes : parent[m] \notin nodes

\* A creation is of a menu that is not there yet, under one that is.
OnTree(t) ==
    /\ t.op = "create" => t.menu \notin Created /\ t.parent \in Created \cup {NoMenu}
    /\ t.op = "deleteMenu" => t.menu \in Created

\* Two creations are of two menus.
Apart(t, u) == t.op = "create" /\ u.op = "create" => t.menu # u.menu

ForestInv ==
    /\ Acyclic
    /\ \A m \in Created : parent[m] \in Created \cup {NoMenu}
    /\ \A q \in Requests : OnTree(req[q])
    /\ \A q, o \in Requests : q # o => Apart(req[q], req[o])

LEMMA InitForest == Init => ForestInv
BY DEF Init, ForestInv, Acyclic, Created, OnTree, Apart, Idle

\* A menu that hangs under one that was there before closes no cycle.
LEMMA Hangs ==
    ASSUME TypeOK, ForestInv, NEW m \in Menus \ Created, NEW p \in Created \cup {NoMenu},
           Created' = Created \cup {m}, parent' = [parent EXCEPT ![m] = p]
    PROVE  Acyclic' /\ \A c \in Created' : parent'[c] \in Created' \cup {NoMenu}
<1>1. parent'[m] = p /\ p # m /\ \A c \in Created : parent'[c] = parent[c] /\ parent[c] # m
    BY DEF TypeOK, ForestInv, Created
<1>2. ASSUME NEW nodes \in SUBSET Created', nodes # {}
      PROVE  \E c \in nodes : parent'[c] \notin nodes
  <2>1. CASE nodes \ {m} = {}
      BY <1>1, <1>2, <2>1
  <2>2. CASE nodes \ {m} # {}
    <3>1. nodes \ {m} \in SUBSET Created
        OBVIOUS
    <3>2. PICK c \in nodes \ {m} : parent[c] \notin nodes \ {m}
        BY <2>2, <3>1 DEF ForestInv, Acyclic
    <3> QED BY <1>1, <3>1, <3>2
  <2> QED BY <2>1, <2>2
<1>3. \A c \in Created' : parent'[c] \in Created' \cup {NoMenu}
    BY <1>1 DEF ForestInv
<1> QED BY <1>2, <1>3 DEF Acyclic

\* The request goes on about the same menu, or returns.
Continues(t, u) ==
    /\ u = Idle \/ u.op = t.op
    /\ u.op = "create" => u.menu = t.menu /\ u.parent = t.parent
    /\ u.op = "deleteMenu" => u.menu = t.menu

\* None of the fields that a step sets is one of those.
LEMMA Continued ==
    /\ \A t : Continues(t, Idle)
    /\ \A t \in Calls : \A a, b :
         /\ Continues(t, [t EXCEPT !.pc = a])
         /\ Continues(t, [t EXCEPT !.pc = a, !.todo = b])
         /\ Continues(t, [t EXCEPT !.todo = a])
         /\ Continues(t, [t EXCEPT !.next = a])
         /\ Continues(t, [t EXCEPT !.todo = a, !.cleared = b])
    /\ \A t \in Calls : \A a, b, c : Continues(t, [t EXCEPT !.next = a, !.added = b, !.fresh = c])
BY DEF Continues, Idle, Calls, Creation, Deletion, RoleWrite

\* A step that commits nothing leaves the menu and the parent of a request alone.
LEMMA SameCall ==
    ASSUME TypeOK, NEW q \in Requests, Quiet(q)
    PROVE  \E u : req' = [req EXCEPT ![q] = u] /\ Continues(req[q], u)
<1> DEFINE t == req[q]
<1>1. t \in Calls
  <2>1. t # Idle
    <3>1. CASE Scan(q)
        BY <3>1 DEF Scan
    <3>2. CASE ~Scan(q)
      <4>1. \/ Does(q, "create", "insert") \/ Does(q, "create", "key")
            \/ \E pc : Does(q, "deleteMenu", pc) \/ Does(q, "grant", pc) \/ Does(q, "deleteRole", pc)
            \/ Writer(q)
          BY <3>2 DEF Quiet, InsertMenu, KeyMenu, ListChildren, LockMenu, CheckChildren, LockRole,
             CheckMenu, ClearRow, PutRow, InsertRow
      <4> QED BY <4>1 DEF Does, Writer, Idle
    <3> QED BY <3>1, <3>2
  <2> QED BY <2>1, CallType
<1>2. CASE \/ InsertMenu(q) \/ KeyMenu(q)
           \/ ListChildren(q) \/ LockMenu(q) \/ CheckChildren(q) \/ LockRole(q)
  <2>1. \E pc : req' = [req EXCEPT ![q] = Idle] \/ req' = [req EXCEPT ![q] = [t EXCEPT !.pc = pc]]
      BY <1>2 DEF InsertMenu, KeyMenu, ListChildren, LockMenu, CheckChildren, LockRole, Proceed
  <2> QED BY <1>1, <2>1, Continued
<1>3. CASE Scan(q)
  <2>1. req' = [req EXCEPT ![q] = [t EXCEPT !.pc = "write", !.todo = Found(q)]]
      BY <1>3 DEF Scan, Proceed
  <2> QED BY <1>1, <2>1, Continued
<1>4. ASSUME NEW row \in Rows, CheckMenu(q, row)
      PROVE  \E u : req' = [req EXCEPT ![q] = u] /\ Continues(t, u)
  <2>1. \E todo : req' = [req EXCEPT ![q] = Idle] \/ req' = [req EXCEPT ![q] = [t EXCEPT !.todo = todo]]
      BY <1>4 DEF CheckMenu, Proceed
  <2> QED BY <1>1, <2>1, Continued
<1>5. ASSUME NEW row \in Rows, ClearRow(q, row)
      PROVE  \E u : req' = [req EXCEPT ![q] = u] /\ Continues(t, u)
  <2>1. PICK todo, cleared :
          req' = [req EXCEPT ![q] = [t EXCEPT !.todo = todo, !.cleared = cleared]]
      BY <1>5 DEF ClearRow, Proceed
  <2>2. Continues(t, [t EXCEPT !.todo = todo, !.cleared = cleared])
      BY <1>1, Continued
  <2> QED BY <2>1, <2>2
<1>6. ASSUME NEW row \in Rows, PutRow(q, row)
      PROVE  \E u : req' = [req EXCEPT ![q] = u] /\ Continues(t, u)
  <2>1. PICK added, fresh :
          \/ req' = [req EXCEPT ![q] = Idle]
          \/ req' = [req EXCEPT ![q] = [t EXCEPT !.next = {}, !.added = added, !.fresh = fresh]]
      BY <1>6 DEF PutRow, Proceed
  <2>2. Continues(t, Idle)
      BY Continued
  <2>3. Continues(t, [t EXCEPT !.next = {}, !.added = added, !.fresh = fresh])
      BY <1>1, Continued
  <2> QED BY <2>1, <2>2, <2>3
<1>7. ASSUME NEW m \in Menus, InsertRow(q, m)
      PROVE  \E u : req' = [req EXCEPT ![q] = u] /\ Continues(t, u)
  <2>1. \E next : req' = [req EXCEPT ![q] = Idle] \/ req' = [req EXCEPT ![q] = [t EXCEPT !.next = next]]
      BY <1>7 DEF InsertRow, Proceed
  <2> QED BY <1>1, <2>1, Continued
<1> QED BY <1>2, <1>3, <1>4, <1>5, <1>6, <1>7 DEF Quiet

\* What becomes of a request when the menus that exist stay what they are.
LEMMA CallForest ==
    ASSUME TypeOK, ForestInv, NEW q \in Requests, NEW u, req' = [req EXCEPT ![q] = u],
           UNCHANGED <<parent, Created>>, OnTree(u),
           \A o \in Requests \ {q} : Apart(u, req[o])
    PROVE  ForestInv'
<1>1. req'[q] = u /\ \A o \in Requests \ {q} : req'[o] = req[o]
    BY DEF TypeOK
<1>2. Acyclic' /\ \A m \in Created' : parent'[m] \in Created' \cup {NoMenu}
    BY DEF ForestInv, Acyclic
<1>3. ASSUME NEW o \in Requests PROVE OnTree(req[o])'
  <2>1. PICK t : t = req'[o] /\ OnTree(t)
      BY <1>1 DEF ForestInv
  <2> QED BY <2>1 DEF OnTree
<1>4. ASSUME NEW o \in Requests, NEW p \in Requests, o # p PROVE Apart(req'[o], req'[p])
    BY <1>1, <1>4 DEF ForestInv, Apart
<1>5. \A o, p \in Requests : o # p => Apart(req[o], req[p])'
    BY <1>4 DEF Apart
<1> QED BY <1>2, <1>3, <1>5 DEF ForestInv

\* A request that is idle, or a role's, is about no menu.
LEMMA IdleForest ==
    ASSUME TypeOK, ForestInv, NEW q \in Requests, NEW u, req' = [req EXCEPT ![q] = u],
           UNCHANGED <<parent, Created>>, u.op \notin {"create", "deleteMenu"}
    PROVE  ForestInv'
BY CallForest DEF OnTree, Apart

LEMMA ArriveForest ==
    ASSUME TypeOK, ForestInv, NEW q \in Requests, Arrive(q)
    PROVE  ForestInv'
<1>1. UNCHANGED <<parent, Created>>
    BY ArriveNext DEF tables, Created
<1>2. CASE \E m \in Menus, p \in Menus \cup {NoMenu} : StartCreate(q, m, p)
  <2>1. PICK m \in Menus, p \in Menus \cup {NoMenu} : StartCreate(q, m, p)
      BY <1>2
  <2>2. PICK u : u = [op |-> "create", pc |-> "insert", menu |-> m, parent |-> p]
      OBVIOUS
  <2>3. req' = [req EXCEPT ![q] = u]
      BY <2>1, <2>2 DEF StartCreate, Start
  <2>4. OnTree(u)
      BY <2>1, <2>2 DEF StartCreate, OnTree, Created
  <2>5. \A o \in Requests : Apart(u, req[o])
      BY <2>1, <2>2 DEF StartCreate, Apart
  <2> QED BY <1>1, <2>3, <2>4, <2>5, CallForest
<1>3. CASE \E m \in Menus : StartDeleteMenu(q, m)
  <2>1. PICK m \in Menus : StartDeleteMenu(q, m)
      BY <1>3
  <2>2. PICK u : u = [op |-> "deleteMenu", pc |-> "list", menu |-> m, todo |-> {}, cleared |-> {}]
      OBVIOUS
  <2>3. req' = [req EXCEPT ![q] = u]
      BY <2>1, <2>2 DEF StartDeleteMenu, Start
  <2>4. OnTree(u) /\ \A o \in Requests : Apart(u, req[o])
      BY <2>1, <2>2 DEF StartDeleteMenu, LiveMenu, Live, OnTree, Apart, Created
  <2> QED BY <1>1, <2>3, <2>4, CallForest
<1>4. CASE \/ \E r \in Roles, list \in Lists : StartGrant(q, r, list)
           \/ \E r \in Roles : StartDeleteRole(q, r)
  <2>1. \A r, list : /\ Call("grant", "check", r, list).op = "grant"
                     /\ Call("deleteRole", "lock", r, list).op = "deleteRole"
      BY DEF Call
  <2>2. PICK u : req' = [req EXCEPT ![q] = u] /\ u.op \in {"grant", "deleteRole"}
      BY <1>4, <2>1 DEF StartGrant, StartDeleteRole, Start
  <2> QED BY <1>1, <2>2, IdleForest
<1> QED BY <1>2, <1>3, <1>4 DEF Arrive

LEMMA QuietForest ==
    ASSUME TypeOK, ForestInv, NEW q \in Requests, Quiet(q)
    PROVE  ForestInv'
<1>1. UNCHANGED <<parent, Created>>
    BY QuietType DEF tables, Created
<1>2. PICK u : req' = [req EXCEPT ![q] = u] /\ Continues(req[q], u)
    BY SameCall
<1>3. OnTree(u) /\ \A o \in Requests \ {q} : Apart(u, req[o])
    BY <1>2 DEF Continues, ForestInv, OnTree, Apart, Idle
<1> QED BY <1>1, <1>2, <1>3, CallForest

\* The one step that hangs a menu: the request was the only one about it.
LEMMA CommitMenuForest ==
    ASSUME TypeOK, ForestInv, NEW q \in Requests, CommitMenu(q)
    PROVE  ForestInv'
<1>1. PICK t \in Creation : t = req[q] /\ OnTree(t) /\ t.op = "create"
    BY CallType DEF CommitMenu, Does, Idle, ForestInv
<1>2. t.menu \in Menus \ Created /\ t.parent \in Created \cup {NoMenu}
    BY <1>1 DEF OnTree, Creation
<1>3. Created' = Created \cup {t.menu}
    BY <1>1, <1>2 DEF CommitMenu, Created, TypeOK
<1>4. parent' = [parent EXCEPT ![t.menu] = t.parent]
    BY <1>1 DEF CommitMenu
<1>5. Acyclic' /\ \A m \in Created' : parent'[m] \in Created' \cup {NoMenu}
    BY <1>2, <1>3, <1>4, Hangs
<1>6. req'[q] = Idle /\ \A o \in Requests \ {q} : req'[o] = req[o]
    BY DEF CommitMenu, TypeOK
<1>7. \A o \in Requests \ {q} : OnTree(req[o]) /\ Apart(t, req[o])
    BY <1>1 DEF ForestInv
<1>8. \A o \in Requests : OnTree(req[o])'
  <2>1. ASSUME NEW o \in Requests \ {q} PROVE OnTree(req[o])'
      BY <1>1, <1>3, <1>6, <1>7 DEF OnTree, Apart
  <2> QED BY <1>6, <2>1 DEF OnTree, Idle
<1>9. \A o, p \in Requests : o # p => Apart(req[o], req[p])'
    BY <1>6 DEF ForestInv, Apart, Idle
<1> QED BY <1>5, <1>8, <1>9 DEF ForestInv

LEMMA NextForest == TypeOK /\ ForestInv /\ [Next]_vars => ForestInv'
<1> SUFFICES ASSUME TypeOK, ForestInv, [Next]_vars PROVE ForestInv'
    OBVIOUS
<1>1. ASSUME NEW q \in Requests, CommitRows(q) PROVE ForestInv'
  <2>1. req[q].op = "deleteMenu" => req[q].menu \in Created
      BY DEF ForestInv, OnTree
  <2>2. UNCHANGED <<parent, Created>> /\ req' = [req EXCEPT ![q] = Idle]
      BY <1>1, <2>1 DEF CommitRows, Created
  <2> QED BY <2>2, IdleForest DEF Idle
<1>2. ASSUME NEW q \in Requests, Fail(q) PROVE ForestInv'
  <2>1. UNCHANGED <<parent, Created>> /\ req' = [req EXCEPT ![q] = Idle]
      BY <1>2 DEF Fail, Proceed, tables, Created
  <2> QED BY <2>1, IdleForest DEF Idle
<1>3. CASE UNCHANGED <<parent, Created, req>>
    BY <1>3 DEF ForestInv, Acyclic, OnTree, Apart
<1>4. ASSUME NEW m \in Menus, NEW enabled \in BOOLEAN, UpdateMenu(m, enabled)
      PROVE  UNCHANGED <<parent, Created, req>>
    BY <1>4 DEF UpdateMenu, LiveMenu, Live, Created, TypeOK
<1>5. ASSUME \/ \E r \in Roles : CreateRole(r)
             \/ \E r \in Roles, enabled \in BOOLEAN : UpdateRole(r, enabled)
             \/ UNCHANGED vars
      PROVE  UNCHANGED <<parent, Created, req>>
    BY <1>5 DEF CreateRole, UpdateRole, vars, tables, Created
<1> QED BY <1>1, <1>2, <1>3, <1>4, <1>5, ArriveForest, QuietForest, CommitMenuForest
        DEF Next, Step, Quiet

\* No menu is its own ancestor, and every menu that was ever created hangs under
\* another one or is a root, whoever creates and deletes beside it.
THEOREM MenusFormForest == Spec => []ForestInv
BY InitForest, NextForest, TypeCorrect, PTL DEF Spec

\* In a list without a missing parent the menus that a closed set leaves out would
\* all hang under one another.
LEMMA AcyclicShowsAll == Acyclic => TreeShowsAll
<1> SUFFICES ASSUME Acyclic, NEW s \in Scopes, ~TreeFails(s),
                    NEW nodes \in SUBSET Listed(s), ClosedUnder(s, nodes)
             PROVE  Listed(s) \subseteq nodes
    BY DEF TreeShowsAll, Below
<1> DEFINE lost == Listed(s) \ nodes
<1>1. lost \in SUBSET Created
    BY DEF Listed, LiveMenu, Live, Created
<1>2. ASSUME lost # {} PROVE FALSE
  <2>1. PICK m \in lost : parent[m] \notin lost
      BY <1>1, <1>2 DEF Acyclic
  <2>2. parent[m] \in Listed(s) \cup {NoMenu}
      BY <2>1 DEF TreeFails
  <2>3. m \in nodes
      BY <2>1, <2>2 DEF ClosedUnder
  <2> QED BY <2>1, <2>3
<1> QED BY <1>2

\* The tree leaves out no menu of the list, unless MenuTree says that it fails.
THEOREM TreeIsComplete == Spec => []TreeShowsAll
<1>1. ForestInv => TreeShowsAll
    BY AcyclicShowsAll DEF ForestInv
<1> QED BY <1>1, MenusFormForest, PTL

-----------------------------------------------------------------------------
(* The transactions implement RoleMenuGrants *)

\* roles and role_menus as RoleMenuGrants sees them.
MenusOfRoles == [r \in Roles |-> {m \in Menus : <<r, m>> \in grants}]

DeletedRoles == {r \in Roles : roles[r] = "deleted"}

LEMMA InitGrants == Init => Granted!GrantInit
BY DEF Init, Granted!GrantInit

\* Nothing is seen of a step that changes neither.
LEMMA Stutter ==
    ASSUME UNCHANGED <<MenusOfRoles, DeletedRoles>>
    PROVE  UNCHANGED Granted!grantVars
BY DEF MenusOfRoles, DeletedRoles, Granted!grantVars

\* A grant commits: the role has the menus of the list, and the others what they
\* had.
LEMMA GrantStep ==
    ASSUME IInv, NEW q \in Requests, CommitRows(q), req[q].op = "grant"
    PROVE  Granted!GrantNext
<1>1. PICK r \in Roles, list \in Lists :
           /\ roles[r] = "enabled" /\ roles' = roles
           /\ grants' = (grants \ RowsOfRole(r)) \cup ({r} \X list)
    BY AtCommit
<1>2. \A m \in Menus : <<r, m>> \in grants' <=> m \in list
    BY <1>1 DEF RowsOfRole, Rows
<1>3. \A o \in Roles \ {r}, m \in Menus : <<o, m>> \in grants' <=> <<o, m>> \in grants
    BY <1>1 DEF RowsOfRole
<1>4. MenusOfRoles' = [MenusOfRoles EXCEPT ![r] = list]
    BY <1>2, <1>3 DEF MenusOfRoles
<1>5. r \notin DeletedRoles /\ UNCHANGED DeletedRoles
    BY <1>1 DEF DeletedRoles
<1>6. Granted!Grant(r, list)
    BY <1>4, <1>5 DEF Granted!Grant, MenusOfRoles, DeletedRoles
<1> QED BY <1>6 DEF Granted!GrantNext

\* The deletion of a menu commits: some roles may keep it, those of a grant that
\* it did not see.
LEMMA UnlinkStep ==
    ASSUME IInv, NEW q \in Requests, CommitRows(q), req[q].op = "deleteMenu"
    PROVE  Granted!GrantNext
<1>1. PICK m \in Menus :
           /\ grants \ RowsOfMenu(m) \subseteq grants' /\ grants' \subseteq grants
           /\ roles' = roles
    BY AtCommit
<1>2. PICK keeping \in SUBSET Roles : keeping = {r \in Roles : <<r, m>> \in grants'}
    OBVIOUS
<1>3. \A r \in Roles, o \in Menus :
        <<r, o>> \in grants' <=> <<r, o>> \in grants /\ (o = m => r \in keeping)
    BY <1>1, <1>2 DEF RowsOfMenu
<1>4. MenusOfRoles' =
        [r \in Roles |-> IF r \in keeping THEN MenusOfRoles[r] ELSE MenusOfRoles[r] \ {m}]
  <2>1. \A r \in Roles : MenusOfRoles'[r] =
          IF r \in keeping THEN MenusOfRoles[r] ELSE MenusOfRoles[r] \ {m}
      BY <1>3 DEF MenusOfRoles
  <2> QED BY <2>1 DEF MenusOfRoles
<1>5. UNCHANGED DeletedRoles
    BY <1>1 DEF DeletedRoles
<1>6. Granted!Unlink(m, keeping)
    BY <1>4, <1>5 DEF Granted!Unlink, MenusOfRoles, DeletedRoles
<1> QED BY <1>6 DEF Granted!GrantNext

\* The deletion of a role commits: it has no menus any more.
LEMMA EndStep ==
    ASSUME IInv, NEW q \in Requests, CommitRows(q), req[q].op = "deleteRole"
    PROVE  Granted!GrantNext
<1>1. PICK r \in Roles :
           /\ roles' = [roles EXCEPT ![r] = "deleted"]
           /\ grants' = grants \ RowsOfRole(r)
    BY AtCommit
<1>2. \A o \in Roles, m \in Menus : <<o, m>> \in grants' <=> <<o, m>> \in grants /\ o # r
  <2>1. \A o \in Roles, m \in Menus : <<o, m>> \in RowsOfRole(r) <=> o = r
      BY DEF RowsOfRole, Rows
  <2> QED BY <1>1, <2>1
<1>3. MenusOfRoles' = [MenusOfRoles EXCEPT ![r] = {}]
  <2>1. \A o \in Roles : {m \in Menus : <<o, m>> \in grants'} =
          IF o = r THEN {} ELSE {m \in Menus : <<o, m>> \in grants}
      BY <1>2
  <2> QED BY <2>1 DEF MenusOfRoles
<1>4. DeletedRoles' = DeletedRoles \cup {r}
    BY <1>1 DEF DeletedRoles, IInv, TypeOK
<1>5. Granted!End(r)
    BY <1>3, <1>4 DEF Granted!End, MenusOfRoles, DeletedRoles
<1> QED BY <1>5 DEF Granted!GrantNext

\* A role that is created, enabled or disabled is not deleted.
LEMMA RoleStep ==
    ASSUME IInv, NEW r \in Roles,
           CreateRole(r) \/ \E enabled \in BOOLEAN : UpdateRole(r, enabled)
    PROVE  UNCHANGED <<MenusOfRoles, DeletedRoles>>
<1>1. UNCHANGED grants /\ \A o \in Roles : roles'[o] = "deleted" <=> roles[o] = "deleted"
    BY DEF CreateRole, UpdateRole, Live, IInv, TypeOK
<1> QED BY <1>1 DEF MenusOfRoles, DeletedRoles

LEMMA NextGrants == IInv /\ [Next]_vars => [Granted!GrantNext]_(Granted!grantVars)
<1> SUFFICES ASSUME IInv, [Next]_vars
             PROVE  Granted!GrantNext \/ UNCHANGED <<MenusOfRoles, DeletedRoles>>
    BY Stutter
<1>1. CASE UNCHANGED <<roles, grants>>
    BY <1>1 DEF MenusOfRoles, DeletedRoles
<1>2. ASSUME NEW q \in Requests, CommitRows(q) PROVE Granted!GrantNext
    BY <1>2, AtCommit, GrantStep, UnlinkStep, EndStep
<1>3. ASSUME NEW r \in Roles, CreateRole(r) \/ \E enabled \in BOOLEAN : UpdateRole(r, enabled)
      PROVE  UNCHANGED <<MenusOfRoles, DeletedRoles>>
    BY <1>3, RoleStep
<1>4. ASSUME NEW q \in Requests, Arrive(q) \/ Quiet(q) \/ CommitMenu(q) \/ Fail(q)
      PROVE  UNCHANGED <<roles, grants>>
    BY <1>4, ArriveNext, QuietType DEF CommitMenu, Fail, Proceed, tables, IInv
<1>5. ASSUME NEW m \in Menus, NEW enabled \in BOOLEAN, UpdateMenu(m, enabled)
      PROVE  UNCHANGED <<roles, grants>>
    BY <1>5 DEF UpdateMenu
<1>6. CASE UNCHANGED vars
    BY <1>1, <1>6 DEF vars, tables
<1> QED BY <1>1, <1>2, <1>3, <1>4, <1>5, <1>6 DEF Next, Step, Quiet

\* Whatever runs beside them, granting menus to a role and deleting a role or a
\* menu look to everybody else like one step each.
THEOREM GrantsAreAtomic == Spec => ImplementsGrants
BY LocksCorrect, InitGrants, NextGrants, PTL DEF Spec, ImplementsGrants, Granted!GrantSpec
=============================================================================
