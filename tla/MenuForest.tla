------------------------------ MODULE MenuForest ------------------------------
(***************************************************************************)
(* The tables menus and role_menus: the tree of menus and buttons of a      *)
(* service resource, and the menus granted to its roles.                    *)
(*                                                                         *)
(* Handlers read first (PermissionService) and then write in a statement or *)
(* a transaction (MenuRepository, RoleRepository), at READ COMMITTED.  What *)
(* keeps writers apart are row locks: of a role (FOR UPDATE), of a menu     *)
(* (FOR UPDATE against the KEY SHARE of a foreign key) and of the rows a    *)
(* transaction has written.  Triggers read without locking.                 *)
(***************************************************************************)

CONSTANTS
    Scopes,             \* service resource keys
    Menus,              \* menu ids
    Buttons,            \* the menus whose type is button; never updated
    Roles,              \* role ids
    ScopeOfMenu,        \* menus.service_resource, never updated
    ScopeOfRole,        \* roles.service_resource, never updated
    Lists,              \* the lists of menus clients grant
    Requests,           \* HTTP requests being served at the same time
    NoMenu              \* the parent of a root

ASSUME MenuAssumption ==
    /\ Buttons \subseteq Menus
    /\ ScopeOfMenu \in [Menus -> Scopes]
    /\ ScopeOfRole \in [Roles -> Scopes]
    /\ Lists \subseteq SUBSET Menus
    /\ NoMenu \notin Menus

VARIABLES
    menus,              \* enabled / is_deleted of each menu
    parent,             \* menus.parent_id
    roles,              \* enabled / is_deleted of each role
    links,              \* the rows of role_menus that exist, deleted or not
    grants,             \* those that are live
    req                 \* what each request is doing

tables == <<menus, parent, roles, links, grants>>
vars == <<tables, req>>

Rows == Roles \X Menus

State == {"absent", "enabled", "disabled", "deleted"}

Idle == [op |-> "idle"]

\* CreateMenu: the parent is read, read again by the trigger, then locked by
\* the foreign key.
Creation == [op : {"create"}, pc : {"insert", "key", "commit"},
             menu : Menus, parent : Menus \cup {NoMenu}]

\* DeleteMenu: todo and cleared are rows of role_menus, found and written.
Deletion == [op : {"deleteMenu"}, pc : {"list", "lock", "exists", "scan", "write"},
             menu : Menus, todo : SUBSET Rows, cleared : SUBSET Rows]

\* GrantRoleMenus and DeleteRole: next is the row whose trigger has run, fresh
\* are the rows that did not exist, whose foreign key locks the menu.
RoleWrite == [op : {"grant", "deleteRole"}, pc : {"check", "lock", "scan", "write"},
              role : Roles, list : SUBSET Menus, todo : SUBSET Rows,
              cleared : SUBSET Rows, next : SUBSET Rows,
              added : SUBSET Rows, fresh : SUBSET Rows]

TypeOK ==
    /\ menus \in [Menus -> State]
    /\ parent \in [Menus -> Menus \cup {NoMenu}]
    /\ roles \in [Roles -> State]
    /\ links \subseteq Rows
    /\ grants \subseteq links
    /\ req \in [Requests -> Creation \cup Deletion \cup RoleWrite \cup {Idle}]

Init ==
    /\ menus = [m \in Menus |-> "absent"]
    /\ parent = [m \in Menus |-> NoMenu]
    /\ roles = [r \in Roles |-> "absent"]
    /\ links = {}
    /\ grants = {}
    /\ req = [q \in Requests |-> Idle]

-----------------------------------------------------------------------------
Live == {"enabled", "disabled"}

LiveMenu(m) == menus[m] \in Live

Does(q, op, pc) == req[q].op = op /\ req[q].pc = pc

Start(q, call) ==
    /\ req[q] = Idle
    /\ req' = [req EXCEPT ![q] = call]
    /\ UNCHANGED tables

\* The handler goes on to `next`, or returns an error and rolls back.
Proceed(q, ok, next) ==
    /\ req' = [req EXCEPT ![q] = IF ok THEN next ELSE Idle]
    /\ UNCHANGED tables

HasChild(m) == \E c \in Menus : LiveMenu(c) /\ parent[c] = m

-----------------------------------------------------------------------------
(* Creating and updating menus *)

\* CreateMenu up to the read of the parent, which must be an enabled menu of
\* the scope; a root has none to read, a button needs one.
StartCreate(q, m, p) ==
    /\ menus[m] = "absent"
    /\ \A o \in Requests : req[o].op = "create" => req[o].menu # m
    /\ IF p = NoMenu THEN m \notin Buttons
       ELSE /\ menus[p] = "enabled"
            /\ p \notin Buttons
            /\ ScopeOfMenu[p] = ScopeOfMenu[m]
    /\ Start(q, [op |-> "create", pc |-> "insert", menu |-> m, parent |-> p])

\* INSERT: the trigger reads the parent again, without locking it.
InsertMenu(q) ==
    /\ Does(q, "create", "insert")
    /\ Proceed(q, req[q].parent = NoMenu \/ LiveMenu(req[q].parent),
               [req[q] EXCEPT !.pc = "key"])

\* DeleteMenu holds the menu FOR UPDATE.
Deleting(o, m) ==
    /\ req[o].op = "deleteMenu" /\ req[o].menu = m
    /\ req[o].pc \in {"exists", "scan", "write"}

\* The foreign key, at the end of the statement: KEY SHARE on the parent, which
\* a deletion under way delays; only id and service_resource are compared then,
\* and they never change.
KeyMenu(q) ==
    /\ Does(q, "create", "key")
    /\ \A o \in Requests : ~Deleting(o, req[q].parent)
    /\ Proceed(q, TRUE, [req[q] EXCEPT !.pc = "commit"])

CommitMenu(q) ==
    /\ Does(q, "create", "commit")
    /\ menus' = [menus EXCEPT ![req[q].menu] = "enabled"]
    /\ parent' = [parent EXCEPT ![req[q].menu] = req[q].parent]
    /\ req' = [req EXCEPT ![q] = Idle]
    /\ UNCHANGED <<roles, links, grants>>

\* UpdateMenu: parent, type and scope stay; the UPDATE waits for a deletion of
\* the menu, not for the KEY SHARE of a foreign key.
UpdateMenu(m, enabled) ==
    /\ LiveMenu(m)
    /\ \A o \in Requests : ~Deleting(o, m)
    /\ menus' = [menus EXCEPT ![m] = IF enabled THEN "enabled" ELSE "disabled"]
    /\ UNCHANGED <<parent, roles, links, grants, req>>

-----------------------------------------------------------------------------
(* Deleting a menu *)

StartDeleteMenu(q, m) ==
    /\ LiveMenu(m)
    /\ Start(q, [op |-> "deleteMenu", pc |-> "list", menu |-> m, todo |-> {}, cleared |-> {}])

\* DeleteMenu lists the scope's menus and refuses if one is a child.
ListChildren(q) ==
    /\ Does(q, "deleteMenu", "list")
    /\ Proceed(q, ~HasChild(req[q].menu), [req[q] EXCEPT !.pc = "lock"])

\* Faulty: the foreign key of a menu's parent takes no lock.
KeyedByGrants(o, m) ==
    req[o].op = "grant" /\ \E row \in req[o].fresh : row[2] = m

\* An open transaction holds the menu FOR KEY SHARE, for a foreign key.
Keyed(o, m) ==
    \/ Does(o, "create", "commit") /\ req[o].parent = m
    \/ req[o].op = "grant" /\ \E row \in req[o].fresh : row[2] = m

\* SoftDelete: SELECT ... FOR UPDATE.
LockMenu(q) ==
    LET m == req[q].menu IN
    /\ Does(q, "deleteMenu", "lock")
    /\ \A o \in Requests : ~Deleting(o, m) /\ ~Keyed(o, m)
    /\ Proceed(q, LiveMenu(m), [req[q] EXCEPT !.pc = "exists"])

\* SELECT EXISTS (children), with the menu locked.
CheckChildren(q) ==
    /\ Does(q, "deleteMenu", "exists")
    /\ Proceed(q, ~HasChild(req[q].menu), [req[q] EXCEPT !.pc = "scan"])

-----------------------------------------------------------------------------
(* Granting menus to a role, and deleting a role *)

CreateRole(r) ==
    /\ roles[r] = "absent"
    /\ roles' = [roles EXCEPT ![r] = "enabled"]
    /\ UNCHANGED <<menus, parent, links, grants, req>>

\* Faulty: the SELECT has no FOR UPDATE.
HeldByDeletion(o, r) == req[o].op = "deleteRole" /\ req[o].role = r /\ req[o].pc # "lock"

\* The role is held FOR UPDATE by a grant, or written by a deletion.
Held(o, r) ==
    /\ req[o].op \in {"grant", "deleteRole"}
    /\ req[o].role = r
    /\ req[o].pc \in {"scan", "write"}

UpdateRole(r, enabled) ==
    /\ roles[r] \in Live
    /\ \A o \in Requests : ~Held(o, r)
    /\ roles' = [roles EXCEPT ![r] = IF enabled THEN "enabled" ELSE "disabled"]
    /\ UNCHANGED <<menus, parent, links, grants, req>>

Call(op, pc, r, list) ==
    [op |-> op, pc |-> pc, role |-> r, list |-> list, todo |-> {r} \X list,
     cleared |-> {}, next |-> {}, added |-> {}, fresh |-> {}]

\* GrantRoleMenus, with its read of the role.
StartGrant(q, r, list) ==
    /\ roles[r] = "enabled"
    /\ Start(q, Call("grant", "check", r, list))

\* Each menu is read in its turn.
CheckMenu(q, row) ==
    /\ Does(q, "grant", "check")
    /\ row \in req[q].todo
    /\ Proceed(q, menus[row[2]] = "enabled" /\ ScopeOfMenu[row[2]] = ScopeOfRole[row[1]],
               [req[q] EXCEPT !.todo = req[q].todo \ {row}])

StartDeleteRole(q, r) == Start(q, Call("deleteRole", "lock", r, {}))

\* ReplaceMenus: SELECT ... FOR UPDATE of an enabled role; SoftDelete: UPDATE.
LockRole(q) ==
    /\ Does(q, "grant", "check") \/ Does(q, "deleteRole", "lock")
    /\ req[q].todo = {}
    /\ \A o \in Requests : ~Held(o, req[q].role)
    /\ Proceed(q, roles[req[q].role] \in (IF req[q].op = "grant" THEN {"enabled"} ELSE Live),
               [req[q] EXCEPT !.pc = "scan"])

-----------------------------------------------------------------------------
(* Writing role_menus *)

\* Faulty: the ids of the menus are collected instead of the rows.
FoundMenuIDs(q) == {row[2] : row \in grants}

\* The rows the clearing UPDATE of a request finds: live and committed.
Found(q) == {row \in grants :
               IF req[q].op = "deleteMenu" THEN row[2] = req[q].menu
                                           ELSE row[1] = req[q].role}

Scan(q) ==
    /\ req[q] # Idle /\ req[q].pc = "scan"
    /\ Proceed(q, TRUE, [req[q] EXCEPT !.pc = "write", !.todo = Found(q)])

Writer(o) == req[o].op \in {"deleteMenu", "grant", "deleteRole"}

Written(o, row) ==
    Writer(o) /\ (row \in req[o].cleared \/ (req[o].op # "deleteMenu" /\ row \in req[o].added))

Free(q, row) == \A o \in Requests \ {q} : ~Written(o, row)

\* One of the rows found, if it is still live once nobody else holds it.
ClearRow(q, row) ==
    /\ Writer(q) /\ req[q].pc = "write"
    /\ row \in req[q].todo
    /\ Free(q, row)
    /\ Proceed(q, TRUE, [req[q] EXCEPT !.todo = req[q].todo \ {row},
                                      !.cleared = req[q].cleared \cup ({row} \cap grants)])

\* INSERT of one listed menu: the trigger reads the menu without locking it.
InsertRow(q, m) ==
    /\ Does(q, "grant", "write")
    /\ req[q].todo = {} /\ req[q].next = {}
    /\ m \in req[q].list /\ <<req[q].role, m>> \notin req[q].added
    /\ Proceed(q, LiveMenu(m) /\ ScopeOfMenu[m] = ScopeOfRole[req[q].role],
               [req[q] EXCEPT !.next = {<<req[q].role, m>>}])

\* Faulty: rows are deleted and inserted again.
TakesKeyAlways(row) == TRUE

\* A row that does not exist yet is inserted and locks its menu for the foreign
\* key; one that exists is updated, which leaves its key alone.
TakesKey(row) == row \notin links

\* Then the row: an old one is updated once it is free, and its trigger runs
\* again.
PutRow(q, row) ==
    /\ Does(q, "grant", "write")
    /\ row \in req[q].next
    /\ Free(q, row)
    /\ TakesKey(row) => \A o \in Requests : ~Deleting(o, row[2])
    /\ Proceed(q, row \notin links \/ LiveMenu(row[2]),
               [req[q] EXCEPT !.next = {}, !.added = req[q].added \cup {row},
                              !.fresh = req[q].fresh \cup (IF TakesKey(row) THEN {row} ELSE {})])

\* COMMIT of a transaction that writes role_menus.
CommitRows(q) ==
    LET c == req[q]
        added == IF c.op = "deleteMenu" THEN {} ELSE c.added
    IN
    /\ Writer(q) /\ c.pc = "write" /\ c.todo = {}
    /\ c.op = "grant" => added = {c.role} \X c.list
    /\ grants' = (grants \ c.cleared) \cup added
    /\ links' = links \cup added
    /\ menus' = [m \in Menus |-> IF c.op = "deleteMenu" /\ m = c.menu THEN "deleted" ELSE menus[m]]
    /\ roles' = [r \in Roles |-> IF c.op = "deleteRole" /\ r = c.role THEN "deleted" ELSE roles[r]]
    /\ req' = [req EXCEPT ![q] = Idle]
    /\ UNCHANGED parent

\* The database, the process or the client fails; PostgreSQL breaks a deadlock;
\* a code is taken.
Fail(q) == req[q] # Idle /\ Proceed(q, FALSE, Idle)

-----------------------------------------------------------------------------
Step(q) ==
    \/ InsertMenu(q) \/ KeyMenu(q) \/ CommitMenu(q)
    \/ ListChildren(q) \/ LockMenu(q) \/ CheckChildren(q)
    \/ LockRole(q) \/ Scan(q) \/ CommitRows(q)
    \/ \E row \in Rows : CheckMenu(q, row) \/ ClearRow(q, row) \/ PutRow(q, row)
    \/ \E m \in Menus : InsertRow(q, m)

Arrive(q) ==
    \/ \E m \in Menus, p \in Menus \cup {NoMenu} : StartCreate(q, m, p)
    \/ \E m \in Menus : StartDeleteMenu(q, m)
    \/ \E r \in Roles, list \in Lists : StartGrant(q, r, list)
    \/ \E r \in Roles : StartDeleteRole(q, r)

Next ==
    \/ \E q \in Requests : Arrive(q) \/ Step(q) \/ Fail(q)
    \/ \E r \in Roles : CreateRole(r)
    \/ \E r \in Roles, enabled \in BOOLEAN : UpdateRole(r, enabled)
    \/ \E m \in Menus, enabled \in BOOLEAN : UpdateMenu(m, enabled)

Spec == Init /\ [][Next]_vars

-----------------------------------------------------------------------------
(* MenuTree *)

Listed(s) == {m \in Menus : LiveMenu(m) /\ ScopeOfMenu[m] = s}

\* Faulty: a node whose parent is missing is left out.
TreeNeverFails(s) == FALSE

\* A parent is missing from the list: MenuTree answers with a conflict.
TreeFails(s) == \E m \in Listed(s) : parent[m] \notin Listed(s) \cup {NoMenu}

\* A set that has the roots of the list and, with a menu, its children.
ClosedUnder(s, nodes) ==
    \A m \in Listed(s) : parent[m] \in nodes \cup {NoMenu} => m \in nodes

\* The nodes of the tree: the roots and what hangs, however deep, under them.
Below(s) ==
    {m \in Listed(s) : \A nodes \in SUBSET Listed(s) : ClosedUnder(s, nodes) => m \in nodes}

-----------------------------------------------------------------------------
(* Properties *)

\* A deleted role has no menus: a grant holds the role FOR UPDATE until it
\* commits, and SoftDelete finds its rows afterwards (ReplaceMenus, SoftDelete).
GrantedRolesExist == \A row \in grants : roles[row[1]] \in Live

\* At the moment its deletion commits a menu has no child: the menu is locked
\* before the children are looked for, and a child that is being created holds
\* the menu FOR KEY SHARE (SoftDelete, the foreign key of parent_id).
DeletionLeavesNoChild ==
    [][\A m \in Menus : LiveMenu(m) /\ menus'[m] = "deleted" => ~HasChild(m)]_vars

\* Unless MenuTree answers with an error, every live menu is in the tree it
\* returns: nothing hangs on a cycle or under a node that is not there.
TreeShowsAll ==
    \A s \in Scopes : TreeFails(s) \/ Below(s) = Listed(s)

\* What a role is granted, as the console sees it.
Granted == INSTANCE RoleMenuGrants WITH
    granted <- [r \in Roles |-> {m \in Menus : <<r, m>> \in grants}],
    ended <- {r \in Roles : roles[r] = "deleted"}

\* ReplaceMenus replaces all of a role's menus at once, whatever runs beside it
\* (the FOR UPDATE on the role): the transactions implement RoleMenuGrants.
ImplementsGrants == Granted!GrantSpec

\* The parent of a live menu is live.
ParentsLive ==
    \A m \in Menus : LiveMenu(m) /\ parent[m] # NoMenu => LiveMenu(parent[m])

\* A deleted menu is not granted to anybody any more.
GrantedMenusLive == \A row \in grants : LiveMenu(row[2])

\* Request q waits for a lock that o holds, or will if nothing changes.
WaitsFor(q, o) ==
    \/ Does(q, "create", "key") /\ Deleting(o, req[q].parent)
    \/ /\ Does(q, "deleteMenu", "lock")
       /\ Deleting(o, req[q].menu) \/ Keyed(o, req[q].menu)
    \/ /\ Does(q, "grant", "check") \/ Does(q, "deleteRole", "lock")
       /\ Held(o, req[q].role)
    \/ /\ Writer(q) /\ req[q].pc = "write"
       /\ \E row \in req[q].todo : Written(o, row)
    \/ /\ Does(q, "grant", "write")
       /\ \E row \in req[q].next : Written(o, row) \/ (TakesKey(row) /\ Deleting(o, row[2]))

\* No two requests wait for each other: a grant, a deletion of a role or menu and
\* a creation take role, menu and rows in orders that never cross, because a row
\* that exists is updated and takes no key (ON CONFLICT DO UPDATE).
NoTwoDeadlock ==
    \A q, o \in Requests : q # o => ~(WaitsFor(q, o) /\ WaitsFor(o, q))
=============================================================================
