--------------------------- MODULE RoleAssignments ---------------------------
(***************************************************************************)
(* The tables roles and user_roles under the transactions that write them: *)
(* UserRoleRepository.Replace and RoleRepository.SoftDelete run several     *)
(* statements each, at READ COMMITTED, and meet on row locks.              *)
(*                                                                         *)
(* A statement that changes rows first finds them in the committed state   *)
(* (Scan) and then takes them one at a time, in any order: it waits for a  *)
(* transaction that has written the row and looks at the row again (Clear, *)
(* Insert).  Lists of roles have any order, so sets stand for them.        *)
(***************************************************************************)
EXTENDS FiniteSets

CONSTANTS
    Scopes,             \* service resource keys
    Roles,              \* role ids
    Subjects,           \* NexusAuth user ids
    ScopeOfRole,        \* roles.service_resource
    Lists,              \* the lists of roles clients send to replace a user's
    Txns                \* requests being served at the same time

ASSUME AssignmentAssumption ==
    /\ ScopeOfRole \in [Roles -> Scopes]
    /\ Lists \subseteq SUBSET Roles

VARIABLES
    roles,              \* enabled / is_deleted of each role
    assigned,           \* the live rows of user_roles, as committed
    txn                 \* what each open transaction has locked and written

vars == <<roles, assigned, txn>>

Rows == Subjects \X Roles

RowsOf(us, rs) == {row \in Rows : row[1] \in us /\ row[2] \in rs}

RoleState == {"absent", "enabled", "disabled", "deleted"}

Idle == [op |-> "idle"]

\* pc is "lock" until the roles are locked and "clear" while rows are written.
\* area is what the clearing UPDATE ranges over; todo are the rows it found
\* and has yet to write.
Transaction == [op : {"replace", "delete"}, pc : {"lock", "clear"}, scope : Scopes,
                roles : SUBSET Roles, locked : SUBSET Roles, area : SUBSET Rows,
                todo : SUBSET Rows, cleared : SUBSET Rows, added : SUBSET Rows]

TypeOK ==
    /\ roles \in [Roles -> RoleState]
    /\ assigned \subseteq Rows
    /\ txn \in [Txns -> Transaction \cup {Idle}]

Init ==
    /\ roles = [r \in Roles |-> "absent"]
    /\ assigned = {}
    /\ txn = [q \in Txns |-> Idle]

-----------------------------------------------------------------------------
Busy(q) == txn[q] # Idle

Begin(q, op, s, rs, area) ==
    /\ ~Busy(q)
    /\ txn' = [txn EXCEPT ![q] =
                 [op |-> op, pc |-> "lock", scope |-> s, roles |-> rs, locked |-> {},
                  area |-> area, todo |-> {}, cleared |-> {}, added |-> {}]]
    /\ UNCHANGED <<roles, assigned>>

RolesIn(s) == {r \in Roles : ScopeOfRole[r] = s}

\* PUT /users/{id}/roles: BEGIN, nothing read yet; the list may name any role.
StartReplace(q, u, s, rs) == Begin(q, "replace", s, rs, RowsOf({u}, RolesIn(s)))

\* DELETE /roles/{id}: BEGIN.
StartDelete(q, r) == Begin(q, "delete", ScopeOfRole[r], {r}, RowsOf(Subjects, {r}))

\* Faulty: the SELECT has no FOR SHARE.
NoShareConflict(p, q, r) ==
    Busy(p) /\ r \in txn[p].locked /\ txn[p].op = "delete" /\ txn[q].op = "delete"

\* The row lock p holds on role r is not compatible with the one q asks for:
\* Replace locks FOR SHARE, the UPDATE of SoftDelete exclusively.
Conflict(p, q, r) ==
    Busy(p) /\ r \in txn[p].locked /\ "delete" \in {txn[p].op, txn[q].op}

\* The WHERE clause finds the role.
Lockable(t, r) ==
    IF t.op = "replace" THEN roles[r] = "enabled" /\ ScopeOfRole[r] = t.scope
                        ELSE roles[r] \in {"enabled", "disabled"}

\* SELECT ... FOR SHARE of one requested role, or SoftDelete's UPDATE of the
\* role.  No row: the handler returns and the transaction rolls back.
LockRole(q, r) ==
    /\ Busy(q) /\ txn[q].pc = "lock"
    /\ r \in txn[q].roles \ txn[q].locked
    /\ \A p \in Txns \ {q} : ~Conflict(p, q, r)
    /\ txn' = [txn EXCEPT ![q] = IF Lockable(txn[q], r)
                              THEN [txn[q] EXCEPT !.locked = @ \cup {r}] ELSE Idle]
    /\ UNCHANGED <<roles, assigned>>

\* Faulty: the ids of the roles are collected instead of the rows.
FoundRoleIDs(t) == {row[2] : row \in t.area \cap assigned}

\* Faulty: the rows are found by subject alone, whatever their scope.
FoundBySubject(t) == {row \in assigned : \E other \in t.area : other[1] = row[1]}

\* The rows the clearing UPDATE finds: live ones, as committed when it starts.
\* Roles of other scopes are out of its area; disabled ones are in.
Found(t) == t.area \cap assigned

Scan(q) ==
    /\ Busy(q) /\ txn[q].pc = "lock"
    /\ txn[q].locked = txn[q].roles
    /\ txn' = [txn EXCEPT ![q] = [txn[q] EXCEPT !.pc = "clear", !.todo = Found(txn[q])]]
    /\ UNCHANGED <<roles, assigned>>

\* Another open transaction has written the row.
Written(p, row) == Busy(p) /\ row \in txn[p].cleared \cup txn[p].added

Free(q, row) == \A p \in Txns \ {q} : ~Written(p, row)

\* A row found by Scan is cleared, unless it is no longer live.
Clear(q, row) ==
    /\ Busy(q) /\ txn[q].pc = "clear"
    /\ row \in txn[q].todo
    /\ Free(q, row)
    /\ txn' = [txn EXCEPT ![q] = [txn[q] EXCEPT !.todo = @ \ {row},
                                                !.cleared = @ \cup ({row} \cap assigned)]]
    /\ UNCHANGED <<roles, assigned>>

Wanted(t) == IF t.op = "replace" THEN {row \in t.area : row[2] \in t.roles} ELSE {}

\* INSERT ... ON CONFLICT DO UPDATE: the row is live afterwards, whoever wrote
\* it last; the primary key makes inserters of the same row wait as well.
Insert(q, row) ==
    /\ Busy(q) /\ txn[q].pc = "clear" /\ txn[q].todo = {}
    /\ row \in Wanted(txn[q]) \ txn[q].added
    /\ Free(q, row)
    /\ txn' = [txn EXCEPT ![q] = [txn[q] EXCEPT !.added = @ \cup {row}]]
    /\ UNCHANGED <<roles, assigned>>

Commit(q) ==
    /\ Busy(q) /\ txn[q].pc = "clear" /\ txn[q].todo = {}
    /\ txn[q].added = Wanted(txn[q])
    /\ assigned' = (assigned \ txn[q].cleared) \cup txn[q].added
    /\ roles' = [r \in Roles |-> IF txn[q].op = "delete" /\ r \in txn[q].roles
                                 THEN "deleted" ELSE roles[r]]
    /\ txn' = [txn EXCEPT ![q] = Idle]

\* The connection or the process fails, or the client goes away: what is not
\* committed is undone.
Rollback(q) ==
    /\ Busy(q)
    /\ txn' = [txn EXCEPT ![q] = Idle]
    /\ UNCHANGED <<roles, assigned>>

\* RoleRepository.Create: one INSERT with a fresh id.
CreateRole(r) ==
    /\ roles[r] = "absent"
    /\ roles' = [roles EXCEPT ![r] = "enabled"]
    /\ UNCHANGED <<assigned, txn>>

\* RoleRepository.Update and SetEnabled: one UPDATE, which waits for whoever
\* has the role locked, in whichever mode.
UpdateRole(r, enabled) ==
    /\ roles[r] \in {"enabled", "disabled"}
    /\ \A p \in Txns : Busy(p) => r \notin txn[p].locked
    /\ roles' = [roles EXCEPT ![r] = IF enabled THEN "enabled" ELSE "disabled"]
    /\ UNCHANGED <<assigned, txn>>

-----------------------------------------------------------------------------
\* The next statement of q, or the next row of it, has to wait for p.
WaitsFor(q, p) ==
    /\ Busy(q) /\ Busy(p) /\ p # q
    /\ \/ /\ txn[q].pc = "lock"
          /\ \E r \in txn[q].roles \ txn[q].locked : Conflict(p, q, r)
       \/ /\ txn[q].pc = "clear"
          /\ \E row \in txn[q].todo : Written(p, row)
       \/ /\ txn[q].pc = "clear" /\ txn[q].todo = {}
          /\ \E row \in Wanted(txn[q]) \ txn[q].added : Written(p, row)

\* Faulty: nobody looks for deadlocks.
Undetected(q) == FALSE

\* q is one of a group of which each waits for another.
Deadlocked(q) ==
    \E group \in SUBSET Txns :
        q \in group /\ \A p \in group : \E o \in group : WaitsFor(p, o)

\* PostgreSQL ends a transaction that is part of a deadlock.
BreakDeadlock(q) == Deadlocked(q) /\ Rollback(q)

Step(q) ==
    \/ \E r \in Roles : LockRole(q, r)
    \/ Scan(q)
    \/ \E row \in Rows : Clear(q, row) \/ Insert(q, row)
    \/ Commit(q)

Next ==
    \/ \E q \in Txns :
         \/ \E u \in Subjects, s \in Scopes, rs \in Lists : StartReplace(q, u, s, rs)
         \/ \E r \in Roles : StartDelete(q, r)
         \/ Step(q)
         \/ Rollback(q)
         \/ BreakDeadlock(q)
    \/ \E r \in Roles : CreateRole(r)
    \/ \E r \in Roles, enabled \in BOOLEAN : UpdateRole(r, enabled)

Spec == Init /\ [][Next]_vars

\* A deletion waits for its role while a replacement has it locked FOR SHARE.
LockedOut(q) ==
    /\ Busy(q) /\ txn[q].op = "delete" /\ txn[q].pc = "lock"
    /\ \E p \in Txns : txn[p].op = "replace" /\ WaitsFor(q, p)

\* Requests run on, PostgreSQL looks for deadlocks, and where every lock asked
\* for excludes the one held it grants them in turn.  But FOR SHARE joins a role
\* that is share-locked already, past a waiting UPDATE: nothing is assumed for a
\* deletion that replacements lock out again and again.  No fairness for
\* clients, nor for rollbacks.
Fairness ==
    \A q \in Txns :
        /\ SF_vars(Step(q)) \/ []<>LockedOut(q)
        /\ WF_vars(BreakDeadlock(q))

FairSpec == Spec /\ Fairness

-----------------------------------------------------------------------------
(* Properties *)

\* A deleted role is assigned to nobody: a replacement that has checked the role
\* keeps SoftDelete out until it commits, and SoftDelete then finds the row
\* (the FOR SHARE of Replace, and SoftDelete clearing after its UPDATE).
AssignedRolesExist ==
    \A row \in assigned : roles[row[2]] \in {"enabled", "disabled"}

\* What other modules see of this one.
Directory == INSTANCE Directory WITH
    Endpoints <- {},
    ScopeOfEndpoint <- [e \in {} |-> CHOOSE s \in Scopes : TRUE],
    scopeActive <- [s \in Scopes |-> TRUE],
    endpointState <- [e \in {} |-> "enabled"],
    roleState <- [r \in Roles |-> IF roles[r] = "absent" THEN "enabled" ELSE roles[r]],
    userRoles <- [u \in Subjects |-> {r \in Roles : <<u, r>> \in assigned}]

\* The transactions implement the atomic operations of Directory: a replacement
\* takes effect at its COMMIT, with every requested role enabled and of the
\* scope at that moment, other scopes untouched and nothing of its own scope
\* kept but what was assigned before it; a deletion revokes the role everywhere.
ImplementsDirectory == Directory!DirSpec

\* No group of transactions waits for itself for ever, although two replacements
\* can hold rows the other needs, since lists come in any order: a replacement
\* that keeps running ends, and so does a deletion, once it has its role or
\* replacements no longer lock it out.
EndsUnlessLockedOut == \A q \in Txns : Busy(q) ~> ~Busy(q) \/ LockedOut(q)

\* What the row locks do not give: that a deletion ends.  Even if a request went
\* on whenever it could, replacements that overlap keep the role share-locked.
EveryTransactionEnds ==
    (\A q \in Txns : SF_vars(Step(q))) => \A q \in Txns : Busy(q) ~> ~Busy(q)

\* A replacement is atomic: the roles a user has in a scope are those of one list
\* a client sent, less those deleted since, never the union of two lists.
RolesGivenTogether ==
    \A u \in Subjects, s \in Scopes :
        \E rs \in Lists : assigned \cap RowsOf({u}, RolesIn(s)) \subseteq RowsOf({u}, rs)
=============================================================================
