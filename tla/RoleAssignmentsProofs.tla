------------------------ MODULE RoleAssignmentsProofs ------------------------
(***************************************************************************)
(* Proofs about RoleAssignments, for every set of roles, users, service     *)
(* resources and requests.                                                  *)
(***************************************************************************)
EXTENDS RoleAssignments, TLAPS

USE AssignmentAssumption

-----------------------------------------------------------------------------
(* Type correctness *)

\* A request that is being served has a transaction.
LEMMA BusyType ==
    ASSUME TypeOK, NEW q \in Txns, Busy(q)
    PROVE  txn[q] \in Transaction
BY DEF TypeOK, Busy

\* The step of a transaction to another state of it, or to its end.
LEMMA TxnType ==
    ASSUME TypeOK, NEW q \in Txns, NEW next \in Transaction \cup {Idle},
           txn' = [txn EXCEPT ![q] = next]
    PROVE  /\ txn' \in [Txns -> Transaction \cup {Idle}]
           /\ txn'[q] = next
           /\ \A p \in Txns \ {q} : txn'[p] = txn[p]
BY DEF TypeOK

\* A transaction starts out with nothing locked or written.
LEMMA BeginStep ==
    ASSUME TypeOK, NEW q \in Txns,
           \/ \E u \in Subjects, s \in Scopes, rs \in Lists : StartReplace(q, u, s, rs)
           \/ \E r \in Roles : StartDelete(q, r)
    PROVE  \E next \in Transaction :
             /\ txn' = [txn EXCEPT ![q] = next]
             /\ UNCHANGED <<roles, assigned>>
             /\ next.pc = "lock"
             /\ next.locked = {} /\ next.todo = {} /\ next.cleared = {} /\ next.added = {}
             /\ \/ next.op = "replace" /\ \E u \in Subjects : next.area = RowsOf({u}, RolesIn(next.scope))
                \/ next.op = "delete" /\ \E r \in Roles : next.roles = {r} /\ next.area = RowsOf(Subjects, {r})
<1>1. CASE \E u \in Subjects, s \in Scopes, rs \in Lists : StartReplace(q, u, s, rs)
  <2>1. PICK u \in Subjects, s \in Scopes, rs \in Lists : StartReplace(q, u, s, rs)
      BY <1>1
  <2> DEFINE next == [op |-> "replace", pc |-> "lock", scope |-> s, roles |-> rs, locked |-> {},
                      area |-> RowsOf({u}, RolesIn(s)), todo |-> {}, cleared |-> {}, added |-> {}]
  <2>2. next \in Transaction
      BY DEF Transaction, RowsOf
  <2>3. txn' = [txn EXCEPT ![q] = next] /\ UNCHANGED <<roles, assigned>>
      BY <2>1 DEF StartReplace, Begin
  <2> QED BY <2>2, <2>3
<1>2. CASE \E r \in Roles : StartDelete(q, r)
  <2>1. PICK r \in Roles : StartDelete(q, r)
      BY <1>2
  <2> DEFINE next == [op |-> "delete", pc |-> "lock", scope |-> ScopeOfRole[r], roles |-> {r},
                      locked |-> {}, area |-> RowsOf(Subjects, {r}), todo |-> {},
                      cleared |-> {}, added |-> {}]
  <2>2. next \in Transaction
      BY DEF Transaction, RowsOf
  <2>3. txn' = [txn EXCEPT ![q] = next] /\ UNCHANGED <<roles, assigned>>
      BY <2>1 DEF StartDelete, Begin
  <2> QED BY <2>2, <2>3
<1> QED BY <1>1, <1>2

\* The initial state is well typed.
LEMMA InitType == Init => TypeOK
BY DEF Init, TypeOK, RoleState

\* A transaction stays one when it locks, finds or writes rows.
LEMMA Updated ==
    ASSUME NEW t \in Transaction
    PROVE  /\ \A ls \in SUBSET Roles : [t EXCEPT !.locked = ls] \in Transaction
           /\ \A rs \in SUBSET Rows : [t EXCEPT !.pc = "clear", !.todo = rs] \in Transaction
           /\ \A rs, cs \in SUBSET Rows : [t EXCEPT !.todo = rs, !.cleared = cs] \in Transaction
           /\ \A rs \in SUBSET Rows : [t EXCEPT !.added = rs] \in Transaction
BY DEF Transaction

\* The record a transaction goes on as.
LEMMA StepNext ==
    ASSUME TypeOK, NEW q \in Txns, Step(q), ~Commit(q)
    PROVE  /\ \E next \in Transaction \cup {Idle} : txn' = [txn EXCEPT ![q] = next]
           /\ UNCHANGED <<roles, assigned>>
<1>0. txn[q] \in Transaction
    BY BusyType DEF Step, LockRole, Scan, Clear, Insert
<1>1. CASE \E r \in Roles : LockRole(q, r)
  <2>1. PICK r \in Roles : LockRole(q, r)
      BY <1>1
  <2>2. txn[q].locked \cup {r} \in SUBSET Roles
      BY <1>0 DEF Transaction
  <2>3. [txn[q] EXCEPT !.locked = txn[q].locked \cup {r}] \in Transaction
      BY <1>0, <2>2, Updated
  <2> QED BY <2>1, <2>3 DEF LockRole
<1>2. CASE Scan(q)
  <2>1. Found(txn[q]) \in SUBSET Rows
      BY DEF Found, TypeOK
  <2>2. [txn[q] EXCEPT !.pc = "clear", !.todo = Found(txn[q])] \in Transaction
      BY <1>0, <2>1, Updated
  <2> QED BY <1>2, <2>2 DEF Scan
<1>3. CASE \E row \in Rows : Clear(q, row)
  <2>1. PICK row \in Rows : Clear(q, row)
      BY <1>3
  <2> DEFINE rs == txn[q].todo \ {row}
             cs == txn[q].cleared \cup ({row} \cap assigned)
  <2>2. rs \in SUBSET Rows /\ cs \in SUBSET Rows
      BY <1>0 DEF Transaction
  <2>3. [txn[q] EXCEPT !.todo = rs, !.cleared = cs] \in Transaction
      BY <1>0, <2>2, Updated
  <2> QED BY <2>1, <2>3 DEF Clear
<1>4. CASE \E row \in Rows : Insert(q, row)
  <2>1. PICK row \in Rows : Insert(q, row)
      BY <1>4
  <2>2. txn[q].added \cup {row} \in SUBSET Rows
      BY <1>0 DEF Transaction
  <2>3. [txn[q] EXCEPT !.added = txn[q].added \cup {row}] \in Transaction
      BY <1>0, <2>2, Updated
  <2> QED BY <2>1, <2>3 DEF Insert
<1> QED BY <1>1, <1>2, <1>3, <1>4 DEF Step

\* Every step keeps the types.
LEMMA NextType == TypeOK /\ [Next]_vars => TypeOK'
<1> SUFFICES ASSUME TypeOK, [Next]_vars PROVE TypeOK'
    OBVIOUS
<1>1. ASSUME NEW q \in Txns,
             \/ \E u \in Subjects, s \in Scopes, rs \in Lists : StartReplace(q, u, s, rs)
             \/ \E r \in Roles : StartDelete(q, r)
      PROVE  TypeOK'
    BY <1>1, BeginStep DEF TypeOK
<1>2. ASSUME NEW q \in Txns, Step(q), ~Commit(q) PROVE TypeOK'
    BY <1>2, StepNext DEF TypeOK
<1>3. ASSUME NEW q \in Txns, Commit(q) PROVE TypeOK'
  <2>1. roles' \in [Roles -> RoleState]
      BY <1>3 DEF TypeOK, Commit, RoleState
  <2>2. assigned' \subseteq Rows
      BY <1>3, BusyType DEF TypeOK, Commit, Transaction
  <2> QED BY <1>3, <2>1, <2>2 DEF TypeOK, Commit
<1>4. ASSUME NEW q \in Txns, Rollback(q) \/ BreakDeadlock(q) PROVE TypeOK'
    BY <1>4 DEF TypeOK, Rollback, BreakDeadlock
<1>5. ASSUME NEW r \in Roles, CreateRole(r) PROVE TypeOK'
    BY <1>5 DEF TypeOK, CreateRole, RoleState
<1>6. ASSUME NEW r \in Roles, NEW enabled \in BOOLEAN, UpdateRole(r, enabled) PROVE TypeOK'
    BY <1>6 DEF TypeOK, UpdateRole, RoleState
<1>7. CASE UNCHANGED vars
    BY <1>7 DEF TypeOK, vars
<1> QED BY <1>1, <1>2, <1>3, <1>4, <1>5, <1>6, <1>7 DEF Next

\* Tables and transactions keep their types, however requests interleave.
THEOREM TypeCorrect == Spec => []TypeOK
BY InitType, NextType, PTL DEF Spec

-----------------------------------------------------------------------------
(* The locks: what a transaction may rely on *)

\* What a transaction ranges over follows from the request it serves.
AreaOK(t) ==
    \/ /\ t.op = "replace"
       /\ \E u \in Subjects : t.area = RowsOf({u}, RolesIn(t.scope))
    \/ /\ t.op = "delete"
       /\ \E r \in Roles : t.roles = {r} /\ t.area = RowsOf(Subjects, {r})

\* What a transaction has locked and written so far.
ProgressOK(t) ==
    /\ t.locked \subseteq t.roles
    /\ t.pc = "clear" => t.locked = t.roles
    /\ t.added \subseteq Wanted(t)
    /\ t.todo \subseteq t.area
    /\ t.cleared \subseteq t.area

\* A role that is locked stays as it was found.
LocksHold(t) == \A r \in t.locked : Lockable(t, r)

\* A deletion misses no row: what it did not find was not there.
DeletionFinds(t) ==
    t.op = "delete" /\ t.pc = "clear" => assigned \cap t.area \subseteq t.todo \cup t.cleared

TxnInv ==
    \A q \in Txns :
        Busy(q) => AreaOK(txn[q]) /\ ProgressOK(txn[q]) /\ LocksHold(txn[q]) /\ DeletionFinds(txn[q])

\* Locks that exclude each other are not held together.
LockInv == \A p, q \in Txns : p # q /\ Busy(q) => \A r \in txn[q].locked : ~Conflict(p, q, r)

IInv == TypeOK /\ TxnInv /\ LockInv /\ AssignedRolesExist

-----------------------------------------------------------------------------
(* IInv holds initially *)

LEMMA InitInv == Init => IInv
<1> SUFFICES ASSUME Init PROVE IInv
    OBVIOUS
<1>1. \A q \in Txns : ~Busy(q)
    BY DEF Init, Busy
<1> QED BY <1>1, InitType DEF IInv, TxnInv, LockInv, AssignedRolesExist, Init

-----------------------------------------------------------------------------
(* IInv is preserved *)

\* What one transaction must respect for the others: its own conjuncts of TxnInv,
\* and no lock that a lock of another excludes.
Sound(t) == AreaOK(t) /\ ProgressOK(t) /\ LocksHold(t) /\ DeletionFinds(t)

Compatible(q, t) ==
    \A p \in Txns \ {q} : \A r \in t.locked :
        ~(Busy(p) /\ r \in txn[p].locked /\ "delete" \in {txn[p].op, t.op})

\* A transaction, being one, is not idle.
LEMMA NotIdle == \A t \in Transaction : t # Idle
BY DEF Transaction, Idle

\* What TxnInv and LockInv say of one transaction.
LEMMA OfTxn ==
    ASSUME TypeOK, TxnInv, LockInv, NEW q \in Txns, Busy(q)
    PROVE  txn[q] \in Transaction /\ Sound(txn[q]) /\ Compatible(q, txn[q])
<1>1. txn[q] \in Transaction /\ Sound(txn[q])
    BY BusyType DEF TxnInv, Sound
<1>2. \A p \in Txns \ {q} : \A r \in txn[q].locked : ~Conflict(p, q, r)
    BY DEF LockInv
<1> QED BY <1>1, <1>2 DEF Compatible, Conflict

\* A step of one transaction that commits nothing need only keep that transaction
\* sound and its locks compatible.
LEMMA QuietStep ==
    ASSUME IInv, NEW q \in Txns, NEW next \in Transaction \cup {Idle},
           txn' = [txn EXCEPT ![q] = next], UNCHANGED <<roles, assigned>>,
           next # Idle => Sound(next) /\ Compatible(q, next)
    PROVE  TxnInv' /\ LockInv' /\ AssignedRolesExist'
<1>1. txn'[q] = next /\ \A p \in Txns \ {q} : txn'[p] = txn[p]
    BY TxnType DEF IInv
<1>2. TxnInv'
  <2> SUFFICES ASSUME NEW p \in Txns, Busy(p)'
               PROVE  (AreaOK(txn[p]) /\ ProgressOK(txn[p]) /\ LocksHold(txn[p]) /\ DeletionFinds(txn[p]))'
      BY DEF TxnInv
  <2>1. CASE p = q
      BY <1>1, <2>1 DEF Busy, Sound, AreaOK, ProgressOK, LocksHold, Lockable, DeletionFinds, Wanted
  <2>2. CASE p # q
    <3>1. Busy(p) /\ txn'[p] = txn[p]
        BY <1>1, <2>2 DEF Busy
    <3>2. Sound(txn[p])
        BY <3>1 DEF IInv, TxnInv, Sound
    <3> QED BY <3>1, <3>2 DEF Sound, AreaOK, ProgressOK, LocksHold, Lockable, DeletionFinds, Wanted
  <2> QED BY <2>1, <2>2
<1>3. LockInv'
  <2> SUFFICES ASSUME NEW p \in Txns, NEW o \in Txns, p # o, Busy(o)', NEW r \in txn'[o].locked
               PROVE  ~Conflict(p, o, r)'
      BY DEF LockInv
  <2>1. CASE o = q
      BY <1>1, <2>1 DEF Busy, Conflict, Compatible
  <2>2. CASE p = q
      BY <1>1, <2>2 DEF Busy, Conflict, Compatible
  <2>3. CASE p # q /\ o # q
      BY <1>1, <2>3 DEF Busy, Conflict, IInv, LockInv
  <2> QED BY <2>1, <2>2, <2>3
<1>4. AssignedRolesExist'
    BY DEF IInv, AssignedRolesExist
<1> QED BY <1>2, <1>3, <1>4

\* A transaction begins with no lock and nothing written.
LEMMA BeginInv ==
    ASSUME IInv, NEW q \in Txns,
           \/ \E u \in Subjects, s \in Scopes, rs \in Lists : StartReplace(q, u, s, rs)
           \/ \E r \in Roles : StartDelete(q, r)
    PROVE  TxnInv' /\ LockInv' /\ AssignedRolesExist'
<1>1. PICK next \in Transaction :
             /\ txn' = [txn EXCEPT ![q] = next]
             /\ UNCHANGED <<roles, assigned>>
             /\ next.pc = "lock"
             /\ next.locked = {} /\ next.todo = {} /\ next.cleared = {} /\ next.added = {}
             /\ \/ next.op = "replace" /\ \E u \in Subjects : next.area = RowsOf({u}, RolesIn(next.scope))
                \/ next.op = "delete" /\ \E r \in Roles : next.roles = {r} /\ next.area = RowsOf(Subjects, {r})
    BY BeginStep DEF IInv
<1>2. AreaOK(next)
    BY <1>1 DEF AreaOK
<1>3. ProgressOK(next) /\ LocksHold(next) /\ DeletionFinds(next) /\ Compatible(q, next)
    BY <1>1 DEF ProgressOK, LocksHold, DeletionFinds, Compatible
<1> QED BY <1>1, <1>2, <1>3, QuietStep DEF Sound

\* A role is locked only as long as it is what the statement looked for, and no
\* lock of another request is in the way.
LEMMA LockRoleInv ==
    ASSUME IInv, NEW q \in Txns, NEW r \in Roles, LockRole(q, r)
    PROVE  TxnInv' /\ LockInv' /\ AssignedRolesExist'
<1> DEFINE t == txn[q]
           u == [t EXCEPT !.locked = t.locked \cup {r}]
<1>1. t \in Transaction /\ Sound(t) /\ Compatible(q, t)
    BY OfTxn DEF IInv, LockRole
<1>2. CASE ~Lockable(t, r)
    BY <1>2, QuietStep DEF LockRole
<1>3. CASE Lockable(t, r)
  <2>1. txn' = [txn EXCEPT ![q] = u] /\ UNCHANGED <<roles, assigned>>
      BY <1>3 DEF LockRole
  <2>2. u \in Transaction
      BY <1>1, Updated DEF Transaction
  <2>3. /\ u.op = t.op /\ u.pc = t.pc /\ u.scope = t.scope /\ u.roles = t.roles /\ u.area = t.area
        /\ u.todo = t.todo /\ u.cleared = t.cleared /\ u.added = t.added
        /\ u.locked = t.locked \cup {r}
      BY <1>1 DEF Transaction
  <2>4. t.pc = "lock" /\ r \in t.roles
      BY DEF LockRole
  <2>5. AreaOK(u) /\ DeletionFinds(u)
      BY <1>1, <2>3 DEF Sound, AreaOK, DeletionFinds
  <2>6. ProgressOK(u)
      BY <1>1, <2>3, <2>4 DEF Sound, ProgressOK, Wanted
  <2>7. LocksHold(u)
      BY <1>1, <1>3, <2>3 DEF Sound, LocksHold, Lockable
  <2>8. Compatible(q, u)
      BY <1>1, <2>3 DEF Compatible, LockRole, Conflict
  <2>9. Sound(u)
      BY <2>5, <2>6, <2>7 DEF Sound
  <2> HIDE DEF u
  <2> QED BY <2>1, <2>2, <2>8, <2>9, QuietStep
<1> QED BY <1>2, <1>3

\* The clearing UPDATE finds every committed row of its area.
LEMMA ScanInv ==
    ASSUME IInv, NEW q \in Txns, Scan(q)
    PROVE  TxnInv' /\ LockInv' /\ AssignedRolesExist'
<1> DEFINE t == txn[q]
           u == [t EXCEPT !.pc = "clear", !.todo = Found(t)]
<1>1. t \in Transaction /\ Sound(t) /\ Compatible(q, t)
    BY OfTxn DEF IInv, Scan
<1>2. txn' = [txn EXCEPT ![q] = u] /\ UNCHANGED <<roles, assigned>>
    BY DEF Scan
<1>3. Found(t) \in SUBSET Rows
    BY DEF Found, IInv, TypeOK
<1>4. u \in Transaction
    BY <1>1, <1>3, Updated
<1>5. /\ u.op = t.op /\ u.pc = "clear" /\ u.scope = t.scope /\ u.roles = t.roles /\ u.area = t.area
      /\ u.todo = t.area \cap assigned /\ u.cleared = t.cleared /\ u.added = t.added
      /\ u.locked = t.locked
    BY <1>1 DEF Transaction, Found
<1>6. t.locked = t.roles
    BY DEF Scan
<1>7. AreaOK(u) /\ LocksHold(u) /\ Compatible(q, u)
    BY <1>1, <1>5 DEF Sound, AreaOK, LocksHold, Lockable, Compatible
<1>8. ProgressOK(u) /\ DeletionFinds(u)
    BY <1>1, <1>5, <1>6 DEF Sound, ProgressOK, Wanted, DeletionFinds
<1>9. Sound(u)
    BY <1>7, <1>8 DEF Sound
<1> HIDE DEF u
<1> QED BY <1>2, <1>4, <1>7, <1>9, QuietStep

\* A row found is cleared, or is no longer there.
LEMMA ClearInv ==
    ASSUME IInv, NEW q \in Txns, NEW row \in Rows, Clear(q, row)
    PROVE  TxnInv' /\ LockInv' /\ AssignedRolesExist'
<1> DEFINE t == txn[q]
           rs == t.todo \ {row}
           cs == t.cleared \cup ({row} \cap assigned)
           u == [t EXCEPT !.todo = rs, !.cleared = cs]
<1>1. t \in Transaction /\ Sound(t) /\ Compatible(q, t)
    BY OfTxn DEF IInv, Clear
<1>2. txn' = [txn EXCEPT ![q] = u] /\ UNCHANGED <<roles, assigned>>
    BY DEF Clear
<1>3. rs \in SUBSET Rows /\ cs \in SUBSET Rows
    BY <1>1 DEF Transaction
<1>4. u \in Transaction
    BY <1>1, <1>3, Updated
<1>5. /\ u.op = t.op /\ u.pc = t.pc /\ u.scope = t.scope /\ u.roles = t.roles /\ u.area = t.area
      /\ u.todo = rs /\ u.cleared = cs /\ u.added = t.added /\ u.locked = t.locked
    BY <1>1 DEF Transaction
<1>6. row \in t.todo
    BY DEF Clear
<1>7. AreaOK(u) /\ LocksHold(u) /\ Compatible(q, u)
    BY <1>1, <1>5 DEF Sound, AreaOK, LocksHold, Lockable, Compatible
<1>8. ProgressOK(u) /\ DeletionFinds(u)
    BY <1>1, <1>5, <1>6 DEF Sound, ProgressOK, Wanted, DeletionFinds
<1>9. Sound(u)
    BY <1>7, <1>8 DEF Sound
<1> HIDE DEF u
<1> QED BY <1>2, <1>4, <1>7, <1>9, QuietStep

\* Only rows of the requested roles are inserted.
LEMMA InsertInv ==
    ASSUME IInv, NEW q \in Txns, NEW row \in Rows, Insert(q, row)
    PROVE  TxnInv' /\ LockInv' /\ AssignedRolesExist'
<1> DEFINE t == txn[q]
           as == t.added \cup {row}
           u == [t EXCEPT !.added = as]
<1>1. t \in Transaction /\ Sound(t) /\ Compatible(q, t)
    BY OfTxn DEF IInv, Insert
<1>2. txn' = [txn EXCEPT ![q] = u] /\ UNCHANGED <<roles, assigned>>
    BY DEF Insert
<1>3. as \in SUBSET Rows
    BY <1>1 DEF Transaction
<1>4. u \in Transaction
    BY <1>1, <1>3, Updated
<1>5. /\ u.op = t.op /\ u.pc = t.pc /\ u.scope = t.scope /\ u.roles = t.roles /\ u.area = t.area
      /\ u.todo = t.todo /\ u.cleared = t.cleared /\ u.added = as /\ u.locked = t.locked
    BY <1>1 DEF Transaction
<1>6. row \in Wanted(t)
    BY DEF Insert
<1>7. AreaOK(u) /\ LocksHold(u) /\ Compatible(q, u) /\ DeletionFinds(u)
    BY <1>1, <1>5 DEF Sound, AreaOK, LocksHold, Lockable, Compatible, DeletionFinds
<1>8. ProgressOK(u)
    BY <1>1, <1>5, <1>6 DEF Sound, ProgressOK, Wanted
<1>9. Sound(u)
    BY <1>7, <1>8 DEF Sound
<1> HIDE DEF u
<1> QED BY <1>2, <1>4, <1>7, <1>9, QuietStep

\* A role that somebody has locked is neither absent nor deleted.
LEMMA LockedRole ==
    ASSUME IInv, NEW q \in Txns, Busy(q), NEW r \in txn[q].locked
    PROVE  r \in Roles /\ roles[r] \in {"enabled", "disabled"}
<1>1. txn[q] \in Transaction /\ Sound(txn[q])
    BY OfTxn DEF IInv
<1> QED BY <1>1 DEF Transaction, Sound, LocksHold, Lockable

\* What a transaction that commits has locked and written.
LEMMA AtCommit ==
    ASSUME IInv, NEW q \in Txns, Commit(q)
    PROVE  /\ txn[q] \in Transaction
           /\ txn[q].op = "replace" =>
                /\ \E u \in Subjects : txn[q].area = RowsOf({u}, RolesIn(txn[q].scope))
                /\ txn[q].added = {row \in txn[q].area : row[2] \in txn[q].roles}
                /\ txn[q].cleared \subseteq txn[q].area
                /\ \A r \in txn[q].roles : roles[r] = "enabled" /\ ScopeOfRole[r] = txn[q].scope
                /\ roles' = roles
           /\ txn[q].op = "delete" =>
                \E r \in Roles :
                  /\ txn[q].roles = {r} /\ txn[q].locked = {r}
                  /\ roles[r] \in {"enabled", "disabled"}
                  /\ roles' = [roles EXCEPT ![r] = "deleted"]
                  /\ assigned' = assigned \ RowsOf(Subjects, {r})
<1> DEFINE t == txn[q]
<1>1. t \in Transaction /\ Sound(t)
    BY OfTxn DEF IInv, Commit
<1>2. t.pc = "clear" /\ t.todo = {} /\ t.added = Wanted(t) /\ t.locked = t.roles
    BY <1>1 DEF Commit, Sound, ProgressOK
<1>3. roles \in [Roles -> RoleState] /\ assigned \subseteq Rows
    BY DEF IInv, TypeOK
<1>4. roles' = [r \in Roles |-> IF t.op = "delete" /\ r \in t.roles THEN "deleted" ELSE roles[r]]
      /\ assigned' = (assigned \ t.cleared) \cup t.added
    BY DEF Commit
<1>5. CASE t.op = "replace"
  <2>1. \E u \in Subjects : t.area = RowsOf({u}, RolesIn(t.scope))
      BY <1>1, <1>5 DEF Sound, AreaOK
  <2>2. t.added = {row \in t.area : row[2] \in t.roles} /\ t.cleared \subseteq t.area
      BY <1>1, <1>2, <1>5 DEF Sound, ProgressOK, Wanted
  <2>3. \A r \in t.roles : roles[r] = "enabled" /\ ScopeOfRole[r] = t.scope
      BY <1>1, <1>2, <1>5 DEF Sound, LocksHold, Lockable
  <2>4. roles' = roles
      BY <1>3, <1>4, <1>5
  <2> QED BY <1>1, <1>5, <2>1, <2>2, <2>3, <2>4
<1>6. CASE t.op = "delete"
  <2>1. PICK r \in Roles : t.roles = {r} /\ t.area = RowsOf(Subjects, {r})
      BY <1>1, <1>6 DEF Sound, AreaOK
  <2>2. roles[r] \in {"enabled", "disabled"}
      BY <1>2, <2>1, LockedRole DEF Commit
  <2>3. roles' = [roles EXCEPT ![r] = "deleted"]
      BY <1>3, <1>4, <1>6, <2>1
  <2>4. t.added = {}
      BY <1>2, <1>6 DEF Wanted
  <2>5. assigned \cap t.area = assigned \cap t.cleared
      BY <1>1, <1>2, <1>6 DEF Sound, DeletionFinds, ProgressOK
  <2>6. assigned' = assigned \ RowsOf(Subjects, {r})
      BY <1>4, <2>1, <2>4, <2>5
  <2> QED BY <1>1, <1>2, <1>6, <2>1, <2>2, <2>3, <2>6
<1>7. t.op \in {"replace", "delete"}
    BY <1>1 DEF Transaction
<1> QED BY <1>5, <1>6, <1>7

\* When a transaction commits, what the others have locked and found stays true.
LEMMA CommitInv ==
    ASSUME IInv, NEW q \in Txns, Commit(q)
    PROVE  TxnInv' /\ LockInv' /\ AssignedRolesExist'
<1> DEFINE t == txn[q]
<1>1. t \in Transaction /\ Sound(t) /\ Compatible(q, t) /\ t.op \in {"replace", "delete"}
    BY OfTxn DEF IInv, Commit, Transaction
<1>2. txn' = [txn EXCEPT ![q] = Idle]
    BY DEF Commit
<1>3. ~Busy(q)' /\ \A p \in Txns \ {q} : txn'[p] = txn[p]
    BY <1>2 DEF Busy, IInv, TypeOK
<1>4. LockInv'
    BY <1>3 DEF LockInv, Busy, Conflict, IInv
<1>5. assigned \subseteq Rows /\ t.locked = t.roles
    BY <1>1 DEF IInv, TypeOK, Sound, ProgressOK, Commit
<1>6. CASE t.op = "replace"
  <2>1. /\ t.added = {row \in t.area : row[2] \in t.roles}
        /\ \A r \in t.roles : roles[r] = "enabled"
        /\ roles' = roles
        /\ assigned' = (assigned \ t.cleared) \cup t.added
      BY <1>6, AtCommit DEF Commit
  <2>2. AssignedRolesExist'
      BY <2>1 DEF IInv, AssignedRolesExist
  <2>3. ASSUME NEW p \in Txns, Busy(p)'
        PROVE  (AreaOK(txn[p]) /\ ProgressOK(txn[p]) /\ LocksHold(txn[p]) /\ DeletionFinds(txn[p]))'
    <3>1. p # q /\ Busy(p) /\ txn'[p] = txn[p]
        BY <1>3, <2>3 DEF Busy
    <3>2. txn[p] \in Transaction /\ Sound(txn[p]) /\ Compatible(p, txn[p])
        BY <3>1, OfTxn DEF IInv
    <3>3. (AreaOK(txn[p]) /\ ProgressOK(txn[p]) /\ LocksHold(txn[p]))'
        BY <2>1, <3>1, <3>2 DEF Sound, AreaOK, ProgressOK, LocksHold, Lockable, Wanted
    <3>4. DeletionFinds(txn[p])'
      <4> SUFFICES ASSUME txn[p].op = "delete", txn[p].pc = "clear", NEW row \in assigned' \cap txn[p].area
                   PROVE  row \in txn[p].todo \cup txn[p].cleared
          BY <3>1 DEF DeletionFinds
      <4>1. PICK r \in Roles : txn[p].roles = {r} /\ txn[p].area = RowsOf(Subjects, {r})
          BY <3>2 DEF Sound, AreaOK
      <4>2. row[2] = r /\ txn[p].locked = {r}
          BY <3>2, <4>1 DEF RowsOf, Sound, ProgressOK
      <4>3. ~(Busy(q) /\ r \in t.locked)
          BY <3>1, <3>2, <4>2 DEF Compatible
      <4>4. row \notin t.added
          BY <1>5, <2>1, <4>2, <4>3 DEF Commit
      <4> QED BY <2>1, <3>2, <4>4 DEF Sound, DeletionFinds
    <3> QED BY <3>3, <3>4
  <2> QED BY <1>4, <2>2, <2>3 DEF TxnInv
<1>7. CASE t.op = "delete"
  <2>1. PICK r \in Roles :
             /\ t.locked = {r}
             /\ roles' = [roles EXCEPT ![r] = "deleted"]
             /\ assigned' = assigned \ RowsOf(Subjects, {r})
      BY <1>7, AtCommit
  <2>2. \A o \in Roles : o # r => roles'[o] = roles[o]
      BY <2>1 DEF IInv, TypeOK
  <2>3. AssignedRolesExist'
    <3> SUFFICES ASSUME NEW row \in assigned' PROVE roles'[row[2]] \in {"enabled", "disabled"}
        BY DEF AssignedRolesExist
    <3>1. row \in assigned /\ row \in Rows /\ row \notin RowsOf(Subjects, {r})
        BY <1>5, <2>1
    <3>2. row[2] \in Roles /\ row[2] # r
        BY <3>1 DEF RowsOf, Rows
    <3> QED BY <2>2, <3>1, <3>2 DEF IInv, AssignedRolesExist
  <2>4. ASSUME NEW p \in Txns, Busy(p)'
        PROVE  (AreaOK(txn[p]) /\ ProgressOK(txn[p]) /\ LocksHold(txn[p]) /\ DeletionFinds(txn[p]))'
    <3>1. p # q /\ Busy(p) /\ txn'[p] = txn[p]
        BY <1>3, <2>4 DEF Busy
    <3>2. txn[p] \in Transaction /\ Sound(txn[p]) /\ Compatible(p, txn[p])
        BY <3>1, OfTxn DEF IInv
    <3>3. r \notin txn[p].locked
        BY <1>7, <2>1, <3>1, <3>2 DEF Compatible, Commit
    <3>4. \A o \in txn[p].locked : o \in Roles /\ roles'[o] = roles[o]
        BY <2>2, <3>2, <3>3 DEF Transaction
    <3>5. LocksHold(txn[p])'
        BY <3>1, <3>2, <3>4 DEF Sound, LocksHold, Lockable
    <3>6. (AreaOK(txn[p]) /\ ProgressOK(txn[p]))'
        BY <3>1, <3>2 DEF Sound, AreaOK, ProgressOK, Wanted
    <3>7. DeletionFinds(txn[p])'
        BY <2>1, <3>1, <3>2 DEF Sound, DeletionFinds
    <3> QED BY <3>5, <3>6, <3>7
  <2> QED BY <1>4, <2>3, <2>4 DEF TxnInv
<1> QED BY <1>1, <1>6, <1>7

\* Creating, enabling or disabling a role disturbs nobody who has it locked.
LEMMA RoleInv ==
    ASSUME IInv, NEW r \in Roles, NEW state \in {"enabled", "disabled"},
           \A p \in Txns : Busy(p) => r \notin txn[p].locked,
           roles' = [roles EXCEPT ![r] = state], UNCHANGED <<assigned, txn>>
    PROVE  TxnInv' /\ LockInv' /\ AssignedRolesExist'
<1>1. \A o \in Roles : roles'[o] = IF o = r THEN state ELSE roles[o]
    BY DEF IInv, TypeOK
<1>2. AssignedRolesExist'
    BY <1>1 DEF IInv, TypeOK, AssignedRolesExist, Rows
<1>3. LockInv'
    BY DEF IInv, LockInv, Busy, Conflict
<1>4. ASSUME NEW p \in Txns, Busy(p)'
      PROVE  (AreaOK(txn[p]) /\ ProgressOK(txn[p]) /\ LocksHold(txn[p]) /\ DeletionFinds(txn[p]))'
  <2>1. Busy(p) /\ txn[p] \in Transaction /\ Sound(txn[p])
      BY <1>4, OfTxn DEF IInv, Busy
  <2>2. LocksHold(txn[p])'
      BY <1>1, <2>1 DEF Sound, LocksHold, Lockable, Transaction
  <2> QED BY <2>1, <2>2 DEF Sound, AreaOK, ProgressOK, DeletionFinds, Wanted
<1> QED BY <1>2, <1>3, <1>4 DEF TxnInv

LEMMA NextInv == IInv /\ [Next]_vars => IInv'
<1> SUFFICES ASSUME IInv, [Next]_vars PROVE TxnInv' /\ LockInv' /\ AssignedRolesExist'
    BY NextType DEF IInv
<1>1. ASSUME NEW q \in Txns, \/ \E u \in Subjects, s \in Scopes, rs \in Lists : StartReplace(q, u, s, rs)
                             \/ \E r \in Roles : StartDelete(q, r)
      PROVE  TxnInv' /\ LockInv' /\ AssignedRolesExist'
    BY <1>1, BeginInv
<1>2. ASSUME NEW q \in Txns, Step(q) PROVE TxnInv' /\ LockInv' /\ AssignedRolesExist'
    BY <1>2, LockRoleInv, ScanInv, ClearInv, InsertInv, CommitInv DEF Step
<1>3. ASSUME NEW q \in Txns, Rollback(q) \/ BreakDeadlock(q)
      PROVE  TxnInv' /\ LockInv' /\ AssignedRolesExist'
    BY <1>3, QuietStep DEF Rollback, BreakDeadlock
<1>4. ASSUME NEW r \in Roles, CreateRole(r) PROVE TxnInv' /\ LockInv' /\ AssignedRolesExist'
    BY <1>4, LockedRole, RoleInv DEF CreateRole
<1>5. ASSUME NEW r \in Roles, NEW enabled \in BOOLEAN, UpdateRole(r, enabled)
      PROVE  TxnInv' /\ LockInv' /\ AssignedRolesExist'
    BY <1>5, RoleInv DEF UpdateRole
<1>6. CASE UNCHANGED vars
  <2>1. LockInv' /\ AssignedRolesExist'
      BY <1>6 DEF vars, IInv, LockInv, AssignedRolesExist, Busy, Conflict
  <2>2. TxnInv'
    <3> SUFFICES ASSUME NEW p \in Txns, Busy(p)'
                 PROVE  (AreaOK(txn[p]) /\ ProgressOK(txn[p]) /\ LocksHold(txn[p]) /\ DeletionFinds(txn[p]))'
        BY DEF TxnInv
    <3>1. Busy(p) /\ Sound(txn[p])
        BY <1>6, OfTxn DEF IInv, Busy, vars
    <3> QED BY <1>6, <3>1 DEF vars, Sound, AreaOK, ProgressOK, LocksHold, Lockable,
               DeletionFinds, Wanted
  <2> QED BY <2>1, <2>2
<1> QED BY <1>1, <1>2, <1>3, <1>4, <1>5, <1>6 DEF Next

\* What the locks guarantee is always so.
THEOREM LocksCorrect == Spec => []IInv
BY InitInv, NextInv, PTL DEF Spec

\* Replacements and deletions may interleave in every way: no user ever keeps a
\* role that is deleted.
THEOREM DeletedRolesUnassigned == Spec => []AssignedRolesExist
<1>1. IInv => AssignedRolesExist
    BY DEF IInv
<1> QED BY <1>1, LocksCorrect, PTL

-----------------------------------------------------------------------------
(* The transactions implement the operations of Directory *)

\* roles and user_roles as Directory sees them.
RoleStates == [r \in Roles |-> IF roles[r] = "absent" THEN "enabled" ELSE roles[r]]

RolesOfUsers == [u \in Subjects |-> {r \in Roles : <<u, r>> \in assigned}]

Shown == <<RoleStates, RolesOfUsers>>

LEMMA InitDirectory == Init => Directory!DirInit
BY DEF Init, Directory!DirInit

\* Nothing is seen of a step that changes neither.
LEMMA Stutter ==
    ASSUME UNCHANGED Shown
    PROVE  UNCHANGED Directory!dirVars
BY DEF Shown, RoleStates, RolesOfUsers, Directory!dirVars

\* A deletion commits: the role is deleted, and nobody has it any more.
LEMMA DeleteStep ==
    ASSUME IInv, NEW q \in Txns, Commit(q), txn[q].op = "delete"
    PROVE  Directory!DirNext
<1>1. PICK r \in Roles :
           /\ roles[r] \in {"enabled", "disabled"}
           /\ roles' = [roles EXCEPT ![r] = "deleted"]
           /\ assigned' = assigned \ RowsOf(Subjects, {r})
    BY AtCommit
<1>2. RoleStates[r] # "deleted" /\ RoleStates' = [RoleStates EXCEPT ![r] = "deleted"]
    BY <1>1 DEF RoleStates, IInv, TypeOK
<1>3. \A u \in Subjects, o \in Roles : <<u, o>> \in assigned' <=> <<u, o>> \in assigned /\ o # r
    BY <1>1 DEF RowsOf, Rows
<1>4. RolesOfUsers' = [u \in Subjects |-> RolesOfUsers[u] \ {r}]
    BY <1>3 DEF RolesOfUsers
<1>5. Directory!DeleteRole(r)
    BY <1>2, <1>4 DEF Directory!DeleteRole, RoleStates, RolesOfUsers
<1> QED BY <1>5 DEF Directory!DirNext

LEMMA ReplaceIsNext ==
    ASSUME NEW u \in Subjects, NEW s \in Scopes,
           NEW requested \in SUBSET Directory!RolesIn(s),
           NEW concurrent \in SUBSET RolesOfUsers[u],
           Directory!ReplaceUserRoles(u, s, requested, concurrent)
    PROVE  Directory!DirNext
BY DEF Directory!DirNext, RolesOfUsers

\* A replacement commits: the user has the requested roles of the scope, and of
\* the others only such as a replacement that ran beside this one has left there.
LEMMA ReplaceStep ==
    ASSUME IInv, NEW q \in Txns, Commit(q), txn[q].op = "replace"
    PROVE  Directory!DirNext
<1>1. PICK t \in Transaction :
      /\ t = txn[q]
      /\ t.added = {row \in t.area : row[2] \in t.roles}
      /\ t.cleared \subseteq t.area
      /\ \A r \in t.roles : roles[r] = "enabled" /\ ScopeOfRole[r] = t.scope
      /\ roles' = roles
      /\ assigned' = (assigned \ t.cleared) \cup t.added
    BY AtCommit DEF Commit
<1> DEFINE s == t.scope
<1>2. PICK u \in Subjects : t.area = RowsOf({u}, RolesIn(s))
    BY <1>1, AtCommit
<1>3. PICK kept : kept = {r \in RolesIn(s) : <<u, r>> \in assigned \ t.cleared}
    OBVIOUS
<1>4. t.roles \in SUBSET Roles /\ s \in Scopes
    BY <1>1 DEF Transaction
<1>5. Directory!RolesIn(s) = RolesIn(s)
    BY DEF Directory!RolesIn, RolesIn
<1>6. t.roles \in SUBSET RolesIn(s)
    BY <1>1, <1>4 DEF RolesIn
<1>7. kept \in SUBSET RolesOfUsers[u] /\ kept \subseteq RolesIn(s)
    BY <1>3 DEF RolesOfUsers, RolesIn
<1>8. \A r \in t.roles : RoleStates[r] = "enabled"
    BY <1>1, <1>4 DEF RoleStates
<1>9. UNCHANGED RoleStates
    BY <1>1 DEF RoleStates
<1>10. RolesOfUsers' = [RolesOfUsers EXCEPT ![u] = (RolesOfUsers[u] \ RolesIn(s)) \cup t.roles \cup kept]
  <2>1. \A r \in Roles : <<u, r>> \in assigned' <=>
          \/ <<u, r>> \in assigned /\ r \notin RolesIn(s)
          \/ r \in t.roles
          \/ r \in kept
      BY <1>1, <1>2, <1>3, <1>6 DEF RowsOf, Rows, RolesIn
  <2>2. \A v \in Subjects \ {u}, r \in Roles : <<v, r>> \in assigned' <=> <<v, r>> \in assigned
      BY <1>1, <1>2 DEF RowsOf, Rows
  <2>3. {r \in Roles : <<u, r>> \in assigned'} = (RolesOfUsers[u] \ RolesIn(s)) \cup t.roles \cup kept
      BY <1>4, <1>7, <2>1 DEF RolesOfUsers, RolesIn
  <2>4. \A v \in Subjects \ {u} : {r \in Roles : <<v, r>> \in assigned'} = RolesOfUsers[v]
      BY <2>2 DEF RolesOfUsers
  <2> QED BY <2>3, <2>4 DEF RolesOfUsers
<1>11. Directory!ReplaceUserRoles(u, s, t.roles, kept)
    BY <1>5, <1>6, <1>7, <1>8, <1>9, <1>10 DEF Directory!ReplaceUserRoles, RoleStates, RolesOfUsers
<1>12. t.roles \in SUBSET Directory!RolesIn(s)
    BY <1>5, <1>6
<1> HIDE DEF s
<1> QED BY <1>4, <1>7, <1>11, <1>12, ReplaceIsNext

\* Enabling and disabling is what it is; a role is there for Directory before it
\* is created.
LEMMA UpdateStep ==
    ASSUME IInv, NEW r \in Roles, NEW enabled \in BOOLEAN, UpdateRole(r, enabled)
    PROVE  Directory!DirNext
<1>1. /\ RoleStates[r] # "deleted"
      /\ RoleStates' = [RoleStates EXCEPT ![r] = IF enabled THEN "enabled" ELSE "disabled"]
    BY DEF UpdateRole, RoleStates, IInv, TypeOK
<1>2. UNCHANGED RolesOfUsers
    BY DEF UpdateRole, RolesOfUsers
<1>3. Directory!UpdateRole(r, enabled)
    BY <1>1, <1>2 DEF Directory!UpdateRole, RoleStates, RolesOfUsers
<1> QED BY <1>3 DEF Directory!DirNext

LEMMA NextDirectory == IInv /\ [Next]_vars => [Directory!DirNext]_(Directory!dirVars)
<1> SUFFICES ASSUME IInv, [Next]_vars PROVE Directory!DirNext \/ UNCHANGED Shown
    BY Stutter
<1>1. ASSUME NEW q \in Txns, Commit(q) PROVE Directory!DirNext
  <2>1. txn[q].op \in {"replace", "delete"}
      BY <1>1, AtCommit DEF Transaction
  <2> QED BY <1>1, <2>1, DeleteStep, ReplaceStep
<1>2. ASSUME NEW r \in Roles, NEW enabled \in BOOLEAN, UpdateRole(r, enabled)
      PROVE  Directory!DirNext
    BY <1>2, UpdateStep
<1>3. CASE UNCHANGED <<roles, assigned>>
    BY <1>3 DEF Shown, RoleStates, RolesOfUsers
<1>4. ASSUME NEW r \in Roles, CreateRole(r) PROVE UNCHANGED Shown
    BY <1>4 DEF CreateRole, Shown, RoleStates, RolesOfUsers, IInv, TypeOK
<1>5. ASSUME NEW q \in Txns, Step(q), ~Commit(q) PROVE UNCHANGED <<roles, assigned>>
    BY <1>5, StepNext DEF IInv
<1>6. ASSUME NEW q \in Txns,
             \/ \E u \in Subjects, s \in Scopes, rs \in Lists : StartReplace(q, u, s, rs)
             \/ \E r \in Roles : StartDelete(q, r)
             \/ Rollback(q)
             \/ BreakDeadlock(q)
      PROVE  UNCHANGED <<roles, assigned>>
    BY <1>6 DEF StartReplace, StartDelete, Begin, Rollback, BreakDeadlock
<1>7. CASE UNCHANGED vars
    BY <1>7 DEF vars, Shown, RoleStates, RolesOfUsers
<1> QED BY <1>1, <1>2, <1>3, <1>4, <1>5, <1>6, <1>7 DEF Next

\* Whatever runs beside them, replacing a user's roles and deleting a role look
\* to everybody else like one step each.
THEOREM TransactionsAreAtomic == Spec => ImplementsDirectory
BY LocksCorrect, InitDirectory, NextDirectory, PTL DEF Spec, ImplementsDirectory, Directory!DirSpec
=============================================================================
