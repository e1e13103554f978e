------------------------ MODULE PolicyLifecycleProofs ------------------------
(***************************************************************************)
(* Proofs about PolicyLifecycle, for every set of policies, requests,      *)
(* drafts, roles and endpoints; the last of them is that it implements      *)
(* PublishedCatalog.                                                       *)
(***************************************************************************)
EXTENDS PolicyLifecycle, TLAPS

USE DirectoryAssumption, PolicyAssumption

-----------------------------------------------------------------------------
(* Type correctness *)

\* A request that is not idle carries a call.
LEMMA ActiveCall ==
    ASSUME TypeOK, NEW q \in Requests, req[q].pc # "idle"
    PROVE  req[q] \in Call
BY DEF TypeOK, Idle

\* The content of a policy no one has created is a content.
LEMMA NoContentType == NoContent \in Content
<1>1. (CHOOSE r \in Rules : TRUE) \in Rules
    OBVIOUS
<1> QED BY <1>1 DEF NoContent, Content

\* The initial tables are well typed.
LEMMA InitType == Init => TypeOK
<1> SUFFICES ASSUME Init PROVE TypeOK
    OBVIOUS
<1>1. DirTypeOK
    BY DEF Init, DirInit, DirTypeOK, EntityState
<1>2. policies \in [Policies -> Value]
    BY NoContentType DEF Init, Value, Status
<1> QED BY <1>1, <1>2 DEF Init, TypeOK

\* The directory's own actions keep its tables well typed.
LEMMA DirStepType == DirTypeOK /\ DirNext => DirTypeOK'
<1> SUFFICES ASSUME DirTypeOK, DirNext PROVE DirTypeOK'
    OBVIOUS
<1> USE DEF DirTypeOK, EntityState
<1>1. CASE \E s \in Scopes, active \in BOOLEAN : SetScopeActive(s, active)
    BY <1>1 DEF SetScopeActive
<1>2. CASE \E r \in Roles, enabled \in BOOLEAN : UpdateRole(r, enabled)
    BY <1>2 DEF UpdateRole
<1>3. CASE \E r \in Roles : DeleteRole(r)
    BY <1>3 DEF DeleteRole
<1>4. CASE \E e \in Endpoints, enabled \in BOOLEAN : UpdateEndpoint(e, enabled)
    BY <1>4 DEF UpdateEndpoint
<1>5. CASE \E e \in Endpoints : DeleteEndpoint(e)
    BY <1>5 DEF DeleteEndpoint
<1>6. CASE \E u \in Subjects, s \in Scopes :
             \E requested \in SUBSET RolesIn(s), concurrent \in SUBSET userRoles[u] :
               ReplaceUserRoles(u, s, requested, concurrent)
    BY <1>6 DEF ReplaceUserRoles, RolesIn
<1> QED BY <1>1, <1>2, <1>3, <1>4, <1>5, <1>6 DEF DirNext

\* A request that starts or proceeds carries a call again, or is idle.
LEMMA ReqType ==
    ASSUME TypeOK, NEW q \in Requests, NEW next \in Call \cup {Idle},
           req' = [req EXCEPT ![q] = next]
    PROVE  req' \in [Requests -> Call \cup {Idle}]
BY DEF TypeOK

\* What the first read of a handler leaves in the call record.
Admitted(next, p) ==
    /\ next.policy = p
    /\ \/ /\ next.op = "create" /\ next.pc = "scope"
          /\ policies[p].status = "absent"
          /\ \A r \in Requests : req[r] # Idle => req[r].policy # p
          /\ next.value.status = "draft" /\ next.value.version = 0
       \/ /\ next.op = "update" /\ next.pc = "scope"
          /\ Found(p) /\ policies[p].status # "published"
          /\ next.value.status = policies[p].status
          /\ next.value.version = policies[p].version
       \/ /\ next.op = "publish" /\ next.pc = "readRoles"
          /\ policies[p].status \in {"draft", "disabled"}
          /\ next.value.status = policies[p].status
          /\ next.value.version = policies[p].version
       \/ next.op = "rollback" /\ next.pc = "getVersion" /\ Found(p)

\* Every new request starts a well-typed call and writes no table.
LEMMA ArriveCall ==
    ASSUME TypeOK, NEW q \in Requests, NEW p \in Policies, Arrive(q, p)
    PROVE  /\ UNCHANGED <<dirVars, policies, versions>>
           /\ req[q] = Idle
           /\ \E next \in Call : Admitted(next, p) /\ req' = [req EXCEPT ![q] = next]
<1> USE DEF Call, Value, Status, Admitted
<1>1. policies[p] \in Value
    BY DEF TypeOK
<1>2. CASE \E body \in Bodies : Create(q, p, body)
  <2>1. PICK body \in Bodies : Create(q, p, body)
      BY <1>2
  <2> DEFINE call == [pc |-> "scope", op |-> "create", policy |-> p, todo |-> {},
                      value |-> [status |-> "draft", version |-> 0, content |-> body]]
  <2>2. call \in Call
      OBVIOUS
  <2> QED BY <2>1, <2>2 DEF Create, Start
<1>3. CASE \E body \in Bodies : Update(q, p, body)
  <2>1. PICK body \in Bodies : Update(q, p, body)
      BY <1>3
  <2> DEFINE call == [pc |-> "scope", op |-> "update", policy |-> p, todo |-> {},
                      value |-> [policies[p] EXCEPT !.content = body]]
  <2>2. call \in Call
      BY <1>1
  <2>3. Admitted(call, p)
      BY <1>1, <2>1 DEF Update
  <2> QED BY <2>1, <2>2, <2>3 DEF Update, Start
<1>4. CASE Publish(q, p)
  <2> DEFINE bare == [rule |-> policies[p].content.rule, roles |-> {}, endpoints |-> {}]
             call == [pc |-> "readRoles", op |-> "publish", policy |-> p, todo |-> {},
                      value |-> [policies[p] EXCEPT !.content = bare]]
  <2>1. bare \in Content
      BY <1>1 DEF Content
  <2>2. call \in Call
      BY <1>1, <2>1
  <2>3. Admitted(call, p)
      BY <1>1, <1>4 DEF Publish
  <2>4. req[q] = Idle /\ req' = [req EXCEPT ![q] = call]
      BY <1>1, <1>4 DEF Publish, Start
  <2> QED BY <1>4, <2>2, <2>3, <2>4 DEF Publish, Start
<1>5. CASE \E v \in RollbackVersions : Rollback(q, p, v)
  <2>1. PICK v \in RollbackVersions : Rollback(q, p, v)
      BY <1>5
  <2> DEFINE call == [pc |-> "getVersion", op |-> "rollback", policy |-> p, todo |-> {},
                      value |-> [policies[p] EXCEPT !.version = v]]
  <2>2. call \in Call
      BY <1>1
  <2>3. Admitted(call, p)
      BY <1>1, <2>1 DEF Rollback
  <2> QED BY <2>1, <2>2, <2>3 DEF Rollback, Start
<1> QED BY <1>2, <1>3, <1>4, <1>5 DEF Arrive

\* A new request leaves everything well typed.
LEMMA ArriveType ==
    ASSUME TypeOK, NEW q \in Requests, NEW p \in Policies, Arrive(q, p)
    PROVE  TypeOK'
BY ArriveCall, ReqType DEF TypeOK, DirTypeOK, dirVars

\* A database call of a handler leaves everything well typed.
LEMMA HandleType ==
    ASSUME TypeOK, NEW q \in Requests, Handle(q)
    PROVE  TypeOK'
<1> DEFINE c == req[q]
<1> USE DEF Call, Value, Status, Content
<1>1. c \in Call
    BY ActiveCall DEF Handle, ValidateScope, ValidateRole, ValidateEndpoints, ReadRoles,
       ReadTargets, SaveVersion, GetVersion, Save, Commit, Proceed
<1>2. policies[c.policy] \in Value
    BY <1>1 DEF TypeOK
<1>3. CASE ValidateScope(q)
    BY <1>1, <1>3 DEF ValidateScope, Proceed, TypeOK, dirVars, DirTypeOK
<1>4. CASE ValidateRole(q)
  <2>1. \A r \in c.todo : [c EXCEPT !.todo = @ \ {r}] \in Call
      BY <1>1
  <2>2. PICK next \in Call \cup {Idle} : req' = [req EXCEPT ![q] = next]
      BY <1>4, <2>1 DEF ValidateRole, Proceed
  <2> QED BY <1>4, <2>2, ReqType DEF ValidateRole, TypeOK, dirVars, DirTypeOK
<1>5. CASE ValidateEndpoints(q)
    BY <1>1, <1>5 DEF ValidateEndpoints, Proceed, TypeOK, dirVars, DirTypeOK
<1>6. CASE ReadRoles(q)
  <2>1. [c EXCEPT !.pc = "readTargets",
                  !.value.content.roles = policies[c.policy].content.roles] \in Call
      BY <1>1, <1>2
  <2> QED BY <1>6, <2>1 DEF ReadRoles, Proceed, TypeOK, dirVars, DirTypeOK
<1>7. CASE ReadTargets(q)
  <2>1. [c EXCEPT !.pc = "saveVersion",
                  !.value.content.endpoints = policies[c.policy].content.endpoints] \in Call
      BY <1>1, <1>2
  <2> QED BY <1>7, <2>1 DEF ReadTargets, Proceed, TypeOK, dirVars, DirTypeOK
<1>8. CASE SaveVersion(q)
  <2>1. [c EXCEPT !.pc = "save", !.value = Published(c.value)] \in Call
    <3>1. c.value \in Value /\ c.value.version + 1 \in Nat
        BY <1>1
    <3>2. Published(c.value) \in Value
        BY <3>1 DEF Published
    <3> QED BY <1>1, <3>2
  <2>2. [policy |-> c.policy, version |-> c.value.version + 1, content |-> c.value.content]
          \in Snapshots
      BY <1>1 DEF Snapshots
  <2> QED BY <1>8, <2>1, <2>2 DEF SaveVersion, Proceed, TypeOK, dirVars, DirTypeOK
<1>9. CASE GetVersion(q)
  <2>1. \A s \in versions : [c EXCEPT !.pc = "save", !.value = Restored(c.value, s)] \in Call
      BY <1>1 DEF Restored, TypeOK, Snapshots
  <2>2. PICK next \in Call \cup {Idle} : req' = [req EXCEPT ![q] = next]
      BY <1>9, <2>1 DEF GetVersion, Proceed
  <2> QED BY <1>9, <2>2, ReqType DEF GetVersion, TypeOK, dirVars, DirTypeOK
<1>10. CASE Save(q)
    BY <1>1, <1>10 DEF Save, Proceed, TypeOK, dirVars, DirTypeOK
<1>11. CASE Commit(q)
    BY <1>1, <1>11 DEF Commit, Proceed, TypeOK, dirVars, DirTypeOK
<1> QED BY <1>3, <1>4, <1>5, <1>6, <1>7, <1>8, <1>9, <1>10, <1>11 DEF Handle

\* Every step leaves everything well typed.
LEMMA NextType == TypeOK /\ [Next]_vars => TypeOK'
<1> SUFFICES ASSUME TypeOK, [Next]_vars PROVE TypeOK'
    OBVIOUS
<1>1. CASE \E q \in Requests, p \in Policies : Arrive(q, p)
    BY <1>1, ArriveType
<1>2. CASE \E p \in Policies : Delete(p)
    BY <1>2 DEF Delete, TypeOK, Value, Status, dirVars, DirTypeOK
<1>3. CASE \E q \in Requests : Handle(q)
    BY <1>3, HandleType
<1>4. CASE \E q \in Requests : Fail(q)
    BY <1>4 DEF Fail, TypeOK, dirVars, DirTypeOK
<1>5. CASE DirNext /\ UNCHANGED policyVars
    BY <1>5, DirStepType DEF TypeOK, policyVars
<1>6. CASE UNCHANGED vars
    BY <1>6 DEF TypeOK, vars, dirVars, policyVars, DirTypeOK
<1> QED BY <1>1, <1>2, <1>3, <1>4, <1>5, <1>6 DEF Next, PolicyNext

\* Rows, snapshots, calls in progress and the directory always have their types.
THEOREM TypeCorrect == Spec => []TypeOK
<1> QED BY InitType, NextType, PTL DEF Spec

-----------------------------------------------------------------------------
(* Versions and published policies *)

IsDraft(value) == value.status = "draft" /\ value.version = 0

IsPublished(p, value) == value.status = "published" /\ FrozenAs(p, value)

\* What a call carries, by the database call it is about to make.  Editors and
\* publishers carry a draft until SaveVersion; from SaveVersion and GetVersion on
\* the value is one of the stored snapshots.
CallVersion(c) ==
    \/ c.pc # "getVersion" /\ IsDraft(c.value)
    \/ c.pc = "getVersion"
    \/ c.pc \in {"save", "commit"} /\ IsPublished(c.policy, c.value)

\* The two invariants are not inductive alone: a commit writes what the request
\* has carried since it read the row.
VersionInv ==
    /\ OnlyFirstVersion
    /\ PublishedMatchesSnapshot
    /\ \A q \in Requests : req[q] # Idle => CallVersion(req[q])

\* A step of one request that writes no table keeps VersionInv if what the
\* request carries afterwards does.
LEMMA VersionOfCall ==
    ASSUME TypeOK, VersionInv, UNCHANGED <<policies, versions>>,
           NEW q \in Requests, NEW next \in Call \cup {Idle},
           next = Idle \/ CallVersion(next),
           req' = [req EXCEPT ![q] = next]
    PROVE  VersionInv'
BY DEF TypeOK, VersionInv, OnlyFirstVersion, PublishedMatchesSnapshot, CallVersion,
       IsPublished, IsDraft, FrozenAs

\* A new request starts with a version number its operation may carry.
LEMMA ArriveVersion ==
    ASSUME TypeOK, VersionInv, NEW q \in Requests, NEW p \in Policies, Arrive(q, p)
    PROVE  VersionInv'
<1>1. PICK next \in Call : Admitted(next, p) /\ req' = [req EXCEPT ![q] = next]
    BY ArriveCall
<1>2. policies[p].status \in Status /\ policies[p].status # "disabled"
      /\ (policies[p].status = "draft" => policies[p].version = 0)
    BY DEF TypeOK, Value, VersionInv, OnlyFirstVersion
<1>3. CallVersion(next)
    BY <1>1, <1>2 DEF Admitted, Found, CallVersion, IsDraft, Status
<1> QED BY <1>1, <1>3, ArriveCall, VersionOfCall

\* A database call of a handler keeps version numbers and snapshots consistent.
LEMMA HandleVersion ==
    ASSUME TypeOK, VersionInv, NEW q \in Requests, Handle(q)
    PROVE  VersionInv'
<1>1. PICK c \in Call :
        /\ c = req[q] /\ c.policy \in Policies
        /\ c.value \in Value /\ c.value.content \in Content
        /\ CallVersion(c)
  <2>1. req[q].pc # "idle"
      BY DEF Handle, ValidateScope, ValidateRole, ValidateEndpoints, ReadRoles,
         ReadTargets, SaveVersion, GetVersion, Save, Commit, Proceed
  <2> QED BY <2>1, ActiveCall DEF Call, Value, VersionInv, Idle
<1>2. policies[c.policy] \in Value
    BY <1>1 DEF TypeOK
<1>3. CASE ValidateScope(q) \/ ValidateRole(q) \/ ValidateEndpoints(q) \/ Save(q)
  <2>1. PICK next \in Call \cup {Idle} :
          /\ req' = [req EXCEPT ![q] = next]
          /\ next # Idle => /\ next.policy = c.policy /\ next.value = c.value
                            /\ c.pc # "getVersion" /\ next.pc # "getVersion"
                            /\ c.pc \in {"save", "commit"} => next.pc = "commit"
    <3> USE DEF Call, Proceed
    <3>1. CASE ValidateScope(q)
      <4>1. [c EXCEPT !.pc = "validate", !.todo = c.value.content.roles] \in Call
          BY <1>1 DEF Content
      <4> QED BY <1>1, <3>1, <4>1 DEF ValidateScope
    <3>2. CASE ValidateRole(q)
      <4>1. \A r \in c.todo : [c EXCEPT !.todo = @ \ {r}] \in Call
          BY <1>1
      <4> QED BY <1>1, <3>2, <4>1 DEF ValidateRole
    <3>3. CASE ValidateEndpoints(q)
      <4>1. [c EXCEPT !.pc = "save"] \in Call
          BY <1>1
      <4> QED BY <1>1, <3>3, <4>1 DEF ValidateEndpoints
    <3>4. CASE Save(q)
      <4>1. [c EXCEPT !.pc = "commit"] \in Call
          BY <1>1
      <4> QED BY <1>1, <3>4, <4>1 DEF Save
    <3> QED BY <1>3, <3>1, <3>2, <3>3, <3>4
  <2>2. next = Idle \/ CallVersion(next)
      BY <1>1, <2>1 DEF CallVersion
  <2> QED BY <1>1, <1>3, <2>1, <2>2, VersionOfCall
          DEF ValidateScope, ValidateRole, ValidateEndpoints, Save
<1>4. CASE ReadRoles(q)
  <2> DEFINE call == [c EXCEPT !.pc = "readTargets",
                               !.value.content.roles = policies[c.policy].content.roles]
  <2>1. call \in Call
      BY <1>1, <1>2 DEF Call, Value, Content
  <2>2. CallVersion(call)
      BY <1>1, <1>4 DEF ReadRoles, Proceed, CallVersion, IsDraft, Call, Value
  <2> QED BY <1>1, <1>4, <2>1, <2>2, VersionOfCall DEF ReadRoles, Proceed
<1>5. CASE ReadTargets(q)
  <2> DEFINE call == [c EXCEPT !.pc = "saveVersion",
                               !.value.content.endpoints = policies[c.policy].content.endpoints]
  <2>1. call \in Call
      BY <1>1, <1>2 DEF Call, Value, Content
  <2>2. CallVersion(call)
      BY <1>1, <1>5 DEF ReadTargets, Proceed, CallVersion, IsDraft, Call, Value
  <2> QED BY <1>1, <1>5, <2>1, <2>2, VersionOfCall DEF ReadTargets, Proceed
<1>6. CASE SaveVersion(q)
  <2>1. IsDraft(c.value)
      BY <1>1, <1>6 DEF SaveVersion, Proceed, CallVersion
  <2>2. CASE HasVersion(c.policy, c.value.version + 1)
      BY <1>1, <1>6, <2>2, VersionOfCall DEF SaveVersion, Proceed
  <2>3. CASE ~HasVersion(c.policy, c.value.version + 1)
    <3> DEFINE snapshot == [policy |-> c.policy, version |-> c.value.version + 1,
                            content |-> c.value.content]
               call == [c EXCEPT !.pc = "save", !.value = Published(c.value)]
    <3>1. /\ versions' = versions \cup {snapshot}
          /\ UNCHANGED policies
          /\ req' = [req EXCEPT ![q] = call]
        BY <1>1, <1>6, <2>3 DEF SaveVersion, Proceed
    <3>2. /\ Published(c.value).status = "published"
          /\ Published(c.value).version = 1
          /\ Published(c.value).content = c.value.content
        BY <1>1, <2>1 DEF Published, Value, IsDraft
    <3>3. snapshot.version = 1
        BY <2>1 DEF IsDraft
    <3>4. \A p, value : FrozenAs(p, value) => FrozenAs(p, value)'
        BY <3>1 DEF FrozenAs
    <3>5. FrozenAs(c.policy, Published(c.value))'
      <4>1. snapshot \in versions' /\ snapshot.policy = c.policy
            /\ snapshot.content = c.value.content
          BY <3>1
      <4>2. \E s \in versions' : /\ s.policy = c.policy
                                 /\ s.version = Published(c.value).version
                                 /\ s.content = Published(c.value).content
          BY <3>2, <3>3, <4>1
      <4> QED BY <4>2 DEF FrozenAs
    <3>6. OnlyFirstVersion'
        BY <3>1, <3>3 DEF VersionInv, OnlyFirstVersion
    <3>7. PublishedMatchesSnapshot'
        BY <3>1, <3>4 DEF VersionInv, PublishedMatchesSnapshot
    <3>8. ASSUME NEW r \in Requests, req'[r] # Idle
          PROVE  CallVersion(req[r])'
      <4>1. CASE r = q
          BY <1>1, <3>1, <3>2, <3>5, <4>1 DEF TypeOK, CallVersion, IsPublished, Call
      <4>2. CASE r # q
          BY <3>1, <3>4, <3>8, <4>2 DEF TypeOK, VersionInv, CallVersion, IsPublished
      <4> QED BY <4>1, <4>2
    <3> QED BY <3>6, <3>7, <3>8 DEF VersionInv
  <2> QED BY <2>2, <2>3
<1>7. CASE GetVersion(q)
  <2>1. CASE req' = [req EXCEPT ![q] = Idle]
      BY <1>7, <2>1, VersionOfCall DEF GetVersion
  <2>2. CASE \E s \in versions :
               /\ s.policy = c.policy /\ s.version = c.value.version
               /\ req' = [req EXCEPT ![q] = [c EXCEPT !.pc = "save",
                                                     !.value = Restored(c.value, s)]]
    <3>1. PICK s \in versions :
               /\ s.policy = c.policy /\ s.version = c.value.version
               /\ req' = [req EXCEPT ![q] = [c EXCEPT !.pc = "save",
                                                     !.value = Restored(c.value, s)]]
        BY <2>2
    <3> DEFINE call == [c EXCEPT !.pc = "save", !.value = Restored(c.value, s)]
    <3>2. Restored(c.value, s) \in Value
        BY <1>1 DEF Restored, Value, Status, TypeOK, Snapshots
    <3>3. call \in Call
        BY <1>1, <3>2 DEF Call
    <3>4. IsPublished(c.policy, Restored(c.value, s))
        BY <1>1, <3>1 DEF IsPublished, FrozenAs, Restored, Value
    <3>5. CallVersion(call)
        BY <1>1, <3>4 DEF CallVersion, Call
    <3> QED BY <1>7, <3>1, <3>3, <3>5, VersionOfCall DEF GetVersion
  <2> QED BY <1>1, <1>7, <2>1, <2>2 DEF GetVersion, Proceed
<1>8. CASE Commit(q)
  <2>1. /\ policies' = [policies EXCEPT ![c.policy] = c.value]
        /\ UNCHANGED versions
        /\ req' = [req EXCEPT ![q] = Idle]
        /\ c.pc = "commit"
      BY <1>1, <1>8 DEF Commit, Proceed
  <2>2. IsDraft(c.value) \/ IsPublished(c.policy, c.value)
      BY <1>1, <2>1 DEF CallVersion
  <2>3. OnlyFirstVersion'
      BY <1>1, <2>1, <2>2 DEF TypeOK, VersionInv, OnlyFirstVersion, IsDraft, IsPublished, FrozenAs
  <2>4. PublishedMatchesSnapshot'
      BY <1>1, <2>1, <2>2 DEF TypeOK, VersionInv, PublishedMatchesSnapshot, IsDraft,
         IsPublished, FrozenAs
  <2>5. \A r \in Requests : req'[r] # Idle => CallVersion(req[r])'
      BY <2>1 DEF TypeOK, VersionInv, CallVersion, IsPublished, FrozenAs
  <2> QED BY <2>3, <2>4, <2>5 DEF VersionInv
<1> QED BY <1>3, <1>4, <1>5, <1>6, <1>7, <1>8 DEF Handle

\* Every step keeps version numbers and snapshots consistent.
LEMMA NextVersion == TypeOK /\ VersionInv /\ [Next]_vars => VersionInv'
<1> SUFFICES ASSUME TypeOK, VersionInv, [Next]_vars PROVE VersionInv'
    OBVIOUS
<1>1. CASE \E q \in Requests, p \in Policies : Arrive(q, p)
    BY <1>1, ArriveVersion
<1>2. CASE \E p \in Policies : Delete(p)
    BY <1>2 DEF Delete, TypeOK, VersionInv, OnlyFirstVersion, PublishedMatchesSnapshot,
       FrozenAs, CallVersion, IsPublished
<1>3. CASE \E q \in Requests : Handle(q)
    BY <1>3, HandleVersion
<1>4. CASE \E q \in Requests : Fail(q)
    BY <1>4, VersionOfCall DEF Fail
<1>5. CASE UNCHANGED policyVars
    BY <1>5 DEF policyVars, VersionInv, OnlyFirstVersion, PublishedMatchesSnapshot, FrozenAs,
       CallVersion, IsPublished
<1> QED BY <1>1, <1>2, <1>3, <1>4, <1>5 DEF Next, PolicyNext, vars

\* With no policy and no version everything is consistent.
LEMMA InitVersion == Init => VersionInv
BY DEF Init, VersionInv, OnlyFirstVersion, PublishedMatchesSnapshot

\* Version numbers and snapshots are always consistent.
LEMMA VersionAlways == Spec => []VersionInv
<1> QED BY InitVersion, NextVersion, TypeCorrect, PTL DEF Spec

\* A published policy always is the stored snapshot of its version.
THEOREM PublishedIsSnapshot == Spec => []PublishedMatchesSnapshot
<1>1. VersionInv => PublishedMatchesSnapshot
    BY DEF VersionInv
<1> QED BY <1>1, VersionAlways, PTL

\* No policy ever has a version other than the first.
THEOREM FirstVersionOnly == Spec => []OnlyFirstVersion
<1>1. VersionInv => OnlyFirstVersion
    BY DEF VersionInv
<1> QED BY <1>1, VersionAlways, PTL

-----------------------------------------------------------------------------
(* Bindings *)

NotEmpty(content) == content.roles # {} /\ content.endpoints # {}

RolesBound(p, roles) ==
    roles # {} /\ \A r \in roles : ScopeOfRole[r] = ScopeOfPolicy[p]

\* What is known of the bindings a call carries: editors pass validation, then
\* the triggers; a publisher reads one list, then the other; a rollback takes
\* both from a snapshot.
CallBound(c) ==
    /\ c.pc \in {"readRoles", "readTargets", "saveVersion"} => c.op = "publish"
    /\ c.pc = "getVersion" => c.op = "rollback"
    /\ c.op # "create" => policies[c.policy].status # "absent"
    /\ c.op \in {"create", "update"} /\ c.pc # "scope" => NotEmpty(c.value.content)
    /\ c.op = "publish" /\ c.pc # "readRoles" => RolesBound(c.policy, c.value.content.roles)
    /\ c.op = "publish" /\ c.pc \notin {"readRoles", "readTargets"} =>
         WellBound(c.policy, c.value.content)
    /\ c.op = "rollback" /\ c.pc # "getVersion" => WellBound(c.policy, c.value.content)
    /\ c.pc = "commit" => WellBound(c.policy, c.value.content)

BindInv ==
    /\ BindingsStayInScope
    /\ \A q \in Requests : req[q] # Idle => CallBound(req[q])

\* What a request in progress carries is bound within its policy's scope.
LEMMA BoundCall ==
    ASSUME TypeOK, BindInv, UNCHANGED <<policies, versions>>,
           NEW q \in Requests, NEW next \in Call \cup {Idle},
           next = Idle \/ CallBound(next),
           req' = [req EXCEPT ![q] = next]
    PROVE  BindInv'
BY DEF TypeOK, BindInv, BindingsStayInScope, CallBound

\* A new request carries nothing that is bound out of scope.
LEMMA ArriveBound ==
    ASSUME TypeOK, BindInv, NEW q \in Requests, NEW p \in Policies, Arrive(q, p)
    PROVE  BindInv'
<1>1. PICK next \in Call : Admitted(next, p) /\ req' = [req EXCEPT ![q] = next]
    BY ArriveCall
<1>2. CallBound(next)
    BY <1>1 DEF Admitted, Found, CallBound
<1> QED BY <1>1, <1>2, ArriveCall, BoundCall

\* A database call of a handler writes no binding out of scope.
LEMMA HandleBound ==
    ASSUME TypeOK, VersionInv, BindInv, NEW q \in Requests, Handle(q)
    PROVE  BindInv'
<1>1. PICK c \in Call :
        /\ c = req[q] /\ c.policy \in Policies
        /\ c.value \in Value /\ c.value.content \in Content
        /\ CallVersion(c) /\ CallBound(c)
  <2>1. req[q].pc # "idle"
      BY DEF Handle, ValidateScope, ValidateRole, ValidateEndpoints, ReadRoles,
         ReadTargets, SaveVersion, GetVersion, Save, Commit, Proceed
  <2> QED BY <2>1, ActiveCall DEF Call, Value, VersionInv, BindInv, Idle
<1>2. policies[c.policy] \in Value
    BY <1>1 DEF TypeOK
<1>3. CASE ValidateScope(q)
  <2>1. Complete(c.value.content) => NotEmpty(c.value.content)
      BY DEF Complete, NotEmpty
  <2> DEFINE call == [c EXCEPT !.pc = "validate", !.todo = c.value.content.roles]
  <2>2. call \in Call
      BY <1>1 DEF Call, Content
  <2>3. Complete(c.value.content) => CallBound(call)
      BY <1>1, <1>3, <2>1 DEF ValidateScope, Proceed, CallBound, Call
  <2> QED BY <1>1, <1>3, <2>2, <2>3, BoundCall DEF ValidateScope, Proceed
<1>4. CASE ValidateRole(q)
  <2>1. ASSUME NEW r \in c.todo
        PROVE  [c EXCEPT !.todo = @ \ {r}] \in Call /\ CallBound([c EXCEPT !.todo = @ \ {r}])
      BY <1>1 DEF CallBound, Call
  <2> QED BY <1>1, <1>4, <2>1, BoundCall DEF ValidateRole, Proceed
<1>5. CASE ValidateEndpoints(q)
  <2>1. [c EXCEPT !.pc = "save"] \in Call /\ CallBound([c EXCEPT !.pc = "save"])
      BY <1>1, <1>5 DEF ValidateEndpoints, Proceed, CallBound, Call
  <2> QED BY <1>1, <1>5, <2>1, BoundCall DEF ValidateEndpoints, Proceed
<1>6. CASE ReadRoles(q)
  <2> DEFINE call == [c EXCEPT !.pc = "readTargets",
                               !.value.content.roles = policies[c.policy].content.roles]
  <2>1. call \in Call
      BY <1>1, <1>2 DEF Call, Value, Content
  <2>2. /\ call.pc = "readTargets" /\ call.op = "publish" /\ c.op = "publish" /\ call.policy = c.policy
        /\ call.value.content.roles = policies[c.policy].content.roles
    <3>1. c.op = "publish"
        BY <1>1, <1>6 DEF ReadRoles, Proceed, CallBound
    <3> QED BY <1>1, <3>1 DEF Call, Value, Content
  <2>3. WellBound(c.policy, policies[c.policy].content)
      BY <1>1, <1>6 DEF ReadRoles, Proceed, CallBound, BindInv, BindingsStayInScope
  <2>4. policies[c.policy].status # "absent"
      BY <1>1, <2>2 DEF CallBound, Call
  <2> HIDE DEF call
  <2>5. CallBound(call)
      BY <2>2, <2>3, <2>4 DEF CallBound, RolesBound, WellBound
  <2> QED BY <1>1, <1>6, <2>1, <2>5, BoundCall DEF ReadRoles, Proceed, call
<1>7. CASE ReadTargets(q)
  <2> DEFINE call == [c EXCEPT !.pc = "saveVersion",
                               !.value.content.endpoints = policies[c.policy].content.endpoints]
  <2>1. call \in Call
      BY <1>1, <1>2 DEF Call, Value, Content
  <2>2. /\ call.pc = "saveVersion" /\ call.op = "publish" /\ c.op = "publish" /\ call.policy = c.policy
        /\ call.value.content.roles = c.value.content.roles
        /\ call.value.content.endpoints = policies[c.policy].content.endpoints
    <3>1. c.op = "publish"
        BY <1>1, <1>7 DEF ReadTargets, Proceed, CallBound
    <3> QED BY <1>1, <3>1 DEF Call, Value, Content
  <2>3. WellBound(c.policy, policies[c.policy].content)
      BY <1>1, <1>7 DEF ReadTargets, Proceed, CallBound, BindInv, BindingsStayInScope
  <2>4. RolesBound(c.policy, c.value.content.roles)
      BY <1>1, <1>7 DEF ReadTargets, Proceed, CallBound
  <2>5. policies[c.policy].status # "absent"
      BY <1>1, <2>2 DEF CallBound, Call
  <2> HIDE DEF call
  <2>6. CallBound(call)
      BY <2>2, <2>3, <2>4, <2>5 DEF CallBound, RolesBound, WellBound
  <2> QED BY <1>1, <1>7, <2>1, <2>6, BoundCall DEF ReadTargets, Proceed, call
<1>8. CASE SaveVersion(q)
  <2> DEFINE snapshot == [policy |-> c.policy, version |-> c.value.version + 1,
                          content |-> c.value.content]
             call == [c EXCEPT !.pc = "save", !.value = Published(c.value)]
  <2>1. c.op = "publish" /\ WellBound(c.policy, c.value.content)
      BY <1>1, <1>8 DEF SaveVersion, Proceed, CallBound
  <2>2. versions' \subseteq versions \cup {snapshot} /\ UNCHANGED policies
      BY <1>1, <1>8 DEF SaveVersion
  <2>3. req' = [req EXCEPT ![q] = call] \/ req' = [req EXCEPT ![q] = Idle]
      BY <1>1, <1>8 DEF SaveVersion, Proceed
  <2>4. /\ call.pc = "save" /\ call.op = "publish" /\ call.policy = c.policy
        /\ call.value.content = c.value.content
      BY <1>1, <2>1 DEF Call, Value, Published
  <2>5. policies[c.policy].status # "absent"
      BY <1>1, <2>1 DEF CallBound
  <2>6. CallBound(call)
      BY <2>1, <2>4, <2>5 DEF CallBound, WellBound, RolesBound
  <2>7. BindingsStayInScope'
      BY <2>1, <2>2 DEF BindInv, BindingsStayInScope
  <2>8. ASSUME NEW r \in Requests, req'[r] # Idle
        PROVE  CallBound(req[r])'
    <3>1. CallBound(req'[r])
      <4>1. CASE r = q
          BY <2>3, <2>6, <2>8, <4>1 DEF TypeOK
      <4>2. CASE r # q
          BY <2>3, <2>8, <4>2 DEF TypeOK, BindInv
      <4> QED BY <4>1, <4>2
    <3> QED BY <2>2, <3>1 DEF CallBound
  <2> QED BY <2>7, <2>8 DEF BindInv
<1>9. CASE GetVersion(q)
  <2>1. CASE req' = [req EXCEPT ![q] = Idle]
      BY <1>9, <2>1, BoundCall DEF GetVersion
  <2>2. CASE \E s \in versions :
               /\ s.policy = c.policy
               /\ req' = [req EXCEPT ![q] = [c EXCEPT !.pc = "save",
                                                     !.value = Restored(c.value, s)]]
    <3>1. PICK s \in versions :
               /\ s.policy = c.policy
               /\ req' = [req EXCEPT ![q] = [c EXCEPT !.pc = "save",
                                                     !.value = Restored(c.value, s)]]
        BY <2>2
    <3> DEFINE call == [c EXCEPT !.pc = "save", !.value = Restored(c.value, s)]
    <3>2. Restored(c.value, s) \in Value
        BY <1>1 DEF Restored, Value, Status, TypeOK, Snapshots
    <3>3. call \in Call
        BY <1>1, <3>2 DEF Call
    <3>4. c.op = "rollback"
        BY <1>1, <1>9 DEF GetVersion, CallBound
    <3>5. /\ call.pc = "save" /\ call.op = "rollback" /\ call.policy = c.policy
          /\ call.value.content = s.content
        BY <1>1, <3>4 DEF Call, Value, Restored
    <3>6. WellBound(c.policy, s.content)
        BY <3>1 DEF BindInv, BindingsStayInScope
    <3>7. CallBound(call)
        BY <1>1, <3>4, <3>5, <3>6 DEF CallBound
    <3> QED BY <1>9, <3>1, <3>3, <3>7, BoundCall DEF GetVersion
  <2> QED BY <1>1, <1>9, <2>1, <2>2 DEF GetVersion, Proceed
<1>10. CASE Save(q)
  <2> DEFINE call == [c EXCEPT !.pc = "commit"]
  <2>1. req' = [req EXCEPT ![q] = Idle] \/
        (MayBind(c.policy, c.value.content) /\ req' = [req EXCEPT ![q] = call])
      BY <1>1, <1>10 DEF Save, Proceed
  <2>2. call \in Call
      BY <1>1 DEF Call
  <2>3. NotEmpty(c.value.content)
      BY <1>1, <1>10 DEF Save, CallBound, WellBound, NotEmpty, Call
  <2>4. MayBind(c.policy, c.value.content) => WellBound(c.policy, c.value.content)
      BY <2>3 DEF MayBind, WellBound, NotEmpty
  <2>5. MayBind(c.policy, c.value.content) => CallBound(call)
      BY <1>1, <1>10, <2>4 DEF Save, CallBound, Call, WellBound, NotEmpty
  <2> QED BY <1>10, <2>1, <2>2, <2>5, BoundCall DEF Save
<1>11. CASE Commit(q)
  <2>1. /\ policies' = [policies EXCEPT ![c.policy] = c.value]
        /\ UNCHANGED versions
        /\ req' = [req EXCEPT ![q] = Idle]
        /\ c.pc = "commit"
      BY <1>1, <1>11 DEF Commit, Proceed
  <2>2. c.value.status # "absent" /\ WellBound(c.policy, c.value.content)
      BY <1>1, <2>1 DEF CallVersion, IsDraft, IsPublished, CallBound
  <2>3. BindingsStayInScope'
      BY <1>1, <2>1, <2>2 DEF TypeOK, BindInv, BindingsStayInScope
  <2>4. \A p \in Policies : policies[p].status # "absent" => policies'[p].status # "absent"
      BY <1>1, <2>1, <2>2 DEF TypeOK
  <2>5. \A r \in Requests : req'[r] # Idle => req'[r] = req[r] /\ req[r] \in Call
      BY <2>1 DEF TypeOK
  <2>6. \A r \in Requests : req'[r] # Idle => CallBound(req[r])'
      BY <2>4, <2>5 DEF BindInv, CallBound, Call
  <2> QED BY <2>3, <2>6 DEF BindInv
<1> QED BY <1>3, <1>4, <1>5, <1>6, <1>7, <1>8, <1>9, <1>10, <1>11 DEF Handle

\* Every step keeps bindings within their scope.
LEMMA NextBound == TypeOK /\ VersionInv /\ BindInv /\ [Next]_vars => BindInv'
<1> SUFFICES ASSUME TypeOK, VersionInv, BindInv, [Next]_vars PROVE BindInv'
    OBVIOUS
<1>1. CASE \E q \in Requests, p \in Policies : Arrive(q, p)
    BY <1>1, ArriveBound
<1>2. CASE \E p \in Policies : Delete(p)
    BY <1>2 DEF Delete, Found, TypeOK, BindInv, BindingsStayInScope, CallBound, Value, Call
<1>3. CASE \E q \in Requests : Handle(q)
    BY <1>3, HandleBound
<1>4. CASE \E q \in Requests : Fail(q)
    BY <1>4, BoundCall DEF Fail
<1>5. CASE UNCHANGED policyVars
    BY <1>5 DEF policyVars, BindInv, BindingsStayInScope, CallBound
<1> QED BY <1>1, <1>2, <1>3, <1>4, <1>5 DEF Next, PolicyNext, vars

\* At first there is no binding.
LEMMA InitBound == Init => BindInv
BY DEF Init, BindInv, BindingsStayInScope

\* What a policy or a snapshot binds is never empty and never leaves its service
\* resource.
THEOREM BindingsInScope == Spec => []BindingsStayInScope
<1>1. Spec => []BindInv
    BY InitBound, NextBound, TypeCorrect, VersionAlways, PTL DEF Spec
<1>2. BindInv => BindingsStayInScope
    BY DEF BindInv
<1> QED BY <1>1, <1>2, PTL

-----------------------------------------------------------------------------
(* The row lock, and what is deleted *)

\* The id of a create is its own, and the row a transaction has written is its
\* own until it commits: it is not deleted, and nobody else has written it.
LockInv ==
    \A q \in Requests :
        /\ req[q].pc # "idle" /\ req[q].op = "create" =>
             /\ policies[req[q].policy].status = "absent"
             /\ \A r \in Requests \ {q} :
                  req[r].pc # "idle" => req[r].policy # req[q].policy
        /\ req[q].pc = "commit" =>
             /\ policies[req[q].policy].status # "archived"
             /\ \A r \in Requests \ {q} :
                  req[r].pc = "commit" => req[r].policy # req[q].policy

\* A handler's step is one of three: the request moves on without writing a
\* table of policies, it takes the row lock, or it commits.
LEMMA HandleShape ==
    ASSUME TypeOK, NEW q \in Requests, Handle(q)
    PROVE  /\ req[q] \in Call
           /\ \/ /\ UNCHANGED policies
                 /\ \/ req' = [req EXCEPT ![q] = Idle]
                    \/ \E next \in Call :
                         /\ req' = [req EXCEPT ![q] = next]
                         /\ next.op = req[q].op /\ next.policy = req[q].policy
                         /\ next.pc = "commit" =>
                              /\ ~Locked(req[q].policy)
                              /\ req[q].op = "create" \/ Found(req[q].policy)
              \/ /\ req[q].pc = "commit"
                 /\ policies' = [policies EXCEPT ![req[q].policy] = req[q].value]
                 /\ req' = [req EXCEPT ![q] = Idle]
<1>1. PICK c \in Call : c = req[q]
    BY ActiveCall DEF Handle, ValidateScope, ValidateRole, ValidateEndpoints, ReadRoles,
       ReadTargets, SaveVersion, GetVersion, Save, Commit, Proceed
<1>2. req' \in [Requests -> Call \cup {Idle}]
    BY HandleType DEF TypeOK
<1>3. ASSUME NEW next, req' = [req EXCEPT ![q] = next], next # Idle
      PROVE  next \in Call
    BY <1>2, <1>3 DEF TypeOK
<1> USE DEF Proceed, Idle, Call
<1>4. CASE ValidateScope(q) \/ ValidateRole(q) \/ ValidateEndpoints(q)
  <2>1. PICK pc \in {"validate", "save"} : \E todo :
          \/ req' = [req EXCEPT ![q] = Idle]
          \/ req' = [req EXCEPT ![q] = [c EXCEPT !.pc = pc, !.todo = todo]]
    <3>1. CASE ValidateScope(q)
        BY <1>1, <3>1 DEF ValidateScope
    <3>2. CASE ValidateRole(q)
      <4>1. PICK r : \/ req' = [req EXCEPT ![q] = Idle]
                     \/ req' = [req EXCEPT ![q] = [c EXCEPT !.todo = @ \ {r}]]
          BY <1>1, <3>2 DEF ValidateRole
      <4>2. c.pc = "validate"
          BY <1>1, <3>2 DEF ValidateRole
      <4>3. [c EXCEPT !.todo = @ \ {r}] = [c EXCEPT !.pc = "validate", !.todo = c.todo \ {r}]
          BY <1>1, <4>2
      <4> QED BY <4>1, <4>3
    <3>3. CASE ValidateEndpoints(q)
      <4>1. [c EXCEPT !.pc = "save"] = [c EXCEPT !.pc = "save", !.todo = c.todo]
          BY <1>1
      <4> QED BY <1>1, <3>3, <4>1 DEF ValidateEndpoints
    <3> QED BY <1>4, <3>1, <3>2, <3>3
  <2>2. PICK todo :
          \/ req' = [req EXCEPT ![q] = Idle]
          \/ req' = [req EXCEPT ![q] = [c EXCEPT !.pc = pc, !.todo = todo]]
      BY <2>1
  <2> DEFINE next == [c EXCEPT !.pc = pc, !.todo = todo]
  <2>3. next.op = c.op /\ next.policy = c.policy /\ next.pc = pc /\ next # Idle
      BY <1>1
  <2> QED BY <1>1, <1>3, <1>4, <2>2, <2>3
          DEF ValidateScope, ValidateRole, ValidateEndpoints
<1>5. CASE ReadRoles(q) \/ ReadTargets(q) \/ SaveVersion(q) \/ GetVersion(q)
  <2>1. PICK pc \in {"readTargets", "saveVersion", "save"} : \E value :
          \/ req' = [req EXCEPT ![q] = Idle]
          \/ req' = [req EXCEPT ![q] = [c EXCEPT !.pc = pc, !.value = value]]
    <3>1. CASE ReadRoles(q)
        BY <1>1, <3>1 DEF ReadRoles
    <3>2. CASE ReadTargets(q)
        BY <1>1, <3>2 DEF ReadTargets
    <3>3. CASE SaveVersion(q)
        BY <1>1, <3>3 DEF SaveVersion
    <3>4. CASE GetVersion(q)
        BY <1>1, <3>4 DEF GetVersion
    <3> QED BY <1>5, <3>1, <3>2, <3>3, <3>4
  <2>2. PICK value :
          \/ req' = [req EXCEPT ![q] = Idle]
          \/ req' = [req EXCEPT ![q] = [c EXCEPT !.pc = pc, !.value = value]]
      BY <2>1
  <2> DEFINE next == [c EXCEPT !.pc = pc, !.value = value]
  <2>3. next.op = c.op /\ next.policy = c.policy /\ next.pc = pc /\ next # Idle
      BY <1>1
  <2> QED BY <1>1, <1>3, <1>5, <2>2, <2>3
          DEF ReadRoles, ReadTargets, SaveVersion, GetVersion
<1>6. CASE Save(q)
    BY <1>1, <1>3, <1>6 DEF Save
<1>7. CASE Commit(q)
    BY <1>1, <1>7 DEF Commit
<1> QED BY <1>4, <1>5, <1>6, <1>7 DEF Handle

\* Every step keeps an open transaction the only writer of its row.
LEMMA NextLock ==
    ASSUME TypeOK, VersionInv, LockInv, [Next]_vars
    PROVE  LockInv' /\ \A p \in Policies :
                          policies[p].status = "archived" => policies'[p] = policies[p]
<1> USE DEF Idle
<1>0. \A q \in Requests : req[q].pc # "idle" =>
        req[q] \in Call /\ req[q].policy \in Policies /\ req[q].value \in Value
    BY ActiveCall DEF Call
<1>1. CASE \E q \in Requests, p \in Policies : Arrive(q, p)
  <2>1. PICK q \in Requests, p \in Policies : Arrive(q, p)
      BY <1>1
  <2>2. PICK next \in Call : Admitted(next, p) /\ req' = [req EXCEPT ![q] = next]
      BY <2>1, ArriveCall
  <2>3. UNCHANGED policies
      BY <2>1, ArriveCall
  <2>4. next.pc # "idle" /\ next.pc # "commit" /\ next.policy = p
      BY <2>2 DEF Admitted
  <2>5. next.op = "create" =>
          /\ policies[p].status = "absent"
          /\ \A r \in Requests : req[r] # Idle => req[r].policy # p
      BY <2>2 DEF Admitted
  <2>6. next.op # "create" => policies[p].status # "absent"
      BY <2>2 DEF Admitted, Found
  <2>7. \A r \in Requests : req'[r] = IF r = q THEN next ELSE req[r]
      BY <2>2 DEF TypeOK
  <2>8. LockInv'
      BY <2>3, <2>4, <2>5, <2>6, <2>7 DEF LockInv
  <2> QED BY <2>3, <2>8
<1>2. CASE \E p \in Policies : Delete(p)
  <2>1. PICK p \in Policies : Delete(p)
      BY <1>2
  <2>2. /\ policies[p].status \notin {"absent", "archived"} /\ UNCHANGED req
        /\ \A q \in Requests : req[q].pc = "commit" => req[q].policy # p
      BY <2>1 DEF Delete, Found, Locked
  <2>3. \A o \in Policies : o # p => policies'[o] = policies[o]
      BY <2>1 DEF Delete, TypeOK
  <2>4. LockInv'
      BY <1>0, <2>2, <2>3 DEF LockInv
  <2> QED BY <2>2, <2>3, <2>4
<1>3. CASE \E q \in Requests : Handle(q)
  <2>1. PICK q \in Requests : Handle(q)
      BY <1>3
  <2>2. req[q] \in Call /\ req[q].pc # "idle"
      BY <2>1, HandleShape DEF Call
  <2>3. CASE /\ UNCHANGED policies
             /\ req' = [req EXCEPT ![q] = Idle]
    <3>1. \A r \in Requests : req'[r] = IF r = q THEN Idle ELSE req[r]
        BY <2>3 DEF TypeOK
    <3> QED BY <2>3, <3>1 DEF LockInv
  <2>4. CASE /\ UNCHANGED policies
             /\ \E next \in Call :
                  /\ req' = [req EXCEPT ![q] = next]
                  /\ next.op = req[q].op /\ next.policy = req[q].policy
                  /\ next.pc = "commit" =>
                       /\ ~Locked(req[q].policy)
                       /\ req[q].op = "create" \/ Found(req[q].policy)
    <3>1. PICK next \in Call :
                  /\ req' = [req EXCEPT ![q] = next]
                  /\ next.op = req[q].op /\ next.policy = req[q].policy
                  /\ next.pc = "commit" =>
                       /\ ~Locked(req[q].policy)
                       /\ req[q].op = "create" \/ Found(req[q].policy)
        BY <2>4
    <3>2. \A r \in Requests : req'[r] = IF r = q THEN next ELSE req[r]
        BY <3>1 DEF TypeOK
    <3>3. next.pc # "idle"
        BY DEF Call
    <3>4. next.pc = "commit" =>
            /\ policies[next.policy].status # "archived"
            /\ \A r \in Requests : req[r].pc = "commit" => req[r].policy # next.policy
        BY <2>2, <3>1 DEF Locked, Found, LockInv
    <3>5. LockInv'
        BY <2>2, <2>4, <3>1, <3>2, <3>3, <3>4 DEF LockInv
    <3> QED BY <2>4, <3>5
  <2>5. CASE /\ req[q].pc = "commit"
             /\ policies' = [policies EXCEPT ![req[q].policy] = req[q].value]
             /\ req' = [req EXCEPT ![q] = Idle]
    <3>1. \A r \in Requests : req'[r] = IF r = q THEN Idle ELSE req[r]
        BY <2>5 DEF TypeOK
    <3>2. \A p \in Policies : policies'[p] = IF p = req[q].policy THEN req[q].value
                                              ELSE policies[p]
        BY <2>5 DEF TypeOK
    <3>3. policies[req[q].policy].status # "archived"
        BY <2>5 DEF LockInv
    <3>4. \A r \in Requests \ {q} : req[r].pc = "commit" => req[r].policy # req[q].policy
        BY <2>5 DEF LockInv
    <3>5. \A r \in Requests \ {q} : req[r].pc # "idle" /\ req[r].op = "create" =>
            req[r].policy # req[q].policy
        BY <2>2 DEF LockInv
    <3>6. LockInv'
        BY <1>0, <3>1, <3>2, <3>4, <3>5 DEF LockInv
    <3> QED BY <3>2, <3>3, <3>6
  <2> QED BY <2>1, <2>3, <2>4, <2>5, HandleShape
<1>4. CASE \E q \in Requests : Fail(q)
  <2>1. PICK q \in Requests : Fail(q)
      BY <1>4
  <2>2. \A r \in Requests : req'[r] = IF r = q THEN Idle ELSE req[r]
      BY <2>1 DEF Fail, TypeOK
  <2> QED BY <2>1, <2>2 DEF Fail, LockInv
<1>5. CASE UNCHANGED policyVars
    BY <1>5 DEF policyVars, LockInv
<1> QED BY <1>1, <1>2, <1>3, <1>4, <1>5 DEF Next, PolicyNext, vars

\* At first no transaction is open.
LEMMA InitLock == Init => LockInv
BY DEF Init, LockInv, Idle

\* No step changes a policy that is deleted.
THEOREM DeletionIsFinal == Spec => DeletedStaysDeleted
<1>1. Spec => [](TypeOK /\ VersionInv /\ LockInv)
    BY InitLock, NextLock, TypeCorrect, VersionAlways, PTL DEF Spec
<1>2. TypeOK /\ VersionInv /\ LockInv /\ [Next]_vars =>
        [\A p \in Policies : policies[p].status = "archived" =>
           policies'[p] = policies[p]]_vars
    BY NextLock
<1> QED BY <1>1, <1>2, PTL DEF Spec, DeletedStaysDeleted

-----------------------------------------------------------------------------
(* The primary key of the versions *)

\* With one version per policy, the key makes the snapshot of a policy unique.
KeyInv ==
    \A s, t \in versions : s.policy = t.policy /\ s.version = t.version => s = t

\* Every step keeps the stored versions apart by policy and version.
LEMMA NextKey == TypeOK /\ KeyInv /\ [Next]_vars => KeyInv'
<1> SUFFICES ASSUME TypeOK, KeyInv, [Next]_vars PROVE KeyInv'
    OBVIOUS
<1>1. CASE UNCHANGED versions
    BY <1>1 DEF KeyInv
<1>2. CASE \E q \in Requests : SaveVersion(q)
    BY <1>2 DEF SaveVersion, HasVersion, KeyInv
<1>3. UNCHANGED versions \/ \E q \in Requests : SaveVersion(q)
  <2>1. ASSUME NEW q \in Requests, Handle(q), ~SaveVersion(q) PROVE UNCHANGED versions
      BY <2>1 DEF Handle, ValidateScope, ValidateRole, ValidateEndpoints, ReadRoles,
         ReadTargets, GetVersion, Save, Commit
  <2>2. ASSUME NEW q \in Requests, NEW p \in Policies, Arrive(q, p) PROVE UNCHANGED versions
      BY <2>2, ArriveCall
  <2> QED BY <2>1, <2>2 DEF Next, PolicyNext, Delete, Fail, policyVars, vars
<1> QED BY <1>1, <1>2, <1>3

\* No two stored versions ever share policy and version number.
LEMMA KeyAlways == Spec => []KeyInv
<1>1. Init => KeyInv
    BY DEF Init, KeyInv
<1> QED BY <1>1, NextKey, TypeCorrect, PTL DEF Spec

-----------------------------------------------------------------------------
(* The refinement *)

Frozen == [p \in Policies |-> {s.content : s \in {t \in versions : t.policy = p}}]
Served == [p \in Policies |-> IF policies[p].status = "published"
                              THEN {policies[p].content} ELSE {}]
Retired == {p \in Policies : policies[p].status = "archived"}

\* At first nothing is frozen, served or retired.
LEMMA InitCatalog == Init => Catalog!CatalogInit
BY DEF Init, Catalog!CatalogInit

\* Saving a version freezes the policy's content.
LEMMA FreezeStep ==
    ASSUME TypeOK, VersionInv, NEW q \in Requests, SaveVersion(q)
    PROVE  [Catalog!CatalogNext]_(Catalog!catalogVars)
<1>1. PICK c \in Call : c = req[q] /\ c.policy \in Policies
                       /\ c.value \in Value /\ c.value.content \in Content
    BY ActiveCall DEF SaveVersion, Proceed, Call, Value
<1>2. UNCHANGED policies
    BY DEF SaveVersion
<1>3. Served' = Served /\ Retired' = Retired
    BY <1>2 DEF Served, Retired
<1>4. c.value.version = 0
    BY <1>1 DEF SaveVersion, Proceed, VersionInv, CallVersion, IsDraft, Idle
<1>5. CASE UNCHANGED versions
  <2>1. Frozen' = Frozen
      BY <1>5 DEF Frozen
  <2> QED BY <1>3, <2>1 DEF Catalog!catalogVars, Frozen, Served, Retired
<1>6. CASE ~UNCHANGED versions
  <2> DEFINE snapshot == [policy |-> c.policy, version |-> 1, content |-> c.value.content]
  <2>1. ~HasVersion(c.policy, 1) /\ versions' = versions \cup {snapshot}
      BY <1>1, <1>4, <1>6 DEF SaveVersion
  <2>2. \A t \in versions : t.policy # c.policy
      BY <2>1 DEF HasVersion, VersionInv, OnlyFirstVersion
  <2>3. Frozen[c.policy] = {}
      BY <1>1, <2>2 DEF Frozen
  <2>4. ASSUME NEW p \in Policies
        PROVE  {s.content : s \in {t \in versions' : t.policy = p}}
                 = IF p = c.policy THEN {c.value.content} ELSE Frozen[p]
    <3>1. {t \in versions' : t.policy = p}
            = IF p = c.policy THEN {snapshot} ELSE {t \in versions : t.policy = p}
        BY <2>1, <2>2
    <3>2. {s.content : s \in {snapshot}} = {c.value.content}
        OBVIOUS
    <3> QED BY <3>1, <3>2 DEF Frozen
  <2>5. Frozen' = [Frozen EXCEPT ![c.policy] = {c.value.content}]
    <3>1. Frozen' = [p \in Policies |-> IF p = c.policy THEN {c.value.content} ELSE Frozen[p]]
        BY <2>4 DEF Frozen
    <3> QED BY <1>1, <3>1 DEF Frozen
  <2>6. Catalog!Freeze(c.policy, c.value.content)
      BY <1>3, <2>3, <2>5 DEF Catalog!Freeze, Frozen, Served, Retired
  <2> QED BY <1>1, <2>6 DEF Catalog!CatalogNext
<1> QED BY <1>5, <1>6

\* Committing a snapshot serves it, committing a draft withdraws what was served.
LEMMA CommitStep ==
    ASSUME TypeOK, VersionInv, LockInv, KeyInv, NEW q \in Requests, Commit(q)
    PROVE  Catalog!CatalogNext
<1>1. PICK c \in Call : c = req[q] /\ c.policy \in Policies
                       /\ c.value \in Value /\ c.value.content \in Content
    BY ActiveCall DEF Commit, Proceed, Call, Value
<1>2. /\ policies' = [policies EXCEPT ![c.policy] = c.value]
      /\ UNCHANGED versions
      /\ c.pc = "commit"
    BY <1>1 DEF Commit, Proceed
<1>3. policies[c.policy].status # "archived"
    BY <1>1, <1>2 DEF LockInv
<1>4. IsDraft(c.value) \/ IsPublished(c.policy, c.value)
    BY <1>1, <1>2 DEF VersionInv, CallVersion, Idle
<1>5. Frozen' = Frozen
    BY <1>2 DEF Frozen
<1>6. Retired' = Retired /\ c.policy \notin Retired
    BY <1>1, <1>2, <1>3, <1>4 DEF Retired, TypeOK, IsDraft, IsPublished
<1>7. CASE IsDraft(c.value)
  <2>1. Served' = [Served EXCEPT ![c.policy] = {}]
      BY <1>1, <1>2, <1>7 DEF Served, TypeOK, IsDraft
  <2>2. Catalog!Withdraw(c.policy)
      BY <1>5, <1>6, <2>1 DEF Catalog!Withdraw, Frozen, Served, Retired
  <2> QED BY <1>1, <2>2 DEF Catalog!CatalogNext
<1>8. CASE IsPublished(c.policy, c.value)
  <2>1. PICK s \in versions : s.policy = c.policy /\ s.content = c.value.content
      BY <1>8 DEF IsPublished, FrozenAs
  <2>2. \A t \in versions : t.policy = c.policy => t = s
      BY <2>1 DEF KeyInv, VersionInv, OnlyFirstVersion
  <2>3. Frozen[c.policy] = {c.value.content}
      BY <1>1, <2>1, <2>2 DEF Frozen
  <2>4. Served' = [Served EXCEPT ![c.policy] = {c.value.content}]
      BY <1>1, <1>2, <1>8 DEF Served, TypeOK, IsPublished
  <2>5. Catalog!Serve(c.policy)
      BY <1>5, <1>6, <2>3, <2>4 DEF Catalog!Serve, Frozen, Served, Retired
  <2> QED BY <1>1, <2>5 DEF Catalog!CatalogNext
<1> QED BY <1>4, <1>7, <1>8

\* Deleting a policy withdraws and retires it.
LEMMA DeleteStep ==
    ASSUME TypeOK, NEW p \in Policies, Delete(p)
    PROVE  Catalog!Retire(p)
<1>1. Retired' = Retired \cup {p}
    BY DEF Delete, Retired, TypeOK, Value
<1>2. Served' = [Served EXCEPT ![p] = {}]
    BY DEF Delete, Served, TypeOK, Value
<1>3. Frozen' = Frozen
    BY DEF Delete, Frozen
<1> QED BY <1>1, <1>2, <1>3 DEF Catalog!Retire, Retired, Served, Frozen

\* Every step of the handlers and of the directory maps to a catalog step or a stutter.
LEMMA StepCatalog ==
    TypeOK /\ VersionInv /\ LockInv /\ KeyInv /\ [Next]_vars
      => [Catalog!CatalogNext]_(Catalog!catalogVars)
<1> SUFFICES ASSUME TypeOK, VersionInv, LockInv, KeyInv, [Next]_vars
             PROVE  [Catalog!CatalogNext]_(Catalog!catalogVars)
    OBVIOUS
<1>1. CASE UNCHANGED <<policies, versions>>
  <2>1. Frozen' = Frozen /\ Served' = Served /\ Retired' = Retired
      BY <1>1 DEF Frozen, Served, Retired
  <2> QED BY <2>1 DEF Catalog!catalogVars, Frozen, Served, Retired
<1>2. CASE \E q \in Requests : SaveVersion(q)
    BY <1>2, FreezeStep
<1>3. CASE \E q \in Requests : Commit(q)
    BY <1>3, CommitStep
<1>4. CASE \E p \in Policies : Delete(p)
    BY <1>4, DeleteStep DEF Catalog!CatalogNext
<1>5. \/ UNCHANGED <<policies, versions>>
      \/ \E q \in Requests : SaveVersion(q) \/ Commit(q)
      \/ \E p \in Policies : Delete(p)
  <2>1. ASSUME NEW q \in Requests, Handle(q), ~SaveVersion(q), ~Commit(q)
        PROVE  UNCHANGED <<policies, versions>>
      BY <2>1 DEF Handle, ValidateScope, ValidateRole, ValidateEndpoints, ReadRoles,
         ReadTargets, GetVersion, Save
  <2>2. ASSUME NEW q \in Requests, NEW p \in Policies, Arrive(q, p)
        PROVE  UNCHANGED <<policies, versions>>
      BY <2>2, ArriveCall
  <2> QED BY <2>1, <2>2 DEF Next, PolicyNext, Fail, policyVars, vars
<1> QED BY <1>1, <1>2, <1>3, <1>4, <1>5

\* However requests race, fail or repeat, what is served for a policy is the one
\* content it was frozen with, or nothing, and nothing for ever once it is deleted.
THEOREM LifecycleImplementsCatalog == Spec => ImplementsCatalog
<1>1. Spec => [](TypeOK /\ VersionInv /\ LockInv /\ KeyInv)
    BY InitLock, NextLock, TypeCorrect, VersionAlways, KeyAlways, PTL DEF Spec
<1> QED BY <1>1, InitCatalog, StepCatalog, PTL DEF Spec, ImplementsCatalog, Catalog!CatalogSpec
=============================================================================
