------------------------- MODULE ServiceCatalogProofs -------------------------
(***************************************************************************)
(* Proofs about ServiceCatalog, for every set of service resources, objects *)
(* and requests, and for every configuration.                               *)
(***************************************************************************)
EXTENDS ServiceCatalog, TLAPS

-----------------------------------------------------------------------------
(* Type correctness *)

LEMMA InitType == Init => TypeOK
BY CatalogAssumption DEF Init, TypeOK, Configured, Row

\* What a request is about to do is one of the things requests do.
LEMMA RequestType ==
    /\ \A o \in Objects, op \in {"create", "update"} : [op |-> op, object |-> o] \in Request
    /\ \A k \in Keys, to \in {"enabled", "disabled"} : [op |-> "change", key |-> k, to |-> to] \in Request
    /\ \A k \in Keys : [op |-> "delete", key |-> k] \in Request
    /\ \A k \in Keys, b \in BOOLEAN : [op |-> "write", key |-> k, found |-> b] \in Request
BY DEF Request

\* The fields a request has follow from its op.
LEMMA RequestFields ==
    ASSUME TypeOK, NEW q \in Requests
    PROVE  /\ req[q].op \in {"create", "update"} => req[q].object \in Objects
           /\ req[q].op = "change" => req[q].key \in Keys /\ req[q].to \in {"enabled", "disabled"}
           /\ req[q].op \in {"delete", "write"} => req[q].key \in Keys
           /\ req[q].op = "write" => [req[q] EXCEPT !.op = "refused"] \in Request
<1> SUFFICES req[q] \in Request \cup {Idle} => 
              /\ req[q].op \in {"create", "update"} => req[q].object \in Objects
              /\ req[q].op = "change" => req[q].key \in Keys /\ req[q].to \in {"enabled", "disabled"}
              /\ req[q].op \in {"delete", "write"} => req[q].key \in Keys
              /\ req[q].op = "write" => [req[q] EXCEPT !.op = "refused"] \in Request
    BY DEF TypeOK
<1>1. CASE req[q] \in [op : {"create", "update"}, object : Objects]
    BY <1>1
<1>2. CASE req[q] \in [op : {"change"}, key : Keys, to : {"enabled", "disabled"}]
    BY <1>2
<1>3. CASE req[q] \in [op : {"delete"}, key : Keys]
    BY <1>3
<1>4. CASE req[q] \in [op : {"write", "refused"}, key : Keys, found : BOOLEAN]
  <2>1. [req[q] EXCEPT !.op = "refused"]
          = [op |-> "refused", key |-> req[q].key, found |-> req[q].found]
      BY <1>4
  <2> QED BY <1>4, <2>1 DEF Request
<1>5. CASE req[q] = Idle
    BY <1>5 DEF Idle
<1> QED BY <1>1, <1>2, <1>3, <1>4, <1>5 DEF Request

LEMMA NextType == TypeOK /\ [Next]_vars => TypeOK'
<1> SUFFICES ASSUME TypeOK, [Next]_vars PROVE TypeOK'
    OBVIOUS
<1>1. ASSUME NEW k \in Keys, NEW to \in {"enabled", "disabled"}, CreateService(k, to)
      PROVE  TypeOK'
    BY <1>1 DEF TypeOK, CreateService, Row
<1>2. ASSUME NEW q \in Requests, NEW k \in Keys, NEW to \in {"enabled", "disabled"},
             StartChange(q, k, to) \/ StartDelete(q, k)
      PROVE  TypeOK'
    BY <1>2, RequestType DEF TypeOK, StartChange, StartDelete, StartService, Set
<1>3. ASSUME NEW q \in Requests, NEW o \in Objects, NEW op \in {"create", "update"},
             StartPut(q, o, op)
      PROVE  TypeOK'
    BY <1>3, RequestType DEF TypeOK, StartPut, Set
<1>4. ASSUME NEW q \in Requests, NEW to \in {"enabled", "disabled"}, Put(q, to)
      PROVE  TypeOK'
    BY <1>4, RequestFields DEF TypeOK, Put, Set, Row
<1>5. ASSUME NEW q \in Requests, Change(q) PROVE TypeOK'
    BY <1>5, RequestFields DEF TypeOK, Change, Set, Row, Written, Live
<1>6. ASSUME NEW q \in Requests, Scan(q) PROVE TypeOK'
    BY <1>6, RequestFields, RequestType DEF TypeOK, Scan, Set, Referenced
<1>7. ASSUME NEW q \in Requests, Delete(q) PROVE TypeOK'
    BY <1>7, RequestFields DEF TypeOK, Delete, Set, Row
<1>8. ASSUME NEW q \in Requests, Drop(q) PROVE TypeOK'
    BY <1>8 DEF TypeOK, Drop, Set
<1>9. ASSUME NEW o \in Objects, DeleteObject(o) PROVE TypeOK'
    BY <1>9 DEF TypeOK, DeleteObject, Row
<1>10. ASSUME NEW keys \in SUBSET Keys, SetRemote(keys) PROVE TypeOK'
    BY <1>10 DEF TypeOK, SetRemote
<1>11. ASSUME NEW s \in Sources, Restart(s) PROVE TypeOK'
    BY <1>11, CatalogAssumption DEF TypeOK, Restart, Configured
<1>12. CASE UNCHANGED vars
    BY <1>12 DEF TypeOK, vars
<1> QED BY <1>1, <1>2, <1>3, <1>4, <1>5, <1>6, <1>7, <1>8, <1>9, <1>10, <1>11, <1>12 DEF Next

\* Rows, sources and requests keep their types, whatever the configuration.
THEOREM TypeCorrect == Spec => []TypeOK
BY InitType, NextType, PTL DEF Spec

-----------------------------------------------------------------------------
(* A scope that is off is frozen *)

\* The step leaves the row of k alone and k off.
StaysOff(k) == ~Active(k) /\ ~Active(k)' /\ services'[k] = services[k]

\* Nobody is admitted to a scope that is off.
LEMMA NobodyAdmitted ==
    ASSUME TypeOK, [Next]_vars, NEW k \in Keys, StaysOff(k), ~Admitted(k)
    PROVE  ~Admitted(k)'
<1> SUFFICES ASSUME NEW p \in Requests, req'[p].op \in {"create", "update"},
                    ScopeOf[req'[p].object] = k
             PROVE  FALSE
    BY DEF Admitted
<1>1. req'[p] # req[p] /\ req'[p] # Idle
    BY DEF Admitted, Idle
<1>2. ASSUME NEW o \in Objects, NEW op \in {"create", "update"}, StartPut(p, o, op) PROVE FALSE
  <2>1. req'[p].object = o
      BY <1>2 DEF StartPut, Set, TypeOK
  <2> QED BY <1>2, <2>1 DEF StartPut, StaysOff
<1>3. ASSUME NEW to \in {"enabled", "disabled"}, NEW j \in Keys,
             StartChange(p, j, to) \/ StartDelete(p, j)
      PROVE  FALSE
    BY <1>3 DEF StartChange, StartDelete, StartService, Set, TypeOK
<1>4. ASSUME \E to \in {"enabled", "disabled"} : Put(p, to) PROVE FALSE
    BY <1>1, <1>4 DEF Put, Set, TypeOK
<1>5. ASSUME Change(p) \/ Scan(p) \/ Drop(p) PROVE FALSE
  <2>1. CASE Change(p) \/ Drop(p)
      BY <1>1, <2>1 DEF Change, Drop, Set, TypeOK
  <2>2. CASE Scan(p)
      BY <2>2 DEF Scan, Set, TypeOK
  <2> QED BY <1>5, <2>1, <2>2
<1>6. ASSUME Delete(p) PROVE FALSE
  <2>1. req'[p] = Idle \/ req'[p] = [req[p] EXCEPT !.op = "refused"]
      BY <1>6 DEF Delete, Set, TypeOK
  <2>2. [req[p] EXCEPT !.op = "refused"].op \notin {"create", "update"}
      BY <1>6, RequestFields DEF Delete, Request
  <2> QED BY <1>1, <2>1, <2>2
<1>7. ASSUME NEW q \in Requests \ {p},
             \/ \E j \in Keys, to \in {"enabled", "disabled"} : StartChange(q, j, to)
             \/ \E j \in Keys : StartDelete(q, j)
             \/ \E o \in Objects, op \in {"create", "update"} : StartPut(q, o, op)
             \/ \E to \in {"enabled", "disabled"} : Put(q, to)
             \/ Change(q) \/ Scan(q) \/ Delete(q) \/ Drop(q)
      PROVE  FALSE
    BY <1>1, <1>7 DEF StartChange, StartDelete, StartService, StartPut, Put, Change, Scan,
       Delete, Drop, Set, TypeOK
<1>8. ASSUME NEW s \in Sources, Restart(s) PROVE FALSE
    BY <1>1, <1>8 DEF Restart
<1>9. ASSUME \/ \E j \in Keys, to \in {"enabled", "disabled"} : CreateService(j, to)
             \/ \E o \in Objects : DeleteObject(o)
             \/ \E keys \in SUBSET Keys : SetRemote(keys)
             \/ UNCHANGED vars
      PROVE  FALSE
    BY <1>1, <1>9 DEF CreateService, DeleteObject, SetRemote, vars
<1> QED BY <1>2, <1>3, <1>4, <1>5, <1>6, <1>7, <1>8, <1>9 DEF Next

\* Without a request that is admitted, and with its row left alone, the objects of
\* a scope are only deleted.
LEMMA OnlyDeletions ==
    ASSUME TypeOK, [Next]_vars, NEW o \in Objects, ~Admitted(ScopeOf[o]),
           services'[ScopeOf[o]] = services[ScopeOf[o]], objects'[o] # objects[o]
    PROVE  objects'[o] = "deleted"
<1>1. ASSUME NEW k \in Keys, NEW to \in {"enabled", "disabled"}, CreateService(k, to)
      PROVE  FALSE
  <2>1. o \in Seeded(k)
      BY <1>1 DEF CreateService, TypeOK
  <2>2. ScopeOf[o] = k
      BY <2>1 DEF Seeded
  <2> QED BY <1>1, <2>2 DEF CreateService, TypeOK
<1>2. ASSUME NEW q \in Requests, NEW to \in {"enabled", "disabled"}, Put(q, to)
      PROVE  FALSE
  <2>1. req[q].object = o
      BY <1>2 DEF Put, TypeOK
  <2> QED BY <1>2, <2>1 DEF Put, Admitted
<1>3. ASSUME NEW p \in Objects, DeleteObject(p) PROVE objects'[o] = "deleted"
    BY <1>3 DEF DeleteObject, TypeOK
<1>4. objects' # objects
    OBVIOUS
<1>5. ASSUME NEW q \in Requests, Change(q) \/ Scan(q) \/ Delete(q) \/ Drop(q) PROVE FALSE
    BY <1>4, <1>5 DEF Change, Scan, Delete, Drop
<1>6. ASSUME NEW q \in Requests,
             \/ \E k \in Keys, to \in {"enabled", "disabled"} : StartChange(q, k, to)
             \/ \E k \in Keys : StartDelete(q, k)
             \/ \E p \in Objects, op \in {"create", "update"} : StartPut(q, p, op)
      PROVE  FALSE
    BY <1>4, <1>6 DEF StartChange, StartDelete, StartService, StartPut
<1>7. ASSUME \/ \E keys \in SUBSET Keys : SetRemote(keys)
             \/ \E s \in Sources : Restart(s)
             \/ UNCHANGED vars
      PROVE  FALSE
    BY <1>4, <1>7 DEF SetRemote, Restart, vars
<1> QED BY <1>1, <1>2, <1>3, <1>5, <1>6, <1>7 DEF Next

\* What a step may do to a scope that is off.
Frozen ==
    \A k \in Keys :
        /\ ~Active(k) /\ ~Active(k)' /\ ~Admitted(k)
        /\ services'[k] = services[k]
        => /\ ~Admitted(k)'
           /\ \A o \in Objects :
                ScopeOf[o] = k /\ objects'[o] # objects[o] => objects'[o] = "deleted"

\* When no request is left that was admitted before a scope went off, nothing in
\* the scope changes any more but by deletion, and nobody is admitted again: not
\* by a restart, another source or the navigation of another scope.
THEOREM ScopeIsFrozen == Spec => InactiveScopeFrozen
<1>1. TypeOK /\ [Next]_vars => Frozen
    BY NobodyAdmitted, OnlyDeletions DEF Frozen, StaysOff
<1> QED BY <1>1, TypeCorrect, PTL DEF Spec, InactiveScopeFrozen, Frozen
=============================================================================
