--------------------------- MODULE PublishedCatalog ---------------------------
(***************************************************************************)
(* What publishing promises to the decision point, without handlers, rows  *)
(* or requests.  A policy's content is frozen at most once; what is served *)
(* for the policy is that content or nothing; once a policy is retired it  *)
(* is never served again.                                                  *)
(*                                                                         *)
(* Freezing and serving are two steps, and a policy can be withdrawn       *)
(* without being retired: both are what the handlers do.                   *)
(***************************************************************************)

CONSTANTS
    Policies,
    Contents        \* what a policy can say

VARIABLES
    frozen,         \* the content a policy was frozen with: one, or none yet
    served,         \* what is evaluated for it: one content, or none
    retired         \* the policies that are deleted

catalogVars == <<frozen, served, retired>>

CatalogInit ==
    /\ frozen = [p \in Policies |-> {}]
    /\ served = [p \in Policies |-> {}]
    /\ retired = {}

Freeze(p, c) ==
    /\ frozen[p] = {}
    /\ frozen' = [frozen EXCEPT ![p] = {c}]
    /\ UNCHANGED <<served, retired>>

Serve(p) ==
    /\ p \notin retired
    /\ frozen[p] # {}
    /\ served' = [served EXCEPT ![p] = frozen[p]]
    /\ UNCHANGED <<frozen, retired>>

Withdraw(p) ==
    /\ served' = [served EXCEPT ![p] = {}]
    /\ UNCHANGED <<frozen, retired>>

Retire(p) ==
    /\ retired' = retired \cup {p}
    /\ served' = [served EXCEPT ![p] = {}]
    /\ UNCHANGED frozen

CatalogNext ==
    \E p \in Policies :
        \/ \E c \in Contents : Freeze(p, c)
        \/ Serve(p)
        \/ Withdraw(p)
        \/ Retire(p)

CatalogSpec == CatalogInit /\ [][CatalogNext]_catalogVars
=============================================================================
