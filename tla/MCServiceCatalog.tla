--------------------------- MODULE MCServiceCatalog ---------------------------
(* Small instances of ServiceCatalog. *)
EXTENDS ServiceCatalog

CONSTANTS k1, k2, m1, r1, r2

\* A menu that is seeded and a role in one scope, a role in the other.
MCScopeOf == (m1 :> k1) @@ (r1 :> k1) @@ (r2 :> k2)

Symmetry == Permutations(Requests)
=============================================================================
