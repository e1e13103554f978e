--------------------------- MODULE MCSessionCookie ---------------------------
(* Symmetry for small instances of SessionCookie. *)
EXTENDS SessionCookie, TLC

Symmetry == Permutations(Flows) \cup Permutations(Requests)
=============================================================================
