----------------------------- MODULE MCMenuForest -----------------------------
(***************************************************************************)
(* Small instances of MenuForest.  Menu m3 belongs to the second service    *)
(* resource, everything else to the first.                                  *)
(***************************************************************************)
EXTENDS MenuForest, TLC

CONSTANTS s1, s2, m1, m2, m3

MCScopeOfMenu == [m \in Menus |-> IF m = m3 THEN s2 ELSE s1]
MCScopeOfRole == [r \in Roles |-> s1]

\* The union of two of these lists is none of them; the third one must be refused.
OneMenu == {{m1}, {m2}, {m1, m3}}

NoLists == {}

RequestSymmetry == Permutations(Requests)
=============================================================================
