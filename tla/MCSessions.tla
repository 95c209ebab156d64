----------------------------- MODULE MCSessions -----------------------------
(* Instances of Sessions for TLC. *)
EXTENDS Sessions, TLC

CONSTANTS b1, b2, s1, s2

Symmetry == Permutations({b1, b2}) \union Permutations({s1, s2})
=============================================================================
