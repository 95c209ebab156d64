------------------------------- MODULE MCLanding -------------------------------
(* Instances of Landing for TLC. *)
EXTENDS Landing, TLC

CONSTANTS v1, v2, e1, e2

Symmetry == Permutations({v1, v2}) \union Permutations({e1, e2})
=============================================================================
