----------------------------- MODULE MCCollection -----------------------------
(* Small instances of Collection for TLC. *)
EXTENDS Collection, TLC

CONSTANTS t1, t2, q1, q2

Symmetry == Permutations({t1, t2}) \cup Permutations({q1, q2})
=============================================================================
