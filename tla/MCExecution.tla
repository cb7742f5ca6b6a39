----------------------------- MODULE MCExecution -----------------------------
(* Small instances of Execution for TLC. *)
EXTENDS Execution, TLC

CONSTANTS i1, i2

Symmetry == Permutations({i1, i2})

Ages == {AgeUnknown, 0}
=============================================================================
