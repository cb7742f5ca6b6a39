------------------------------ MODULE MCLedger ------------------------------
(* A small instance of Ledger for TLC. *)
EXTENDS Ledger, TLC

CONSTANTS t1, t2

Symmetry == Permutations(Ticker)
=============================================================================
