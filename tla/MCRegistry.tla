------------------------------ MODULE MCRegistry ------------------------------
(* Small instances of Registry for TLC. *)
EXTENDS Registry, TLC

CONSTANTS s1, t1, t2, t3, day1, day2, reworded, other

\* Two settings of one claim, read the same, the first with its case in other words too;
\* and another claim.
Offers == {[terms |-> t1, case |-> day1], [terms |-> t1, case |-> reworded],
           [terms |-> t2, case |-> day2], [terms |-> t3, case |-> other]}

Read == [c \in {day1, day2, reworded, other} |-> IF c = other THEN "other rules" ELSE "the rules"]
=============================================================================
