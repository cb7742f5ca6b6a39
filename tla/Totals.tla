-------------------------------- MODULE Totals --------------------------------
(* Totals of natural quantities, as cardinalities: Total(w) is the number of *)
(* (item, unit) pairs w is made of.                                          *)
EXTENDS Integers, FiniteSets

Units(w) == UNION {{i} \X (1 .. w[i]) : i \in DOMAIN w}
Total(w) == Cardinality(Units(w))
=============================================================================
