---------------------------- MODULE MCVenueBudget ----------------------------
(* Small instances of VenueBudget for TLC. *)
EXTENDS VenueBudget, TLC

CONSTANTS l1, l2, l3

\* cli.py's collector, probe and survey, and the shares they ask for.
Shares == [c \in {"collector", "probe", "survey"} |->
             CASE c = "collector" -> 4 [] c = "probe" -> 6 [] c = "survey" -> 5]

\* The collector's client is given no rate and takes the default (http.py:39).
Rates == [c \in {"collector", "probe", "survey"} |->
            CASE c = "collector" -> 8 [] c = "probe" -> 6 [] c = "survey" -> 5]

Symmetry == Permutations({l1, l2, l3})
=============================================================================
