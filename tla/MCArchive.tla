----------------------------- MODULE MCArchive -----------------------------
(* A small instance of Archive for TLC: one event of two legs, in cents,    *)
(* both of them polled by the collector, the first by the probe as well.    *)
EXTENDS Archive, TLC

CONSTANTS a, b, collector, probe

MCLegOrder == <<a, b>>
MCEventOf == [t \in {a, b} |-> "event"]
MCRoute == collector :> <<a, b>> @@ probe :> <<a>>
MCInterval == collector :> 3 @@ probe :> 1

Nothing == [p \in {} |-> 0]
Book(yes, no) == [complete |-> TRUE, yes |-> yes, no |-> no]
Unusable == [complete |-> FALSE, yes |-> Nothing, no |-> Nothing]

(* Leg a is offered at 60, where the set costs more than a dollar, or at 30, *)
(* below a bid that improves on 35; leg b at 50, not at all, or it has no book. *)
MCPayloads ==
  a :> {Book(35 :> 2, 40 :> 3), Book(20 :> 1, 70 :> 1)}
  @@ b :> {Book(45 :> 2, 50 :> 2), Book(45 :> 2, Nothing), Unusable}

MCDraws == <<FALSE, FALSE>>
=============================================================================
