--------------------------- MODULE BasketLifecycle ---------------------------
(***************************************************************************)
(* What the execution path promises of each basket, without saying how:    *)
(* no coroutine, no order, no queue, no halt.  The promises are            *)
(*   - a basket is admitted only while no other is lost, and only if the   *)
(*     capital of all the admitted ones still fits under the cap;          *)
(*   - the venue's position in a basket moves only once it was admitted,   *)
(*     and never again once it is recorded as held;                        *)
(*   - a basket is recorded as held only if every leg is held in full;     *)
(*   - a basket that is over, or held, stays so.                           *)
(* Execution is shown to implement it while no fault occurs.               *)
(***************************************************************************)
EXTENDS Integers, FiniteSets

CONSTANTS Basket, NumLegs, Quantity, Cap

Leg == 1 .. NumLegs

VARIABLES
  phase,     (* "unseen", "parked", "live", "lost", "checking", "held", "over" *)
  capital,   (* what each basket commits                                       *)
  position   (* contracts the venue holds, by basket and leg                   *)

vars == <<phase, capital, position>>

Phase == {"unseen", "parked", "live", "lost", "checking", "held", "over"}

Init ==
  /\ phase = [b \in Basket |-> "unseen"]
  /\ capital = [b \in Basket |-> 0]
  /\ position = [b \in Basket |-> [l \in Leg |-> 0]]

Committed(c) == Cardinality(UNION {{b} \X (1 .. c[b]) : b \in Basket})

\* Move b to a phase, committing n.
Become(b, p, n) ==
  /\ phase' = [phase EXCEPT ![b] = p]
  /\ capital' = [capital EXCEPT ![b] = n]
  /\ UNCHANGED position

\* Waiting baskets lapse, and perhaps a new one is parked or turned away.
Requeue(lapsed, arrival, p) ==
  /\ \A b \in lapsed : phase[b] = "parked"
  /\ \A b \in arrival : phase[b] = "unseen"
  /\ p \in {"parked", "over"}
  /\ phase' = [b \in Basket |-> IF b \in lapsed THEN "over"
                                ELSE IF b \in arrival THEN p ELSE phase[b]]
  /\ UNCHANGED <<capital, position>>

Admit(b, n) ==
  /\ phase[b] \in {"unseen", "parked"}
  /\ \A other \in Basket : phase[other] # "lost"
  /\ Committed(capital) + n <= Cap
  /\ Become(b, "live", n)

Hold(b) ==
  /\ phase[b] \in {"live", "checking"}
  /\ \A l \in Leg : position[b][l] = Quantity
  /\ Become(b, "held", capital[b])

Lose(b)  == phase[b] = "live" /\ Become(b, "lost", capital[b])
Check(b) == phase[b] = "lost" /\ Become(b, "checking", capital[b])
End(b)   == phase[b] \in {"live", "checking"} /\ Become(b, "over", 0)

Move(b, l, q) ==
  /\ ~(phase[b] \in {"unseen", "parked", "held"})
  /\ position' = [position EXCEPT ![b][l] = q]
  /\ UNCHANGED <<phase, capital>>

Next ==
  \/ \E lapsed, arrival \in SUBSET Basket, p \in Phase : Requeue(lapsed, arrival, p)
  \/ \E b \in Basket : (\E n \in 1 .. Cap : Admit(b, n)) \/ Hold(b) \/ Lose(b)
                         \/ Check(b) \/ End(b)
  \/ \E b \in Basket, l \in Leg : \E q \in 0 .. Quantity : Move(b, l, q)

Spec == Init /\ [][Next]_vars

=============================================================================
