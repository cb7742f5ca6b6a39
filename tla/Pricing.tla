------------------------------ MODULE Pricing ------------------------------
(***************************************************************************)
(* A candidate from its listing to its shadow execution.  An event whose   *)
(* markets are shaped like a basket becomes a registered relationship (or  *)
(* an implication is registered by hand); evaluate_basket or               *)
(* evaluate_implication prices it on the books there are; what qualifies   *)
(* is acquired leg by leg by simulate_basket, each leg finding its best    *)
(* level gone or not (the seeded draw is a free choice here).              *)
(***************************************************************************)
EXTENDS Economics, Discovery

CONSTANTS
  Events,       (* the events the venue may list                            *)
  Values,       (* the values a numeric event may settle at                 *)
  Antecedent, Consequent,  (* the tickers of the implication                *)
  Tables,       (* the payout tables an approved implication may carry      *)
  Books,        (* the books a ticker may show                              *)
  Ages,         (* how old the quotes may be, ticker by ticker              *)
  Quantities, Reserves, MaxAge

VARIABLES
  phase,      (* "listed", "registered", "asked", "evaluated", "acquiring",
                 "closed"                                                   *)
  event,      (* the event listed; NoEvent once it is registered           *)
  legs,       (* what the relationship has one buy: ticker and side         *)
  table,      (* the states of the relationship and what each pays          *)
  request,    (* what is priced                                             *)
  evaluation, (* what pricing answered                                      *)
  fills       (* the legs attempted so far                                  *)

vars == <<phase, event, legs, table, request, evaluation, fills>>

NoEvent == [exclusive |-> FALSE, markets |-> <<>>]
NoRequest == [quantity |-> 0, books |-> <<>>]

ImplicationLegs ==
  <<[ticker |-> Antecedent, side |-> "no"], [ticker |-> Consequent, side |-> "yes"]>>

(* Which of the legs bought pay when `yes' are the tickers that resolve YES. *)
Paying(bought, yes) == {i \in DOMAIN bought : (bought[i].side = "yes") = (bought[i].ticker \in yes)}

(* A strike is any decimal, counted in units of 1 / One; a ticker belongs   *)
(* to one market (db/models.py: uq_market_venue_ticker); an event settles   *)
(* at some value, whole or not; quotes are within a dollar; and an approved *)
(* table promises no more in any of its states than the legs pay there,     *)
(* which is what the reviewer has signed (detector/implication.py).         *)
ASSUME PricingConstants ==
  /\ \A e \in Events :
       /\ Len(e.markets) \in Nat /\ DOMAIN e.markets = 1 .. Len(e.markets)
       /\ \A i \in DOMAIN e.markets :
            {e.markets[i].floor, e.markets[i].cap} \subseteq Int \cup {NoStrike}
       /\ \A i, j \in DOMAIN e.markets : e.markets[i].ticker = e.markets[j].ticker => i = j
  /\ Values \subseteq Int /\ Values # {}
  /\ Quantities \subseteq Nat /\ Reserves \subseteq Nat
  /\ \A book \in Books : \A side \in {"yes", "no"} : IsBids(book[side])
  /\ \A rows \in Tables :
       /\ IsFiniteSet(rows)
       /\ \A row \in rows :
            /\ row.payout \in Nat
            /\ row.payout <= Dollar * Cardinality(Paying(ImplicationLegs, row.yes))

Init ==
  /\ phase = "listed"
  /\ event \in Events
  /\ legs = <<>>
  /\ table = {}
  /\ request = NoRequest
  /\ evaluation = Rejected("none")
  /\ fills = <<>>

(* Every market of the set is bought.  A numeric set has a state for each   *)
(* value its event may settle at; of a categorical one a reviewer says that *)
(* one outcome wins.  A state's payout is the dollar the claim promises.    *)
YesLegs(markets) == [i \in DOMAIN markets |-> [ticker |-> markets[i].ticker, side |-> "yes"]]

States(markets) ==
  LET resolving(v) == {markets[i].ticker : i \in {k \in DOMAIN markets : Resolves(markets[k], v)}}
  IN  IF CoverageIsCheckable(ClassifyEvent(TRUE, markets))
      THEN {[yes |-> resolving(v), payout |-> Dollar, hole |-> InHole(markets, v)] : v \in Values}
      ELSE {[yes |-> {markets[i].ticker}, payout |-> Dollar, hole |-> FALSE] : i \in DOMAIN markets}

Register ==
  /\ phase = "listed"
  /\ Candidate(event)
  /\ phase' = "registered"
  /\ legs' = YesLegs(Active(event))
  /\ table' = States(Active(event))
  /\ event' = NoEvent
  /\ UNCHANGED <<request, evaluation, fills>>

RegisterImplication ==
  /\ phase = "listed"
  /\ phase' = "registered"
  /\ legs' = ImplicationLegs
  /\ table' \in Tables
  /\ event' = NoEvent
  /\ UNCHANGED <<request, evaluation, fills>>

Partition == legs # ImplicationLegs

(* A partition is priced on books of all its legs only; an implication on   *)
(* those there are, and without reserves.                                   *)
Ask ==
  /\ phase = "registered"
  /\ phase' = "asked"
  /\ \E ages \in Ages, quantity \in Quantities, verifiedFees \in BOOLEAN,
        reserve \in IF Partition THEN Reserves ELSE {0},
        open \in LET tickers == {legs[i].ticker : i \in DOMAIN legs}
                 IN  IF Partition THEN {tickers} ELSE SUBSET tickers :
       \E books \in [open -> Books] :
         request' = [legs |-> legs, books |-> books, ages |-> ages, quantity |-> quantity,
                     reserve |-> reserve, verifiedFees |-> verifiedFees, minEdge |-> 0,
                     maxAge |-> MaxAge]
  /\ UNCHANGED <<event, legs, table, evaluation, fills>>

Evaluate ==
  /\ phase = "asked"
  /\ phase' = "evaluated"
  /\ evaluation' = IF Partition THEN EvaluateBasket(request) ELSE EvaluateImplication(request, table)
  /\ UNCHANGED <<event, legs, table, request, fills>>

(* Every leg is attempted, however the earlier ones went. *)
AttemptLeg ==
  /\ phase \in {"evaluated", "acquiring"}
  /\ Partition
  /\ evaluation.accepted
  /\ Len(fills) < Len(legs)
  /\ phase' = "acquiring"
  /\ \E vanished \in BOOLEAN :
       LET leg == legs[Len(fills) + 1]
       IN  fills' = Append(fills, FillOf(AskLevels(request.books[leg.ticker], leg.side),
                                         request.quantity, vanished))
  /\ UNCHANGED <<event, legs, table, request, evaluation>>

Finish ==
  /\ phase = "acquiring"
  /\ Len(fills) = Len(legs)
  /\ phase' = "closed"
  /\ UNCHANGED <<event, legs, table, request, evaluation, fills>>

Next == Register \/ RegisterImplication \/ Ask \/ Evaluate \/ AttemptLeg \/ Finish

Spec == Init /\ [][Next]_vars

-----------------------------------------------------------------------------
(* The result of the attempt, as the research report books it. *)

Complete == \A i \in DOMAIN fills : FillOutcome(fills[i]) = "filled"
AcquisitionCost == SumOver([k \in DOMAIN fills |-> fills[k].cost])
Exposed == ~ Complete /\ \E i \in DOMAIN fills : fills[i].filled > 0

Realized ==
  IF Complete
  THEN Dollar * request.quantity - AcquisitionCost - evaluation.fees
  ELSE - UnwindLoss(AcquisitionCost)

-----------------------------------------------------------------------------
(* References the properties judge the arithmetic by. *)

(* A way of taking contracts from the offers, price by price: how many, and  *)
(* for how much.                                                             *)
TakenBy(way) == MapThenSumSet(LAMBDA p : way[p], DOMAIN way)
PaidBy(way) == MapThenSumSet(LAMBDA p : way[p] * (Dollar - p), DOMAIN way)

(* The least that `quantity' contracts of a leg can be had for, to the tick: *)
(* over all the ways of taking them.                                         *)
LeastCost(leg, quantity) ==
  LET bids == request.books[leg.ticker][Opposite(leg.side)]
      ways == {w \in [DOMAIN bids -> 0 .. quantity] :
                 (\A p \in DOMAIN bids : w[p] <= bids[p]) /\ TakenBy(w) = quantity}
  IN  Min({PaidBy(w) : w \in ways})

(* What is left with nothing rounded but the fee, which the venue rounds up. *)
TrueEdge ==
  LET wanted == request.legs
      cost == [k \in DOMAIN wanted |-> LeastCost(wanted[k], request.quantity)]
      fee == [k \in DOMAIN wanted |-> Fee(RuleFor(wanted[k].ticker), cost[k], request.quantity)]
  IN  (MinimumPayout(table) - request.reserve) * request.quantity - SumOver(cost) - SumOver(fee)

(* What a dollar contract on each leg returns when `yes' are the tickers    *)
(* that resolve YES.                                                        *)
Settled(yes) == Dollar * request.quantity * Cardinality(Paying(evaluation.legs, yes))

-----------------------------------------------------------------------------

(* The edge a qualifying candidate reports is the true one but for rounding: *)
(* never a cent per leg above it, though each fee is taken at an average of  *)
(* rounded costs, and below it by no more than what rounds up: the cost and  *)
(* the fee of each leg, and the reserves.  A walk that is not the cheapest   *)
(* way to fill the order (depth.py: walk_levels) is further off than that.   *)
(* The survey, which looks at best quotes only, prices it no dearer, and to *)
(* the cent per leg the same where the best quotes suffice.                  *)
EdgeIsWithinRounding ==
  evaluation.accepted =>
    LET n == Len(evaluation.legs)
        surveyed == SurveyPrice(request.books)
    IN  /\ NetEdge(evaluation) < TrueEdge + n * Cent
        /\ NetEdge(evaluation) > TrueEdge - (2 * n + 1) * Cent
        /\ Partition =>
             /\ Surveyed(request.books)
             /\ surveyed.taker * request.quantity <= evaluation.acquisition
             /\ request.quantity <= surveyed.depth =>
                  evaluation.acquisition < surveyed.taker * request.quantity + n * Cent

(* Whatever value the event settles at, or state of the implication comes   *)
(* about, what was bought returns at least the reported edge over all that  *)
(* was spent and kept aside, and that is a profit: the buckets discovery    *)
(* found to tile leave nothing out but what lies between one and the next,  *)
(* and the payout is the least of the states (basket.py: the minimum over   *)
(* states, not the expected one).                                           *)
NoStateLoses ==
  evaluation.accepted =>
    \A row \in table : ~ row.hole =>
      /\ Settled(row.yes) - (evaluation.acquisition + evaluation.fees + evaluation.reserves)
           >= NetEdge(evaluation)
      /\ NetEdge(evaluation) > request.minEdge

(* Being late is never better than being on time: an attempt realises no    *)
(* more than the edge (and the reserves) the evaluation saw, and one that   *)
(* is left exposed loses money (shadow/executor.py: all of the assumptions  *)
(* make it worse).                                                          *)
ShadowMakesItWorse ==
  phase = "closed" =>
    /\ Realized <= NetEdge(evaluation) + evaluation.reserves
    /\ Exposed => Realized < 0

(* "Verify a numeric partition leaves no integer unresolved (FR-008)"       *)
(* (discovery.py:204).  A cap that is not whole has an integer behind it    *)
(* (FractionalStrikes.cfg).                                                 *)
NoIntegerUnresolved ==
  LET markets == Active(event)
  IN  Candidate(event) /\ CoverageIsCheckable(ClassifyEvent(event.exclusive, markets)) =>
        \A v \in Values : v % One = 0 => \E i \in DOMAIN markets : Resolves(markets[i], v)

(* "The reported edge is a lower bound on the true edge, never an upper     *)
(* one" (detector/basket.py).  The fee is taken at the average of a cost    *)
(* already rounded up, and above fifty cents a higher price has a lower fee. *)
NetEdgeIsLowerBound ==
  evaluation.accepted => NetEdge(evaluation) <= TrueEdge
=============================================================================
