----------------------------- MODULE Discovery -----------------------------
(***************************************************************************)
(* Which event groups are shaped like a basket (venues/kalshi/discovery.py) *)
(* and which of them the survey and the universe keep (analysis/survey.py, *)
(* venues/kalshi/universe.py), as operators.  A market has a ticker, a     *)
(* type, a floor and a cap (NoStrike when it has none), and is active or   *)
(* not; an event has its markets and the venue's word on their exclusivity. *)
(***************************************************************************)
EXTENDS Integers, FiniteSets, Sequences

CONSTANTS
  NoStrike,
  One           (* units in the number 1: a strike is any decimal, a whole number of units *)

ASSUME DiscoveryConstants == One \in Nat \ {0}

MinOutcomes == 3

OfType(markets, type) == {i \in DOMAIN markets : markets[i].type = type}

\* A settled or unopened leg cannot be bought; the others keep their order.
Active(event) ==
  LET active == {i \in DOMAIN event.markets : event.markets[i].active}
      order == CHOOSE o \in [1 .. Cardinality(active) -> active] :
                 \A i, j \in DOMAIN o : i < j => o[i] < o[j]
  IN  [i \in DOMAIN order |-> event.markets[order[i]]]

(* The shape of an outcome set, by the first rule that applies. *)
ClassifyEvent(exclusive, markets) ==
  LET types == {markets[i].type : i \in DOMAIN markets}
  IN  IF Len(markets) < MinOutcomes THEN "too_few"
      ELSE IF ~ exclusive THEN "mixed"
      ELSE IF types \subseteq {"custom"} THEN "categorical"
      ELSE IF ~ types \subseteq {"between", "less", "greater"} THEN "mixed"
      ELSE IF ~ {"less", "greater"} \subseteq types THEN "open_ended"
      ELSE "partition"

MayPropose(verdict) == verdict \in {"partition", "categorical"}
CoverageIsCheckable(verdict) == verdict = "partition"

(* By floor, a missing one counting as zero; the sort is stable. *)
SortedByFloor(markets, middles) ==
  LET key(i) == IF markets[i].floor = NoStrike THEN 0 ELSE markets[i].floor
      before(i, j) == key(i) < key(j) \/ (key(i) = key(j) /\ i < j)
      order == CHOOSE o \in [1 .. Cardinality(middles) -> middles] :
                 \A i, j \in DOMAIN o : i < j => before(o[i], o[j])
  IN  [i \in DOMAIN order |-> markets[order[i]]]

\* Mutant: neighbours may share their boundary.
TilesSharing(lowCap, middles, highFloor) ==
  IF middles = <<>>
  THEN lowCap - One = highFloor
  ELSE /\ Head(middles).floor = lowCap
       /\ \A i \in 1 .. Len(middles) - 1 :
            /\ middles[i].cap # NoStrike /\ middles[i + 1].floor # NoStrike
            /\ middles[i + 1].floor \in {middles[i].cap + One, middles[i].cap + 2 * One}
       /\ middles[Len(middles)].cap = highFloor

(* The lower tail ends where the first bucket begins, each bucket follows   *)
(* the one before it, the last ends where the upper tail begins.            *)
Tiles(lowCap, middles, highFloor) ==
  IF middles = <<>>
  THEN lowCap - One = highFloor
  ELSE /\ Head(middles).floor = lowCap
       /\ \A i \in 1 .. Len(middles) - 1 :
            /\ middles[i].cap # NoStrike /\ middles[i + 1].floor # NoStrike
            /\ middles[i + 1].floor = middles[i].cap + One
       /\ middles[Len(middles)].cap = highFloor

CheckIntegerCoverage(markets) ==
  \E low, high \in DOMAIN markets :
    /\ OfType(markets, "less") = {low} /\ OfType(markets, "greater") = {high}
    /\ markets[low].cap # NoStrike /\ markets[high].floor # NoStrike
    /\ Tiles(markets[low].cap, SortedByFloor(markets, OfType(markets, "between")),
             markets[high].floor)

(* What the survey keeps as a candidate: the check is skipped where there   *)
(* are no strikes to tile.                                                  *)
Candidate(event) ==
  LET verdict == ClassifyEvent(event.exclusive, Active(event))
  IN  /\ MayPropose(verdict)
      /\ CoverageIsCheckable(verdict) => CheckIntegerCoverage(Active(event))

(* When a market resolves YES, by the settlement rules. *)
Resolves(market, value) ==
  \/ market.type = "less" /\ value < market.cap
  \/ market.type = "between" /\ market.floor <= value /\ value <= market.cap
  \/ market.type = "greater" /\ value > market.floor

(* The values between a bucket and the one that follows it, which no market *)
(* resolves: no whole number is among them when the strikes are whole.      *)
InHole(markets, value) ==
  \E i, j \in OfType(markets, "between") :
    /\ markets[i].cap # NoStrike /\ markets[j].floor # NoStrike
    /\ markets[j].floor = markets[i].cap + One
    /\ markets[i].cap < value /\ value < markets[j].floor
=============================================================================
