----------------------------- MODULE Economics -----------------------------
(***************************************************************************)
(* What a basket costs (money.py, economics/depth.py, fees/schedule.py,    *)
(* detector/basket.py, detector/implication.py, shadow/executor.py), as    *)
(* operators.  Money counts in ticks, Cent of them to the cent, because    *)
(* the venue quotes in fractions of a cent; contracts are whole.           *)
(***************************************************************************)
EXTENDS Integers, FiniteSetsExt, SequencesExt

CONSTANTS
  Cent,         (* ticks in a cent                                          *)
  IndexTicker   (* the tickers of the series the index rule overrides       *)

ASSUME EconomicsConstants == Cent \in Nat \ {0}

Dollar == 100 * Cent

CeilDiv(a, b) == (a + b - 1) \div b

(* Costs and fees round up to the cent, proceeds down. *)
QuantizeCost(amount) == CeilDiv(amount, Cent) * Cent
QuantizeProceeds(amount) == (amount \div Cent) * Cent

SumOf(f, tickers) == MapThenSumSet(LAMBDA t : f[t], tickers)

-----------------------------------------------------------------------------
(* Books.  A side's resting bids are a function from price to quantity,    *)
(* finitely many, above nothing and below a dollar, each for something.    *)

IsBids(bids) ==
  /\ IsFiniteSet(DOMAIN bids) /\ DOMAIN bids \subseteq 1 .. Dollar - 1
  /\ \A p \in DOMAIN bids : bids[p] \in Nat \ {0}

Opposite(side) == IF side = "yes" THEN "no" ELSE "yes"

\* Mutant: the asks come dearest first.
AskLevelsReversed(book, side) ==
  LET bids == book[Opposite(side)]
      price == CHOOSE s \in [1 .. Cardinality(DOMAIN bids) -> DOMAIN bids] :
                 \A i, j \in DOMAIN s : i < j => s[i] < s[j]
  IN  [i \in DOMAIN price |-> [price |-> Dollar - price[i], quantity |-> bids[price[i]]]]

(* The offers to sell `side' are the other side's bids; its best bid is the *)
(* cheapest of them.                                                        *)
AskLevels(book, side) ==
  LET bids == book[Opposite(side)]
      price == CHOOSE s \in [1 .. Cardinality(DOMAIN bids) -> DOMAIN bids] :
                 \A i, j \in DOMAIN s : i < j => s[i] > s[j]
  IN  [i \in DOMAIN price |-> [price |-> Dollar - price[i], quantity |-> bids[price[i]]]]

(* One level of the walk; nothing is taken once the quantity is met. *)
TakeLevel(walk, level) ==
  LET take == Min({walk.remaining, level.quantity})
  IN  IF take <= 0
      THEN walk
      ELSE [remaining |-> walk.remaining - take, cost |-> walk.cost + take * level.price]

WalkLevels(levels, quantity) ==
  LET walk == FoldLeft(TakeLevel, [remaining |-> quantity, cost |-> 0], levels)
  IN  IF quantity <= 0
      THEN [requested |-> quantity, filled |-> 0, cost |-> 0]
      ELSE [requested |-> quantity, filled |-> quantity - walk.remaining,
            cost |-> QuantizeCost(walk.cost)]

IsComplete(walk) == walk.filled >= walk.requested

-----------------------------------------------------------------------------
(* Fees.  A multiplier counts in halves; only the taker's rate is asked for. *)

GeneralFee == [multiplier |-> 2, verified |-> TRUE]
IndexFee == [multiplier |-> 1, verified |-> FALSE]

(* The specific rule before the general one; both took effect long ago. *)
RuleFor(ticker) == IF ticker \in IndexTicker THEN IndexFee ELSE GeneralFee

(* 0.07 x multiplier x C x P x (1 - P), rounded up to the cent, for         *)
(* `contracts' bought for `cost' in all: P is their average price.          *)
Fee(rule, cost, contracts) ==
  IF contracts <= 0
  THEN 0
  ELSE CeilDiv(7 * rule.multiplier * cost * (contracts * Dollar - cost),
               2 * contracts * Dollar * Dollar) * Cent

(* Every leg is a trade of its own, at its own price and rounding. *)
BasketFee(legs, price, contracts) ==
  SumOf([t \in legs |-> Fee(RuleFor(t), price[t] * contracts, contracts)], legs)

-----------------------------------------------------------------------------
(* Qualification.  A request has legs (a sequence of ticker and side),      *)
(* books, ages (-1 is unknown), quantity, minEdge, maxAge, verifiedFees,    *)
(* and reserve, the three reserves of a contract together.                  *)

Rejected(reason) == [accepted |-> FALSE, reason |-> reason, legs |-> <<>>, acquisition |-> 0,
                     fees |-> 0, reserves |-> 0, payout |-> 0]

NetEdge(e) == e.payout - (e.acquisition + e.fees + e.reserves)

LegWalk(r, leg) == WalkLevels(AskLevels(r.books[leg.ticker], leg.side), r.quantity)

(* The first gate a leg fails, in the order of the code. *)
LegReason(r, leg) ==
  IF leg.ticker \notin DOMAIN r.books THEN "market_not_open"
  ELSE IF ~ r.books[leg.ticker].complete THEN "book_incomplete"
  ELSE IF r.ages[leg.ticker] = -1 \/ r.ages[leg.ticker] > r.maxAge THEN "stale_quote"
  ELSE IF ~ IsComplete(LegWalk(r, leg)) THEN "insufficient_depth"
  ELSE IF r.verifiedFees /\ ~ RuleFor(leg.ticker).verified THEN "unknown_fee"
  ELSE "none"

QuoteLeg(r, leg) ==
  LET walk == LegWalk(r, leg)
  IN  [ticker |-> leg.ticker, side |-> leg.side, cost |-> walk.cost,
       fee |-> Fee(RuleFor(leg.ticker), walk.cost, r.quantity)]

SumOver(amounts) == FoldLeft(LAMBDA sum, amount : sum + amount, 0, amounts)

Priced(quotes, payout, reserves) ==
  [accepted |-> TRUE, reason |-> "none", legs |-> quotes,
   acquisition |-> QuantizeCost(SumOver([k \in DOMAIN quotes |-> quotes[k].cost])),
   fees |-> SumOver([k \in DOMAIN quotes |-> quotes[k].fee]),
   reserves |-> reserves, payout |-> payout]

(* What remains, against the threshold. *)
Judged(priced, minEdge) ==
  IF NetEdge(priced) <= minEdge
  THEN [priced EXCEPT !.accepted = FALSE, !.reason = "nonpositive_net_edge"]
  ELSE priced

Qualify(r, payout, reserves) ==
  LET failing == {i \in DOMAIN r.legs : LegReason(r, r.legs[i]) # "none"}
  IN  IF failing # {} THEN Rejected(LegReason(r, r.legs[Min(failing)]))
      ELSE Judged(Priced([i \in DOMAIN r.legs |-> QuoteLeg(r, r.legs[i])], payout, reserves),
                  r.minEdge)

(* One leg of a partition pays a dollar. *)
EvaluateBasket(r) ==
  IF r.quantity <= 0 THEN Rejected("insufficient_depth")
  ELSE IF Len(r.legs) < 2 THEN Rejected("relationship_not_approved")
  ELSE Qualify(r, QuantizeProceeds(Dollar * r.quantity), QuantizeCost(r.reserve * r.quantity))

MinimumPayout(table) == Min({row.payout : row \in table})

(* NO of the antecedent and YES of the consequent, under the approved table; *)
(* no reserves are kept here.                                                *)
EvaluateImplication(r, table) ==
  IF r.quantity <= 0 THEN Rejected("insufficient_depth")
  ELSE IF table = {} THEN Rejected("relationship_not_approved")
  ELSE Qualify(r, QuantizeProceeds(MinimumPayout(table) * r.quantity), 0)

-----------------------------------------------------------------------------
(* The survey's price of a partition, of one contract at the best quotes of *)
(* its legs (analysis/survey.py); a leg nobody bids for is worth nothing.   *)

BestPrice(bids) == IF DOMAIN bids = {} THEN 0 ELSE Max(DOMAIN bids)

(* A leg without an offer leaves the basket without a price. *)
Surveyed(books) == \A t \in DOMAIN books : DOMAIN books[t].no # {}

SurveyPrice(books) ==
  LET best(t) == BestPrice(books[t].no)
  IN  [taker |-> MapThenSumSet(LAMBDA t : Dollar - best(t), DOMAIN books),
       maker |-> MapThenSumSet(LAMBDA t : BestPrice(books[t].yes), DOMAIN books),
       depth |-> Min({books[t].no[best(t)] : t \in DOMAIN books})]

-----------------------------------------------------------------------------
(* The shadow attempt: leg after leg, the best level gone or not.           *)

FillOf(levels, quantity, vanished) ==
  WalkLevels(IF vanished /\ levels # <<>> THEN Tail(levels) ELSE levels, quantity)

\* Mutant: anything filled counts as a filled leg.
AnyFill(walk) == IF walk.filled <= 0 THEN "missed" ELSE "filled"

FillOutcome(walk) ==
  IF walk.filled <= 0 THEN "missed"
  ELSE IF IsComplete(walk) THEN "filled" ELSE "partial"

(* Two hundredths of what was paid is lost bringing it back. *)
UnwindLoss(acquired) == CeilDiv(2 * acquired, 100 * Cent) * Cent
=============================================================================
