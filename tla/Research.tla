------------------------------ MODULE Research ------------------------------
(***************************************************************************)
(* What the analyses make of the archive, as operators over its rows: the  *)
(* basket scan (analysis/baskets.py), the maker scan (analysis/maker.py),  *)
(* the falsification funnel (analysis/falsification.py) and the coverage   *)
(* of the collection itself (collection/coverage.py).                      *)
(*                                                                         *)
(* A row has a ticker, the time it was captured and the book; rows are in  *)
(* the order of their times.  A poll has the time its cycle was completed  *)
(* and the tickers it confirmed; a sample a stream and a time.             *)
(***************************************************************************)
EXTENDS Economics

CONSTANT EventOf   (* the event of each ticker: its series and period *)

(* The legs of a ticker's event, among those of some of the rows. *)
LegsAmong(rows, some, ticker) ==
  {rows[i].ticker : i \in {k \in some : EventOf[rows[k].ticker] = EventOf[ticker]}}

LegsOf(rows, ticker) == LegsAmong(rows, DOMAIN rows, ticker)

(* Dictionaries. *)
Put(f, key, value) == [x \in DOMAIN f \cup {key} |-> IF x = key THEN value ELSE f[x]]
Dropped(f, key) == [x \in DOMAIN f \ {key} |-> f[x]]
Nobody == [x \in {} |-> 0]

\* Mutant: a confirmation counts before it has happened.
EverConfirmed(polls, ticker, at, default) ==
  Max({polls[i].completed : i \in {k \in DOMAIN polls : ticker \in polls[k].confirmed}}
      \cup {default})

(* The last poll at or before `at' that confirmed the ticker, and its last  *)
(* change where that is later or no poll did.                               *)
LastConfirmed(polls, ticker, at, default) ==
  Max({polls[i].completed : i \in {k \in DOMAIN polls : /\ ticker \in polls[k].confirmed
                                                        /\ polls[k].completed <= at}}
      \cup {default})

-----------------------------------------------------------------------------
(* The basket scan.                                                         *)

(* The best bid for NO is the cheapest offer of YES. *)
BestYesAsk(book) == LET bid == Max(DOMAIN book.no) IN [ask |-> Dollar - bid, size |-> book.no[bid]]

\* Mutant: a leg is as old as its last change.
StaleSinceChange(polls, quotes, legs, at, maxAge) ==
  \E t \in legs : at - quotes[t].at > maxAge

Stale(polls, quotes, legs, at, maxAge) ==
  \E t \in legs : at - LastConfirmed(polls, t, at, quotes[t].at) > maxAge

NetDollars(p) == (Dollar - p.cost) * p.size - p.fee
Cheap(p) == p.cost < Dollar

PricingOf(row, quotes, legs) ==
  LET size == Min({quotes[t].size : t \in legs})
      ask == [t \in legs |-> quotes[t].ask]
  IN  [event |-> EventOf[row.ticker], at |-> row.captured, ask |-> ask, size |-> size,
       cost |-> SumOf(ask, legs), fee |-> BasketFee(legs, ask, size)]

NewEpisode(p) ==
  [event |-> p.event, first |-> p.at, last |-> p.at, observations |-> 1,
   bestNet |-> NetDollars(p), bestCost |-> p.cost, size |-> p.size]

Extended(episode, p) ==
  LET seen == [episode EXCEPT !.last = p.at, !.observations = @ + 1]
  IN  IF NetDollars(p) > episode.bestNet
      THEN [seen EXCEPT !.bestNet = NetDollars(p), !.bestCost = p.cost, !.size = p.size]
      ELSE seen

\* Mutant: a dear pricing does not end the episode.
BookedOn(scan, p) ==
  LET k == scan.open[p.event]
  IN  IF ~ Cheap(p) THEN [scan EXCEPT !.priced = Append(@, p)]
      ELSE IF k = 0
      THEN [scan EXCEPT !.priced = Append(@, p), !.episodes = Append(@, NewEpisode(p)),
                        !.open[p.event] = Len(scan.episodes) + 1]
      ELSE [scan EXCEPT !.priced = Append(@, p), !.episodes[k] = Extended(@, p)]

(* A pricing opens, extends or ends its event's episode. *)
Booked(scan, p) ==
  LET k == scan.open[p.event]
  IN  IF ~ Cheap(p) THEN [scan EXCEPT !.priced = Append(@, p), !.open[p.event] = 0]
      ELSE IF k = 0
      THEN [scan EXCEPT !.priced = Append(@, p), !.episodes = Append(@, NewEpisode(p)),
                        !.open[p.event] = Len(scan.episodes) + 1]
      ELSE [scan EXCEPT !.priced = Append(@, p), !.episodes[k] = Extended(@, p)]

QuoteOf(row) ==
  [ask |-> BestYesAsk(row.book).ask, size |-> BestYesAsk(row.book).size, at |-> row.captured]

(* Every usable row updates its leg and prices the event, if every leg ever *)
(* seen of it has a quote, and a fresh one.                                 *)
ScanRow(rows, polls, maxAge, scan, row) ==
  LET latest == Put(scan.latest, row.ticker, QuoteOf(row))
      legs == LegsOf(rows, row.ticker)
      next == [scan EXCEPT !.latest = latest]
  IN  IF ~ row.book.complete THEN scan
      ELSE IF DOMAIN row.book.no = {} THEN [scan EXCEPT !.latest = Dropped(@, row.ticker)]
      ELSE IF Cardinality(legs) < 2 THEN next
      ELSE IF ~ legs \subseteq DOMAIN latest THEN [next EXCEPT !.skippedIncomplete = @ + 1]
      ELSE IF Stale(polls, latest, legs, row.captured, maxAge)
           THEN [next EXCEPT !.skippedStale = @ + 1]
      ELSE Booked(next, PricingOf(row, latest, legs))

NothingScanned ==
  [latest |-> Nobody, open |-> [e \in {EventOf[t] : t \in DOMAIN EventOf} |-> 0],
   priced |-> <<>>, episodes |-> <<>>, skippedStale |-> 0, skippedIncomplete |-> 0]

BasketScan(rows, polls, maxAge) ==
  FoldLeft(LAMBDA scan, row : ScanRow(rows, polls, maxAge, scan, row), NothingScanned, rows)

-----------------------------------------------------------------------------
(* The maker scan.                                                          *)

(* The rows that offer a ticker, of those that are complete. *)
CompleteRows(rows) == {i \in DOMAIN rows : rows[i].book.complete}
Offering(rows, ticker) ==
  {i \in CompleteRows(rows) : rows[i].ticker = ticker /\ DOMAIN rows[i].book.no # {}}

\* Mutant: an ask seen before the order rested counts as well.
AnyAskFills(rows, ticker, price, start, deadline) ==
  \E i \in Offering(rows, ticker) : /\ rows[i].captured <= deadline
                                   /\ BestYesAsk(rows[i].book).ask <= price

(* A resting bid fills when a later ask comes down to it in time. *)
FillsBy(rows, ticker, price, start, deadline) ==
  \E i \in Offering(rows, ticker) : /\ start < rows[i].captured /\ rows[i].captured <= deadline
                                   /\ BestYesAsk(rows[i].book).ask <= price

(* Where the last ask of the scoring window stands against the price paid;  *)
(* "unscored" when nothing came after.                                      *)
MovedAgainst(rows, ticker, price, start, window) ==
  LET later == {i \in Offering(rows, ticker) :
                  start < rows[i].captured /\ rows[i].captured <= start + window}
  IN  IF later = {} THEN "unscored"
      ELSE IF BestYesAsk(rows[Max(later)].book).ask < price THEN "against" ELSE "held"

(* One tick inside the best bid. *)
ImprovedBid(quote) == quote.bid + 1

(* What a bid on every leg costs if they all fill. *)
BidCost(quotes, legs) == SumOf([t \in legs |-> ImprovedBid(quotes[t])], legs)

(* The orders of one moment, a bid on every leg. *)
Orders(rows, quotes, at, horizon, window) ==
  {LET price == ImprovedBid(quotes[t])
   IN  [ticker |-> t, at |-> at, price |-> price,
        filled |-> FillsBy(rows, t, price, at, at + horizon),
        after |-> MovedAgainst(rows, t, price, at, window)] : t \in DOMAIN quotes}

(* A row with both sides updates its leg; a bid is put on every leg if they *)
(* are all quoted, and together cost less than they pay.                    *)
MakerRow(rows, polls, maxAge, horizon, window, scan, row) ==
  LET quote == [bid |-> Max(DOMAIN row.book.yes), ask |-> BestYesAsk(row.book).ask,
                at |-> row.captured]
      latest == Put(scan.latest, row.ticker, quote)
      legs == LegsAmong(rows, CompleteRows(rows), row.ticker)
      next == [scan EXCEPT !.latest = latest]
      orders == Orders(rows, [t \in legs |-> latest[t]], row.captured, horizon, window)
  IN  IF ~ row.book.complete THEN scan
      ELSE IF DOMAIN row.book.yes = {} \/ DOMAIN row.book.no = {}
           THEN [scan EXCEPT !.latest = Dropped(@, row.ticker)]
      ELSE IF \/ Cardinality(legs) < 2
              \/ ~ legs \subseteq DOMAIN latest
              \/ Stale(polls, latest, legs, row.captured, maxAge)
           THEN next
      ELSE IF BidCost(latest, legs) >= Dollar
           THEN [next EXCEPT !.moments = @ + 1]
      ELSE [next EXCEPT !.moments = @ + 1, !.attempts = Append(@, orders)]

NothingOffered == [latest |-> Nobody, moments |-> 0, attempts |-> <<>>]

MakerScan(rows, polls, maxAge, horizon, window) ==
  FoldLeft(LAMBDA scan, row : MakerRow(rows, polls, maxAge, horizon, window, scan, row),
           NothingOffered, rows)

-----------------------------------------------------------------------------
(* The falsification funnel, at one quote age.                              *)

InOrder(legOrder, legs) ==
  LET at == {i \in DOMAIN legOrder : legOrder[i] \in legs}
      place == CHOOSE s \in [1 .. Cardinality(at) -> at] :
                 \A i, j \in DOMAIN s : i < j => s[i] < s[j]
  IN  [i \in DOMAIN place |-> legOrder[place[i]]]

(* The attempt on a basket, leg after leg, each leg's draw the same every    *)
(* time, for the seed is.                                                   *)
Simulate(books, ordered, quantity, draws) ==
  [i \in DOMAIN ordered |-> FillOf(AskLevels(books[ordered[i]], "yes"), quantity, draws[i])]

Tallied(slice, evaluation, fills, quantity) ==
  LET complete == \A i \in DOMAIN fills : FillOutcome(fills[i]) = "filled"
      cost == SumOver([k \in DOMAIN fills |-> fills[k].cost])
      tried == [slice EXCEPT !.gross = @ + NetEdge(evaluation)]
  IN  IF complete
      THEN [tried EXCEPT !.completed = @ + 1,
                         !.realized = @ + Dollar * quantity - cost - evaluation.fees]
      ELSE [tried EXCEPT !.exposed = @ + (IF \E i \in DOMAIN fills : fills[i].filled > 0 THEN 1 ELSE 0),
                         !.unwound = @ + UnwindLoss(cost),
                         !.realized = @ - UnwindLoss(cost)]

(* A rejection counted by its reason, or an attempt made. *)
Weighed(slice, evaluation, candidate, fills, quantity) ==
  IF ~ evaluation.accepted
  THEN [slice EXCEPT !.rejected = Append(@, evaluation.reason)]
  ELSE Tallied([slice EXCEPT !.accepted = Append(@, candidate)], evaluation, fills, quantity)

(* The run's settings: the quote age allowed, the quantity, research mode,  *)
(* the approved leg sets, the sorted tickers and the shadow's draws.        *)
FunnelRequest(config, latest, legs, polls, at) ==
  LET ordered == InOrder(config.legOrder, legs)
  IN  [legs |-> [i \in DOMAIN ordered |-> [ticker |-> ordered[i], side |-> "yes"]],
       books |-> [t \in legs |-> latest[t].book],
       ages |-> [t \in legs |-> at - LastConfirmed(polls, t, at, latest[t].at)],
       quantity |-> config.quantity, reserve |-> 0, minEdge |-> 0, maxAge |-> config.threshold,
       verifiedFees |-> ~ config.research]

FunnelRow(rows, polls, config, slice, row) ==
  LET latest == Put(slice.latest, row.ticker, [book |-> row.book, at |-> row.captured])
      legs == LegsOf(rows, row.ticker)
      next == [slice EXCEPT !.latest = latest]
      request == FunnelRequest(config, latest, legs, polls, row.captured)
      fills == Simulate(request.books, InOrder(config.legOrder, legs), config.quantity, config.draws)
  IN  IF ~ row.book.complete THEN slice
      ELSE IF Cardinality(legs) < 2 \/ ~ legs \subseteq DOMAIN latest THEN next
      ELSE IF ~ config.research /\ legs \notin config.approved
           THEN [next EXCEPT !.rejected = Append(@, "relationship_not_approved")]
      ELSE Weighed(next, EvaluateBasket(request), [at |-> row.captured, legs |-> legs], fills,
                   config.quantity)

NothingTried ==
  [latest |-> Nobody, accepted |-> <<>>, rejected |-> <<>>, completed |-> 0,
   exposed |-> 0, gross |-> 0, realized |-> 0, unwound |-> 0]

Falsify(rows, polls, config) ==
  FoldLeft(LAMBDA slice, row : FunnelRow(rows, polls, config, slice, row), NothingTried, rows)

-----------------------------------------------------------------------------
(* Coverage.                                                                *)

Stamps(samples) == {samples[i].observed : i \in DOMAIN samples}

(* Where neighbouring stamps are further apart than the threshold. *)
GapsBetween(stamps, threshold) ==
  {g \in stamps \X stamps : /\ g[2] - g[1] > threshold
                            /\ ~ \E s \in stamps : g[1] < s /\ s < g[2]}

(* The collector's gaps: between the samples of all streams together, and   *)
(* since the last of them.                                                  *)
CollectorGaps(samples, now, threshold) ==
  LET stamps == Stamps(samples)
  IN  GapsBetween(stamps, threshold)
        \cup (IF stamps # {} /\ now - Max(stamps) > threshold THEN {<<Max(stamps), now>>} ELSE {})

\* Mutant: the stretches are measured from gap to gap.
LongestFromGaps(samples, now, threshold) ==
  LET gaps == CollectorGaps(samples, now, threshold)
      stamps == Stamps(samples)
  IN  IF stamps = {} THEN 0
      ELSE Max({g[2] - g[1] : g \in gaps} \cup {IF gaps = {} THEN Max(stamps) - Min(stamps) ELSE 0})

(* The longest piece of the whole span that the gaps leave. *)
LongestContinuous(samples, now, threshold) ==
  LET stamps == Stamps(samples)
      gaps == CollectorGaps(samples, now, threshold)
      starts == {Min(stamps)} \cup {g[2] : g \in gaps}
      ends == {g[1] : g \in gaps}
                \cup {IF now - Max(stamps) > threshold THEN now ELSE Max(stamps)}
      next(s) == Min({e \in ends : e >= s})
  IN  IF stamps = {} THEN 0 ELSE Max({next(s) - s : s \in starts})

MeetsGate(samples, now, threshold, duration) ==
  samples # <<>> /\ LongestContinuous(samples, now, threshold) >= duration
=============================================================================
