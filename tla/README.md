# A verification of arbbot

`src/` is a research bot for prediction-market arbitrage: it collects order books, finds
baskets of contracts that are mispriced against an approved relationship, and, in a build
that has an execution path compiled in, acquires such a basket leg by leg with a human
approving each one. These modules model the part of it that keeps state, check the models
with TLC on small instances, and prove the properties that matter most with TLAPS.

Paths below are relative to `src/src/arbbot/`.

## 1. The system

| component | state | operations | correct when |
|---|---|---|---|
| order states (`states.py`) | none | the table of legal transitions, what is terminal, exposed, halting | its users move rows only along it |
| risk gate (`risk/gate.py`, limits in `config.py`) | none | `evaluate` | the caps hold of everything open, not only of one candidate |
| trading halt (`risk/halt.py`) | the cause in force, in the process | `trip`, `clear`, the automatic trips | the first cause stays in force until somebody clears it |
| executor, gateway (`execution/executor.py`, `gateway.py`) | the coroutine of each acquisition | `acquire`: gates, legs in order, unwinding | all legs or none; a lost answer stops the intent |
| store, journal (`execution/store.py`, `db/models.py`) | `order_intent`, `leg_order`, flushed then committed | `open_intent`, `transition`, `record_leg`, `exposure`, `realised_loss_since` | the rows say what the venue may hold |
| loop (`execution/loop.py`) | none of its own | `cycle`, `expire_stale` | parks what passed the gate, retires what waited too long |
| operator (`execution/operator.py`) | none of its own | `approve`, `reject` | sizes again before sending |
| reconciliation (`execution/reconcile.py`) | none of its own | `check` | FILLED means held in full |
| venue budget (`venues/budget.py`) | the leases, in the database | `acquire_lease`, `heartbeat`, `release` | the live shares fit under the ceiling |
| venue client (`venues/http.py`) | limiter's next slot, circuit breaker | `_get` | requests are spaced; a dead venue is left alone |
| books (`marketdata/`) | a book, its sequence tracker | `apply` | a complete book is the venue's book |
| collection (`collection/`) | last hash, archive, polls, health samples | `poll_once`, `run_cycle`, replay, coverage | replay rebuilds what was collected; coverage has no hole in it |
| registry (`registry/`) | relationship versions | `draft`, `approve`, `reject`, `suspend`, `check_usable`, proposals | only what was approved, as it was approved, is used |
| discovery (`venues/kalshi/discovery.py`) | none | `classify_event`, `check_integer_coverage` | what it proposes pays whatever happens |
| detector (`detector/`) | none | `evaluate_basket`, `evaluate_implication`, the live cycle | an edge reported is an edge that can be had |
| economics, fees, money (`economics/`, `fees/`, `money.py`) | none | walking depth, fees, rounding | conservative to the last unit |
| shadow executor (`shadow/`) | none | `simulate_basket` | never better than the evaluation |
| ledger (`ledger/`) | accounts, positions, capital days | `deposit`, `reserve`, `release`, `fill`, `settle`, `unwind` | it is worth what was paid in and earned |
| analyses (`analysis/`) | none | scans of the archive, the falsification funnel, the survey | what they report was seen |
| cross-venue matching, normalisation, api, cli output | reports | | not part of the trading state |

### How the parts meet

The *collector* polls each market through the *venue client* (one per process; the
processes share the venue's rate through the *venue budget*), archives what came, rebuilds
the *book* and, at the end of each cycle, lets the live *detector* price the registered
relationships on the books that cycle confirmed. Everything up to the commit at the end of
the cycle shares one database session.

A candidate then goes through the *loop* (`cycle`: the *risk gate* over the *store*'s
exposure snapshot, the *halt*), is parked for a human, sized again when the *operator*
approves it, and acquired leg by leg by the *executor* over a gateway, the *journal*
writing each step. An acquisition that loses an answer leaves its intent UNKNOWN, which
only *reconciliation* against the venue's positions can end. All of that is asyncio in one
process: a step runs from one `await` to the next, and only `gateway.place`,
`gateway.sell` and `PositionSource.positions` suspend.

Beside that path, *discovery* turns the venue's listings into the relationships the
registry drafts; the *analyses* read the archive back, price the same baskets on it with
the detector's own code, and put them through the *shadow executor*; and the *ledger* is
the account a shadow run would keep.

Nothing under `src/` constructs a live gateway, runs `TradingLoop` or calls `Reconciler`,
`CapitalLedger` or `heartbeat` outside tests. Where a component needs a caller, its module
says which one it assumes.

### What is hard in it

- *Interleaving*: several acquisitions suspended at the venue at once, the operator and
  the sweep on one row, coroutines that share a limiter and a breaker, processes that
  claim and expire leases.
- *Delivery*: an order's answer lost or late; book messages lost, repeated, reordered, or
  of another subscription that counts the same way.
- *Crashes*: rows are flushed long before they are committed; the venue keeps what the
  database forgot; a collector resumes its numbers from what was committed.
- *Partial failure*: a leg that fills in part, a sale that does not, a market that cannot
  be polled, a payload that does not decode.
- *Numbers*: costs and fees that round up leg by leg, walks that cross price levels,
  buckets that meet at a strike, capital-time accrued only when something is posted.
- *Archives of changes*: a row is stored when a book changes, so how old a quote is, whether
  an order was crossed and how long the collector was alive rest on polls and samples.
- *Stale state*: an approval that outlives the terms it was given for, records a review
  or a pass read before the other committed, legs of one basket read at different moments.
- *Liveness*: submissions that end, approvals that are answered, a breaker that closes,
  a dead process's share that comes back.

`PROJECT.json` lists each at its line, with the property that covers it.

## 2. Modules

| module | models | state and actions |
|---|---|---|
| `OrderStates` | `states.py` | no state: `Transitions`, `CanTransition`, `IsExposed`, `HaltsStrategy` |
| `RiskGate` | `risk/gate.py`, `config.py` | no state: `Allowed` is `RiskGate.evaluate` over an exposure record; the limits are constants under their validators' conditions |
| `TradingHalt` | `risk/halt.py` | `halt`, the cause in force; `Trip` keeps the first cause |
| `Execution` | the executor, store, journal, loop, operator and reconciliation, over an external venue | `row` (the session's rows), `durable` (as last committed), `run` (the coroutine of each intent), `order` and `held` (the venue), `report` (what a check concluded from the positions it read, until it is applied), `standing` (the registry's answer), `halt`; one action per handler, from await to await |
| `BasketLifecycle` | nothing: the abstract specification of the execution path | `phase`, `capital`, `position` |
| `VenueBudget` | `venues/budget.py`, `cli._venue_budget` | the committed `table` of leases with their `age`, each consumer's transaction (`pc`, `doomed`) and lease; a claim is three steps under READ COMMITTED. What a command leases (`Claim`) and what its client is built to send (`Sends`) are two constants |
| `VenueClient` | `venues/http.py` | each call's place in its ladder, the limiter's lock (`line`) and next slot (`gap`), the breaker's fields |
| `BookStream` | `marketdata/` | the subscription's messages, `last` and `recent` of the tracker, the book; one action per branch of `_apply` |
| `Collection` | `collection/`, and the gates of `detector/live.py` | each `MarketCollector`, the `archive` and how much of it is committed, the cycle; one action per outcome of a poll |
| `Registry` | `registry/service.py`, `registry/proposal.py`, `cli._relationships`, and what `detector/live.py` marks tradeable | `versions`, each slug's records; `offered`, what the venue lists now; the `pass` and the `review` under way, each with what it has read; `tradeable` |
| `Ledger` | `ledger/`, the roundings it uses | `balances`, `position`, `capitalDays`, `committedSince`; one action per transaction; `wallet`, `paidIn` and `integral` keep what really happened |
| `Economics` | `economics/`, `fees/`, `money.py`, `detector/`, the survey's pricing, the steps of `shadow/` | no state: operators over a book `[complete, yes, no]`, each side a function from price to quantity |
| `Discovery` | `venues/kalshi/discovery.py` | no state: `ClassifyEvent`, `CheckIntegerCoverage` |
| `Pricing` | a candidate from listing to shadow execution, composing `Discovery`, `Economics` and `registry/proposal.py`'s payout proof | the `event`, the registered `legs` and `table`, the `request`, the `evaluation`, the `fills`; one action per call |
| `Research` | `analysis/baskets.py`, `maker.py`, `falsification.py`, `collection/coverage.py` | no state: each analysis a fold over the archive's rows |
| `Archive` | the rows `collection/` leaves, composed with `Research` | `answers`, everything a poller was answered, stored or not, pending, kept or lost, of which `Rows` are the stored and kept; `polls` and `samples` as committed; the `cycle` of each poller and what it remembers (`lastBook`). The collector and the probe write to the same tables |
| `Totals` | nothing: a sum that the provers can reason about | |
| `ExecutionProofs`, `CollectionProofs`, `VenueProofs`, `RegistryProofs`, `LedgerProofs`, `PricingProofs`, `ArchiveProofs`, `TotalsProofs` | the theorems | |
| `MC*` | the instances TLC checks | |

`Execution` composes `OrderStates`, `RiskGate` and `TradingHalt`. Data are abstracted to
what the properties tell apart: a basket has one limit price for all its legs, a payload is
one of a few model values, a status code is one of three outcomes; a relationship's leg
tickers and terms hashes are one value, its payout proof another. Money is a whole number of
ticks, `Cent` of them to a cent, so that rounding is arithmetic. Times are ticks. History
variables (`mirror`, `numbering`, `confused`, `raced`, `heard`, `beside`, `fetched`, `age`,
`sinceSent`, `probed`, `faults`, `wallet`, `paidIn`, `integral`, and a record's `signed` and
`late`) record what a property needs and no guard of the code's own reads them, save where
one counts a bound.

External, modelled by how the code uses them: the venue's orders and positions, its book
channel, its listings and settlement rules, PostgreSQL's isolation and row locks, the clock,
the death of a process.

## 3. What TLC checks

| run | instance | shows |
|---|---|---|
| `execution` | two baskets of two legs, two contracts a leg, prices 1 and 2, caps that admit two cheap baskets or one dear one; no faults | the caps, the records match the venue, every order is recorded, an unwind covers every leg, a lost answer stops everyone's submission; and that it implements `BasketLifecycle`, with checks whose positions were read before they are applied |
| `execution_faults` | one basket of two legs, two crashes or aborts, commits anywhere; with fairness | after a crash back to any earlier commit, FILLED still means held and a lost answer stops its intent; no key recorded twice; submissions end, parked baskets are answered |
| `venue_budget` | the three commands that lease, at their real shares and ceiling; one crash, TTL of one tick; with fairness | leases granted one after another fit under the ceiling, a live share is never taken, a dead one returns |
| `venue_client` | two coroutines, two attempts each, cooldowns 2 and 4; with fairness | spacing, breaker flags against the failures counted, doubling cooldowns, the circuit closes, calls end |
| `book_stream` | one level of up to two contracts, two subscriptions of four messages, a window of two | a complete book is the venue's of its number, and has taken every delta it was told of since its snapshot |
| `registry` | one relationship of up to three versions; three sets of terms, two of them read the same and one worded two ways; passes and reviews that overlap | what was signed is not rewritten, terms are not drafted twice running, a superseded version is suspended unless it was approved late |
| `collection` | two markets, two books, three numbers a stream, one crash | replay rebuilds the live book, numbers increase, only fetched books are accepted |
| `ledger` | two tickers, sums of 0, 1 and 4 half-cents, six transactions, two ticks (72,408 states) | what the account is worth is what was paid in plus the profit it reports; the books never show more money than there is; capital-days are the committed capital tick by tick |
| `pricing` | every event of two tails and one or two buckets with strikes in 0 .. 2, given or missing, every one with strikes at a half, and others; five books, four tickers, three quantities; an implication (518,671 states) | a qualifying edge is the true one, computed over every way to fill the order, but for rounding, and agrees with the survey; no settlement value loses that is not between two buckets; being late never helps |
| `archive` | one event of two legs, the collector polling both and the probe one, three cycles of the two in up to three ticks, each poll failed, unchanged or stored, one restart (512,688 states) | a basket is priced at what a poller saw, and whatever a poller saw since is that or a book it had stored before; recently enough; an episode is a run; the funnel accepts only what the scan priced; a resting order fills only if a poller saw the market cross it, and whenever one did that had not seen it there already; coverage is the longest stretch without a hole |

Two more runs each show the code doing other than a comment, a doc or a test says:

| run | the text | the code |
|---|---|---|
| `incident_halts` | `risk/gate.py:21`: a halting state, INCIDENT among them, stops everything | the store's snapshot leaves INCIDENT rows out, so the gate never sees one |
| `stale_approval` | `registry/service.py:21`: changed terms suspend a relationship at every evaluation | nothing calls `check_usable`; only a proposal pass, run by hand, suspends |

Ten further configurations, kept beside the runs, each give the trace of another one
(`tlc -config UnwindEnds.cfg MCExecution`, and so on):

| configuration | the text | the code |
|---|---|---|
| `UnwindEnds` (`MCExecution`) | `execution/reconcile.py:26`: FAILED means without a position | an unwind ends FAILED whatever its sales filled |
| `WriteAhead` (`MCExecution`) | `execution/store.py:13`: the intent is committed before the first order | nothing between the gates and the last answer commits |
| `StaleLegs` (`MCCollection`) | `detector/live.py:25`: a leg's age is the time since its confirmation | every leg is stamped with the end of the cycle |
| `RoundedEdge` (`MCPricing`) | `detector/basket.py:17`: the reported edge is a lower bound on the true edge | a leg's fee is taken at the average of a cost already rounded up; above fifty cents a higher price has a lower fee. `EdgeIsWithinRounding` bounds by how much |
| `CoverageGate` (`MCArchive`) | `collection/coverage.py:166`: the gate cannot be met by an empty archive | a failed poll gives a health sample too, so a collector that stored nothing meets it |
| `RejectedPrice` (`MCBookStream`) | `marketdata/book.py:73`: a book is not complete after any integrity failure | a delta whose price is impossible is rejected after the tracker took its number, and the book stays complete |
| `LeaseRace` (`MCVenueBudget`) | `venues/budget.py:15`: a lease is refused if the live total would exceed the ceiling | two claims in their transactions at once do not see each other, and both find room |
| `Overspend` (`MCVenueBudget`) | `venues/budget.py:1`: one budget, shared across every process that spends it | the collector leases 4 requests a second (`cli.py:191`) and its client sends 8 (`cli.py:154`, `venues/http.py:39`); `relationships propose` (`cli.py:564`) leases nothing; and a lease nobody refreshes is given away after its time |
| `FractionalStrikes` (`MCPricing`) | `venues/kalshi/discovery.py:201`: the check verifies that no integer is left unresolved | strikes are decimals, and buckets at the halves that meet leave one out |
| `TwoPollers` (`MCArchive`) | `cli.py:316`: the probe archives under a channel of its own, so the collector is unaffected; `analysis/baskets.py:429`: a leg's age is measured from when the poller last saw it | both store in the same tables, each against its own last book, and the scans filter no channel: a book the probe stored is confirmed by the collector's unchanged polls of another |

More disagreements the models have, without a configuration of their own. `approve()` passes
`relationship_approved=True` (`execution/operator.py:204`) though the gates are said not to
trust the caller (`execution/executor.py:16`). A new subscription that numbers its messages
like the old one gives a complete book that is not the venue's, though
`tests/test_reconstruct.py:4` says a restarted numbering never does: `Faithful` excepts it
by `confused`. A snapshot that comes late moves a complete book and its tracker back to its
own number (`marketdata/reconstruct.py:115`), so that what `NothingHeardIsMissing` says is
about the deltas since it. A group approval signs superseded drafts of its fingerprint too,
which no pass suspends afterwards, though `cli.py:672` promises it of each:
`SupersededIsSuspended` excepts them by `late`. A poll cycle credits every market it
confirmed with the time it was completed, so one polled early in it looks fresher than it
is, by up to the cycle's length, though `collection/service.py:285` says the stamp errs the
other way: `QuoteIsWhatWasSeen` asks for an answer within the cycle, not within the age. An
episode is called a continuous stretch (`analysis/baskets.py:195`), but an instant with a
stale leg or one that offers nothing is not priced and does not end it: `EpisodesAreRuns` is
about the instants priced. A row whose book is unusable is skipped by the basket scan while
the polls after it, which find the market unchanged, confirm the quote before it
(`analysis/baskets.py:410`): that quote is what the property speaks of.

### Bounds

Every bound is a constant: `MaxFaults`, `MaxCrashes`, `MaxQuantity`, `MaxSequence`,
`MaxNumber`, `MaxNow`, `MaxCycle`, `MaxPolls`, `MaxRestarts`, `MaxVersions`, the sets of
intents, leases, callers, markets, payloads, offers, amounts and strikes. They are chosen so
that the case a property is about does occur:

- two baskets and two legs give every interleaving of two acquisitions, a first and a last
  leg to fall short, and a cap that the second basket breaches; two contracts give full,
  partial and empty fills. Two faults give a submission lost, made again and lost again.
- three leases let two consumers' claims meet while a third lease is stale or comes after.
- a duplicate window shorter than a subscription lets repeats fall out of it; a second
  subscription lets numbers collide. One level is enough: levels do not influence each
  other, which the proof, made for any set of levels, confirms.
- one slug is enough: records of different slugs meet only in a group approval, which one
  slug has too, across its versions; three versions let one be superseded twice. The proof
  is for any number of both.
- sums of one and four half-cents round up, and not, at every posting; the ledger's proof is
  for any amounts and any cent.
- walks of up to three contracts stop inside a level, cross one and run out; strikes in 0 ..
  2 or at the halves between, settled at the wholes and halves in -1 .. 3, meet, overlap,
  leave a value out and are missing; the proof of `CoveredLeavesNoInteger` is for any number
  of buckets whose caps are whole.
- an archive of three cycles lets an episode open, end and open again, and one poller store
  between two polls of the other; the collector polls every three ticks and the probe every
  tick, so that their cycles overlap and follow each other; a cycle of one tick lets legs be
  confirmed at different moments; a restart between cycles leaves a hole longer than the
  threshold. Time is counted from the first cycle: what came before leaves no row. The
  analyses are read as each cycle ends, whatever else is under way.
- three numbers a stream let one be committed, one lost in a crash and used again. A poll
  that would exceed `MaxSequence` is not taken; unchanged and failed polls always are, so no
  run stops at the bound.

Each property was also run against a mutant of the code it depends on, a plausible slip
(a dropped guard, a swapped order, an early reset), and is violated there. `CHECK_DEADLOCK
FALSE` appears where the system may rightly stop: an execution whose baskets have all
ended with its faults used up, and a budget with no lease id left.

### Fairness

- `Execution`: an acquisition whose gateway call has returned is resumed, and a gateway
  call returns, if only as UNKNOWN (asyncio's scheduling and the gateway's contract); the
  loop keeps cycling; time passes. Nothing is assumed of the operator, the venue's late
  decisions or reconciliation.
- `VenueClient`: runnable coroutines run and a request ends, by its timeout at the latest;
  time passes; somebody keeps calling (the collector's loop does). The venue need not come
  back: `CircuitCloses` asks it only under that hypothesis.
- `VenueBudget`: statements of an open transaction return, and time passes. Time is
  strongly fair because a tick waits for transactions that are about to outlive the TTL,
  an artefact of the model that many short transactions could otherwise exploit. Nothing
  is assumed of heartbeats, which nothing sends.

## 4. What TLAPS proves

For every value of the constants, from the named assumptions of each module only.

**Execution** (`ExecutionProofs`). `TypeCorrect`: `TypeOK`. `Invariance`: the inductive
invariant `IInv`, from which follow `FilledBasketsAreHeld` (`FilledIsHeld`),
`LostAnswersStopTheIntent`, and the action properties `UnknownStopsSubmission`
and `EndedIsFinal`.

`FilledIsHeld` is not inductive. A row becomes FILLED when the coroutine's last leg fills in
full, or when reconciliation finds every leg held; so the invariant must know that the
earlier legs of a coroutine are in full (`RunInv`), and that nothing takes a leg away again.
The venue does take legs away, when one is sold, so `VenueInv` ties every sale to a leg that
fell short for good (`Short`), which no full basket has. `FilledInv` says it of the
committed rows too, because a crash falls back to them, and of a check that found every leg
held and was not applied yet: the legs it read stay in full meanwhile; and `UncertainInv` is
what the coroutine and the rows agree on. Each action is reduced to what it may do to the
venue (`VenueSteps`: place, offer, buy, sell, crash) or to a row, and the invariant is shown
for those.

**The caps** (`ExecutionProofs`, with sums from `TotalsProofs`). `CapsHold`: `WithinCaps`,
with `CapsInv` (the caps hold of the session's rows and of the committed ones). Totals are
cardinalities of disjoint unions of `{i} \X (1 .. n)`, so that a sum over any finite set of
intents can be bounded without induction: `TotalMonotone` and `TotalAdds` are the two facts
used. Every step lets at most one row grow, from nothing to its notional, and that step
passed the gate in the same atomic step. It needs `SameLegs`: `approve()` given legs at
another price than the row's counts them at the row's.

**The records** (`ExecutionProofs`). `KeysAreUsedOnce` (`NeverRecordedTwice`) and
`UnwindsAreComplete` (`UnwindCoversEveryLeg`) follow from `WorkInv` (`RecordsAreSound`): the
legs a coroutine has still to buy or sell are blank on its row, those behind it are not, and
a row nothing works on is sound. `VenueIsOnRecord` (`RecordsMatchVenue`) and
`NoOrderUnrecorded` (`OrdersAreRecorded`) follow from `MatchInv` (`RecordsKeepPace`): while
`faults = 0`, every leg's position is what its row records, except for the one order the
coroutine awaits, and a sale never exceeds what is held. A crash breaks that by nature: the
venue keeps what the rows forget.

**The refinement** (`ExecutionProofs`). `LifecycleIsKept`: `Spec` without faults implements
`BasketLifecycle` (`KeepsLifecycle`), from the invariants above. Each action is shown to be
one abstract step, or to move nothing the abstract specification sees. The admission of a
basket rests on the gate (`UnknownRefuses`, `CommittedTotal`: nothing is lost and the
capital fits), its holding on `FilledIsHeld`, and a move of the venue on `MatchInv`, which
keeps a position within what was ordered. It is conditional on `SameLegs`, since otherwise
the capital counted for an approval is not that of the legs sent, and on `~SharedTickers`,
since reconciliation reads positions per ticker and could call a basket held on another's
contracts.

**Books** (`CollectionProofs`). `BooksTypeCorrect`, `CompleteIsFaithful` (`Faithful`) and
`NothingIsMissed` (`NothingHeardIsMissing`), for any set of levels, window and stream. The
invariant adds that consecutive messages of a subscription fit (`Coherent`) and that,
while the tracker's number is of the present subscription, the book is where its number
says (`Placed`): a delta that is accepted is then the successor in that subscription, or
one that passed for it, which is what `confused` records. A delta that is discarded is one
the tracker remembers, hence no later than its number (`RecentIsPast`), and that number is
the book's own or that of the delta rejected for its price (`AheadIsImpossible`).

**Ledger** (`LedgerProofs`, `TotalsProofs`). `BooksAreSound`: the inductive invariant, from
which `ProfitMeasured`, `NothingInvented` and `CapitalDaysMeasured` follow for the three
properties of its run. To be inductive they need one more fact, `ClockStarted`: before
the first transaction nothing is committed, so the tick that starts the clock owes nothing.
Every operation that writes goes through `Post`, of which each fact is proved once; rounding
enters only by `amount <= QuantizeCost(amount)`. Totals are those of the caps: an update of
one position moves the total by the difference (`TotalsProofs`).

**Venue budget** (`VenueProofs`). `GrantedLeasesFit` (`LeasesFit`) and `LiveSharesStay`
(`LiveShareStays`), from `Inv`, for any consumers, claims and time to live. Leases are held
one to one (`Handed`), what is in the table or about to leave it was given out (`GivenOut`),
and a claim is young and not in the table until it commits (`Claiming`). Two claims in their
transactions at once have met (`Met`), which `beside` keeps for good; so who has found room
has it still beside the leases it did not meet (`Room`), because between its count and its
commit only claims it met can commit. Committing a claim therefore keeps every set of leases
of which no two met under the ceiling. A row found stale is left out of the count and is
deleted by the same transaction, which holds it locked. Sums are compared by `TotalInjects`:
a sum over an injection is at most the sum over its target. The theorem is of leases, not of
requests.

**Collection** (`CollectionProofs`). `TypeCorrect`, `NumbersAlwaysIncrease`
(`NumbersIncrease`) and `OnlyFetchedAccepted` (`AcceptedOnFetched`), from `Inv`, for any
markets, payloads and rotation. The rows of a stream ascend with the clock and the i-th has
a number of at least i (`Rows`), so that there are never more rows than numbers; a collector
that has resumed is not behind its stream, and resuming takes the highest number, which
exists because `<` on the naturals is well-founded. A complete book is the last payload
stored (`Known`), a market confirmed in the cycle was polled in it with that payload, and
each is polled once a cycle: so what is priced is what was fetched. `ReplayIsFaithful`
(`ReplayRebuilds`): replaying a market's rows, committed or not, gives the complete book its
collector prices, because every row stands alone and the last one is the payload stored
last.

**Pricing** (`PricingProofs`, sums from `TotalsProofs`). `CoveredLeavesNoInteger`: two tails
and any finite number of buckets whose caps are whole numbers, in which the lowest bucket
meets the lower tail, each bucket meets the next and the highest meets the upper tail, leave
no integer on which none of them resolves YES. The argument takes the least uncovered
distance above the lower tail: for decimal strikes it leaves only values between a bucket's
cap and the next one's floor (`CoveredLeavesGapsOnly`), and between whole numbers a unit
apart there is no other (`NothingBetweenWholes`). `Invariance` is the inductive
`PricingInv`, which types what is listed, built, surveyed and shadowed; on it rest three of
the run's properties.

- `NoSettlementLoses` (`NoStateLoses`): a basket taken at full size pays its least in every
  settlement the relationship allows that is not between two buckets, by the coverage
  argument for exhaustive baskets and by the order of the strikes for implications. Strikes
  are any decimals: `One` is the number of units in the number 1.
- `LatenessNeverPays` (`ShadowMakesItWorse`): the walk over the later book and the walk over
  the earlier one are run side by side, and at every level the later has the dearer cost or
  is ahead of what is left to fill (`DearerOrAhead`).
- `ReportedEdgeIsTrue` (`EdgeIsWithinRounding`): the reported edge is that of the cheapest
  way of filling, to within the rounding of each leg. `WalkIsCheapest` is an exchange
  argument: a walk takes every offer below some price and none above it, so no other way of
  taking as many contracts costs less, and `LeastCostIs` ties that to the minimum over all
  ways. `LegRounding` bounds one leg: the cost goes up by less than a cent, and the fee at
  the rounded cost is at most a cent lower, and only where the cost was rounded up.
  `SumLinear` and `SumApart` add the legs; `TotalListed` and `TakerIs` bring the survey's
  folds to those sums.

They assume `PricingConstants`: tickers of an event's markets are distinct
(`uq_market_venue_ticker` in `db/models.py`), and there are values to settle at.

**Archive** (`ArchiveProofs`). `HistoryHolds`: the inductive invariant `HistoryInv`, for any
number of pollers that store in the same tables. `Tells` says that every answer that was not
stored has one before it of the same poller and market that was, with no other book seen by
that poller between (`IsFound`), and that neither is lost without the other: what an
unchanged poll rests on was committed before it or goes with it. `Remembers` says that a
poller's last book is in such an answer, of which it has seen nothing else since (`Holds`),
`SawIn` and `SeesIn` that what a cycle confirms was answered while it lasted. A restart,
which loses the answers pending and what the poller remembers, keeps all of it. `Rows` lists
the stored and committed answers in order: the n-th is the one with n of them up to it,
which is shown by counting. The analyses are folds over the rows. What a fold keeps is shown
along the run of its values (`FoldsToExists`, `ReadingKeeps`), by the least place where it
could fail.

- `PricedAsSeen` (`QuoteIsWhatWasSeen`): after each row the scan's quotes are those of the
  last usable rows (`LatestIs`). A later answer that is no row was stored by its poller
  earlier: if before that row, it is the property's exception, and otherwise it is in a
  later row.
- `FillsAreSeen` (`FillsAreCrossings`): a row is an answer, so a fill is a crossing; and an
  answer at or below the price has an answer of its poller that was stored, which is a row
  after the order unless the poller had seen the offer stand already.
- `EpisodesAreTheRuns` (`EpisodesAreRuns`): every episode has a span of its own
  (`SpansAre`), whose ends a dear pricing separates from the rest of the event's pricings
  (`Fenced`); which episode may still grow, and that all others of the event are broken off,
  is `OpenIs`.
- `FunnelAgrees` (`FunnelWithinScan`): both folds are read as functions of the rows. The
  scan has a row wherever every leg of an event showed an offer that is fresh
  (`PriceableIsPriced`, `ScanTellsHolds`); what the funnel accepts was evaluated on the
  legs' last books, each recent enough (`FunnelIs`). An accepted basket pays at most a
  dollar a contract, and its costs only round up and its fees are not negative, so its best
  offers come to less than a dollar (`AcceptedBasket`).
- `GapsSplitCoverage` (`GapsSplitTheRun`): a stretch between two samples without a gap lies
  between the ends of one the assessment measures.

They assume `ArchiveConstants`: payloads are books with bids below a dollar, and a poller
polls a market once a cycle.

**Venue client** (`VenueProofs`). `BreakerNeverDisagrees` (`BreakerAgrees`),
`ProbesAlwaysBackOff` (`ProbesBackOff`), `RequestsStaySpaced` (`Spaced`) and
`ClientTypeCorrect`, for any number of callers, rate, attempts and cooldown. The breaker's
fields are written by three operations that may come in any order from several calls; the
invariant says of each state which of the count, the time of opening and the probe may be
set. Two requests are an interval apart because the one at the head of the line waits out
what is left of the interval since the last request, and everyone behind it still has a
whole interval to wait when its turn comes (`GapInv`).

**Registry** (`RegistryProofs`). `TypeCorrect`, and `SignedCasesStay`, `DraftsAreDifferent`
and `SupersededAreSuspended` for the three properties of its run, from one inductive
invariant, `Inv`. A session commits what it decided on records it read earlier, so the
invariant must know what it read is still so: the place and terms of the latest version
always (`PassReads`: nothing but a pass adds a version), statuses and cases only while a
pass and a review have never overlapped (`ReviewReads`). `StatusTells` ties statuses to
signatures: what a pass restates is pending, hence unsigned.

Only model-checked: liveness (`SubmissionEnds`, `ParkedIsAnswered`, `DeadShareReturns`,
`CircuitCloses`, `CallEnds`) and whatever rests on `ENABLED`, which are beyond the proof
system here. Every other property of a passing run is a theorem.

Induction schemes that take a predicate cannot be instantiated, so the proofs use sets in
their place (`NaturalsFrom`, `SubsetsFrom`), and `FoldExists` gives the library's folds the
function their definitions choose. tlapm reads `SUBSET S \ {{}}` as `SUBSET (S \ {{}})`,
where TLC reads the difference last; the modules parenthesise. Where a module's `TypeOK` is
proved (`Execution`, `BookStream`, `Registry`, `Ledger`, `VenueBudget`, `VenueClient`,
`Collection`), no run repeats it.

## 5. Not modelled

- Field-by-field parsing of venue payloads, and request signing: a payload is what it
  decodes to. The money types' parsing and formatting likewise.
- Cross-venue text matching (`registry/crossvenue.py`), and
  `analysis/crossvenue_pricing.py`, which only tests call.
- Of the analyses: the survey's paging, ranking and sampling, and every report's layout. Of
  the collection: the thresholds of a health report, and coverage stream by stream.
- `venues/kalshi/universe.py:98` truncates the markets it was given to a maximum, in the
  middle of an event if it falls there. `Collection` lets any set of markets be collected,
  and a relationship with a leg that is not collected is never priced, so the cut shows
  nowhere else.
- What the processes really send: `VenueBudget` is about leases, and `Overspend.cfg` shows
  how far what the clients are built to send is from them. The code keeps no bound on it
  that a property could state.
- Positions that cannot be read: the check concludes nothing, the row stays RECONCILING, and
  nothing moves.
- Cancelling orders, since the code does not.
- The read-only api, cli output and the operator's rendering hold no state.

## 6. Plan

Done: the execution path with its abstract specification, the venue budget, the venue
client, books, collection, registry, the ledger, pricing from listing to shadow execution,
the archive with its analyses and coverage, and the theorems above. Next, in order:

1. Coverage stream by stream, and the health report's thresholds, in `Research`.
