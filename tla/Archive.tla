------------------------------ MODULE Archive ------------------------------
(***************************************************************************)
(* The archive as the processes that collect grow it (collection/          *)
(* service.py, collector.py, health.py) and as the analyses read it back   *)
(* (Research).  The collector of `collect' and the probe of `probe' are    *)
(* processes of their own that write to the same tables, and what the      *)
(* analyses read is filtered by no channel.  A cycle polls its markets one *)
(* after the other while time passes; a book is stored only when it has    *)
(* changed since this poller stored one, so that everything the analyses   *)
(* say about freshness rests on the poll each cycle leaves, and everything *)
(* about continuity on the health samples.  The rows of a cycle, its poll  *)
(* and its samples are committed together; whoever reads in between reads  *)
(* what the cycles committed have left.                                    *)
(***************************************************************************)
EXTENDS Research

CONSTANTS
  Poller,          (* the processes that collect                            *)
  Route,           (* the markets each polls, in its order                  *)
  LegOrder,        (* the markets in sorted order                           *)
  Payloads,        (* what the venue may answer, market by market           *)
  Interval,        (* between the starts of two cycles of a poller          *)
  HealthInterval,
  MaxLegAge, Horizon, Window, Quantity, Draws,  (* of the analyses          *)
  GapThreshold, GateDuration,
  MaxNow,          (* bound on time                                         *)
  MaxCycle,        (* bound on the ticks a cycle takes                      *)
  MaxPolls,        (* bound on cycles, a restart counted as one             *)
  MaxRestarts      (* bound on restarts                                     *)

VARIABLES
  now,
  answers,     (* what the pollers were answered, stored or not             *)
  polls,       (* the poll cycles committed                                 *)
  samples,     (* the health samples                                        *)
  cycle,       (* the cycle of each poller                                  *)
  lastBook,    (* what each of its collectors stored last                   *)
  lastSample,  (* when they were sampled last                               *)
  restarts

archiveVars == <<now, answers, polls, samples, cycle, lastBook, lastSample, restarts>>

Ticker == ToSet(LegOrder)

(* A poller polls a market once a cycle.  (The rest are durations, and      *)
(* books.)                                                                  *)
ASSUME ArchiveConstants ==
  /\ LegOrder \in Seq(DOMAIN EventOf) /\ IsInjective(LegOrder)
  /\ Route \in [Poller -> Seq(Ticker)] /\ \A p \in Poller : IsInjective(Route[p])
  /\ \A t \in Ticker : \A book \in Payloads[t] :
       book.complete \in BOOLEAN /\ IsBids(book.yes) /\ IsBids(book.no)
  /\ Interval \in [Poller -> Nat]
  /\ {HealthInterval, MaxLegAge, Horizon, Window, Quantity, GapThreshold} \subseteq Nat
Never == -1
None == "none"

(* No cycle under way: `next' is past the last market. *)
Over(p, started) ==
  [started |-> started, next |-> Len(Route[p]) + 1, confirmed |-> {}, running |-> FALSE]

ArchiveInit ==
  /\ now = 0
  /\ answers = <<>> /\ polls = <<>> /\ samples = <<>>
  /\ cycle = [p \in Poller |-> Over(p, Never)]
  /\ lastBook = [p \in Poller |-> [t \in Ticker |-> <<>>]]
  /\ lastSample = [p \in Poller |-> Never]
  /\ restarts = 0

BeginCycle(p) ==
  /\ ~ cycle[p].running
  /\ Len(polls) + Cardinality({q \in Poller : cycle[q].running}) + restarts < MaxPolls
  /\ cycle[p].started = Never \/ now - cycle[p].started >= Interval[p]
  /\ cycle' = [cycle EXCEPT ![p] = [Over(p, now) EXCEPT !.next = 1, !.running = TRUE]]
  /\ UNCHANGED <<now, answers, polls, samples, lastBook, lastSample, restarts>>

(* The markets are polled one by one. *)
Polls(p, ticker) ==
  /\ cycle[p].running
  /\ cycle[p].next <= Len(Route[p])
  /\ ticker = Route[p][cycle[p].next]
  /\ UNCHANGED <<now, polls, samples, lastSample, restarts>>

(* An answer is written in the transaction of its cycle, and is pending     *)
(* until that is committed.                                                 *)
Answered(p, ticker, book, stored) ==
  /\ cycle' = [cycle EXCEPT ![p].next = @ + 1, ![p].confirmed = @ \cup {ticker}]
  /\ answers' = Append(answers, [poller |-> p, ticker |-> ticker, at |-> now, book |-> book,
                                 stored |-> stored, status |-> "pending"])

(* There is no answer, or one that cannot be decoded: that is not stored    *)
(* either, and what was stored last remains the book to compare with.       *)
PollFails(p, ticker) ==
  /\ Polls(p, ticker)
  /\ cycle' = [cycle EXCEPT ![p].next = @ + 1]
  /\ UNCHANGED <<answers, lastBook>>

(* Nothing is stored: this poller knows the book to be the one it stored    *)
(* last, whatever another has stored since.                                 *)
PollUnchanged(p, ticker) ==
  /\ Polls(p, ticker)
  /\ lastBook[p][ticker] # <<>>
  /\ Answered(p, ticker, lastBook[p][ticker][1], FALSE)
  /\ UNCHANGED lastBook

PollStores(p, ticker, book) ==
  /\ Polls(p, ticker)
  /\ lastBook[p][ticker] # <<book>>
  /\ lastBook' = [lastBook EXCEPT ![p][ticker] = <<book>>]
  /\ Answered(p, ticker, book, TRUE)

(* The transaction of a cycle ends, one way or the other. *)
Ended(p, status) ==
  [i \in DOMAIN answers |->
     IF answers[i].poller = p /\ answers[i].status = "pending"
     THEN [answers[i] EXCEPT !.status = status] ELSE answers[i]]

(* Every collector gives a sample when it is time to, whether or not its    *)
(* poll was answered.                                                       *)
HealthSamples(p) ==
  IF lastSample[p] # Never /\ cycle[p].started - lastSample[p] < HealthInterval THEN <<>>
  ELSE [i \in DOMAIN Route[p] |-> [stream |-> <<p, Route[p][i]>>, observed |-> now]]

EndCycle(p) ==
  /\ cycle[p].running
  /\ cycle[p].next > Len(Route[p])
  /\ answers' = Ended(p, "kept")
  /\ polls' = Append(polls, [started |-> cycle[p].started, completed |-> now,
                             confirmed |-> cycle[p].confirmed])
  /\ samples' = samples \o HealthSamples(p)
  /\ lastSample' = [lastSample EXCEPT ![p] = IF HealthSamples(p) = <<>> THEN @ ELSE now]
  /\ cycle' = [cycle EXCEPT ![p] = Over(p, cycle[p].started)]
  /\ UNCHANGED <<now, lastBook, restarts>>

(* A process dies: what it had not committed is lost, and with it what its  *)
(* collectors knew.  (Before the first commit this is a late start, after   *)
(* the last one it changes nothing.)                                        *)
Restart(p) ==
  /\ restarts < MaxRestarts
  /\ polls # <<>> /\ Len(polls) + restarts < MaxPolls
  /\ restarts' = restarts + 1
  /\ answers' = Ended(p, "lost")
  /\ cycle' = [cycle EXCEPT ![p] = Over(p, Never)]
  /\ lastBook' = [lastBook EXCEPT ![p] = [t \in Ticker |-> <<>>]]
  /\ lastSample' = [lastSample EXCEPT ![p] = Never]
  /\ UNCHANGED <<now, polls, samples>>

(* Time passes between cycles, and in a cycle while an answer is awaited; it *)
(* is counted from the first cycle.                                         *)
Tick ==
  /\ now < MaxNow
  /\ polls # <<>> \/ \E p \in Poller : cycle[p].running
  /\ \A p \in Poller : cycle[p].running =>
       cycle[p].next <= Len(Route[p]) /\ now - cycle[p].started < MaxCycle
  /\ now' = now + 1
  /\ UNCHANGED <<answers, polls, samples, cycle, lastBook, lastSample, restarts>>

ArchiveNext ==
  \/ \E p \in Poller : BeginCycle(p)
  \/ \E p \in Poller, t \in Ticker : PollFails(p, t)
  \/ \E p \in Poller, t \in Ticker : PollUnchanged(p, t)
  \/ \E p \in Poller, t \in Ticker : \E book \in Payloads[t] : PollStores(p, t, book)
  \/ \E p \in Poller : EndCycle(p)
  \/ \E p \in Poller : Restart(p)
  \/ Tick

ArchiveSpec == ArchiveInit /\ [][ArchiveNext]_archiveVars

-----------------------------------------------------------------------------
(* The tables: of what was answered, what was stored and committed is there *)
(* to be read, in the order of its time.                                    *)

Kept(i) == answers[i].status = "kept"
Stored == {i \in DOMAIN answers : answers[i].stored /\ Kept(i)}
Place(i) == Cardinality({j \in Stored : j <= i})
RowOf(answer) == [ticker |-> answer.ticker, captured |-> answer.at, book |-> answer.book]

Rows == [n \in 1 .. Cardinality(Stored) |->
           RowOf(answers[CHOOSE i \in Stored : Place(i) = n])]

-----------------------------------------------------------------------------
(* What the analyses say of the archive, against what was seen.            *)

Usable(o) == o.book.complete
Offers(o) == o.book.complete /\ DOMAIN o.book.no # {}
SeenOf(t) == {i \in DOMAIN answers : Kept(i) /\ answers[i].ticker = t}
SameStream(i, j) ==
  answers[i].poller = answers[j].poller /\ answers[i].ticker = answers[j].ticker

(* From the one answer to the other, the poller of the first saw nothing    *)
(* else of its market.                                                      *)
NothingElse(i, k) ==
  \A m \in i .. k : SameStream(m, i) => answers[m].book = answers[i].book

(* The poller of k stored what it saw before i, and has seen nothing else   *)
(* since.                                                                   *)
StoredBefore(k, i) ==
  \E j \in SeenOf(answers[k].ticker) :
    /\ j < i /\ answers[j].stored
    /\ SameStream(j, k) /\ NothingElse(j, k) /\ answers[j].book = answers[k].book

(* What is said is said of what is committed: it is read as a cycle ends,   *)
(* others may be under way.                                                 *)
Read == /\ polls # <<>> /\ Last(polls).completed = now
        /\ \E p \in Poller : ~ cycle[p].running /\ cycle[p].started # Never

(* A basket is priced at what its legs were seen to offer, though only      *)
(* changes are stored: each leg's price was in an answer before the moment, *)
(* and whatever a poller saw after it and before the moment is the same     *)
(* book, or one which that poller had stored before it and saw all along.   *)
(* The market was answered within the age allowed, or within a cycle whose  *)
(* end is, whatever cycles failed or were lost.                             *)
QuoteIsWhatWasSeen ==
  Read => \A p \in ToSet(BasketScan(Rows, polls, MaxLegAge).priced) :
    \A t \in DOMAIN p.ask :
      /\ \E i \in SeenOf(t) :
           /\ answers[i].at <= p.at
           /\ Offers(answers[i]) /\ BestYesAsk(answers[i].book).ask = p.ask[t]
           /\ \A k \in SeenOf(t) :
                i < k /\ answers[k].at < p.at /\ Usable(answers[k]) =>
                  answers[k].book = answers[i].book \/ StoredBefore(k, i)
      /\ \E i \in SeenOf(t) :
           \/ answers[i].at <= p.at /\ p.at - answers[i].at <= MaxLegAge
           \/ \E j \in DOMAIN polls :
                /\ polls[j].started <= answers[i].at /\ answers[i].at <= polls[j].completed
                /\ polls[j].completed <= p.at /\ p.at - polls[j].completed <= MaxLegAge

(* A basket is priced at what any poller saw last (what the stamp of a poll *)
(* is taken to say): the last usable answer before the moment offered it.   *)
QuoteIsLatest ==
  Read => \A p \in ToSet(BasketScan(Rows, polls, MaxLegAge).priced) :
    \A t \in DOMAIN p.ask :
      \E i \in SeenOf(t) :
        /\ answers[i].at <= p.at
        /\ Offers(answers[i]) /\ BestYesAsk(answers[i].book).ask = p.ask[t]
        /\ ~ \E k \in SeenOf(t) : /\ i < k /\ answers[k].at < p.at
                                  /\ Usable(answers[k]) /\ answers[k].book # answers[i].book

(* An event's pricings, all below a dollar, from one to another; a run is   *)
(* such a stretch that no longer one contains.                              *)
Stretches(priced) ==
  {r \in (DOMAIN priced) \X (DOMAIN priced) :
     /\ r[1] <= r[2] /\ priced[r[1]].event = priced[r[2]].event
     /\ \A i \in r[1] .. r[2] : priced[i].event = priced[r[1]].event => Cheap(priced[i])}
Runs(priced) ==
  {r \in Stretches(priced) :
     \A s \in Stretches(priced) :
       s[1] <= r[1] /\ r[2] <= s[2] /\ priced[s[1]].event = priced[r[1]].event => s = r}

(* An event's episodes are the runs of its pricings below a dollar: each    *)
(* run is one episode, from its first pricing to its last, with the best    *)
(* net it had; a pricing at a dollar or more ends it.                       *)
EpisodesAreRuns ==
  Read => LET scan == BasketScan(Rows, polls, MaxLegAge)
              priced == scan.priced
              of(r) == {i \in r[1] .. r[2] : priced[i].event = priced[r[1]].event}
              asRun(k) == [event |-> k.event, first |-> k.first, last |-> k.last,
                           observations |-> k.observations, bestNet |-> k.bestNet]
          IN  /\ {asRun(scan.episodes[i]) : i \in DOMAIN scan.episodes} =
                   {[event |-> priced[r[1]].event, first |-> priced[r[1]].at,
                     last |-> priced[r[2]].at, observations |-> Cardinality(of(r)),
                     bestNet |-> Max({NetDollars(priced[i]) : i \in of(r)})] : r \in Runs(priced)}
              /\ Len(scan.episodes) = Cardinality(Runs(priced))

Settings == [threshold |-> MaxLegAge, quantity |-> Quantity, research |-> TRUE, approved |-> {},
             legOrder |-> LegOrder, draws |-> Draws]

(* Two ways of pricing the same archive agree: a basket the funnel accepts  *)
(* at an age the scan allows is one the scan has priced below a dollar, at  *)
(* the same moment.                                                         *)
FunnelWithinScan ==
  Read => LET slice == Falsify(Rows, polls, Settings)
              priced == ToSet(BasketScan(Rows, polls, MaxLegAge).priced)
          IN  \A a \in ToSet(slice.accepted) :
                \E p \in priced : p.at = a.at /\ DOMAIN p.ask = a.legs /\ Cheap(p)

(* An archive of changes loses no crossing and invents none: a resting bid  *)
(* is filled if and only if a poller saw the market offer at its price or   *)
(* less within the horizon, short of offers that stood at it already when   *)
(* it was placed, as one poller had last seen the market.                   *)
FillsAreCrossings ==
  Read => LET scan == MakerScan(Rows, polls, MaxLegAge, Horizon, Window)
              meets(i, o) == Offers(answers[i]) /\ BestYesAsk(answers[i].book).ask <= o.price
              crossed(o) == {i \in SeenOf(o.ticker) :
                               /\ o.at < answers[i].at /\ answers[i].at <= o.at + Horizon
                               /\ meets(i, o)}
              standing(i, o) == \E j \in SeenOf(o.ticker) :
                                  /\ answers[j].at <= o.at /\ meets(j, o)
                                  /\ SameStream(j, i) /\ NothingElse(j, i)
          IN  \A o \in UNION ToSet(scan.attempts) :
                /\ o.filled => crossed(o) # {}
                /\ \A i \in crossed(o) : o.filled \/ standing(i, o)

(* The stretch the gate looks at is the longest one without a gap: from one *)
(* sample to a later one with no hole in between, whatever streams the      *)
(* samples are of and wherever the holes are.                               *)
GapsSplitTheRun ==
  Read => LET stamps == Stamps(samples)
              held(x, y) == ~ \E g \in GapsBetween(stamps, GapThreshold) : x <= g[1] /\ g[2] <= y
          IN  LongestContinuous(samples, now, GapThreshold) =
                Max({0} \cup {r[2] - r[1] : r \in {s \in stamps \X stamps :
                                                 s[1] <= s[2] /\ held(s[1], s[2])}})

(* "no collection recorded: the gate cannot be met by an empty archive"     *)
(* (coverage.py, CoverageAssessment.render).                                *)
EmptyArchiveFailsGate ==
  Read /\ Rows = <<>> => ~ MeetsGate(samples, now, GapThreshold, GateDuration)
=============================================================================
