------------------------------ MODULE Collection ------------------------------
(***************************************************************************)
(* The polling collector (collection/collector.py, service.py), the raw    *)
(* archive it writes (archive.py), the replay that reads it (replay.py),   *)
(* and the pricing of a basket inside each cycle (detector/live.py).       *)
(*                                                                         *)
(* A cycle polls its markets one after the other in one database session,  *)
(* prices, and commits once.  What a poll does after its request returns   *)
(* is not interrupted.  An exception of the database leaves run_forever:   *)
(* it is a crash.  A polled event is a whole book, numbered by the         *)
(* collector, so the reconstructor either replaces its book or, over an    *)
(* impossible price, invalidates it.                                       *)
(***************************************************************************)
EXTENDS Integers, Sequences, FiniteSets, SequencesExt

CONSTANTS
  Ticker,       (* markets; together the legs of one registered relationship *)
  Quotes,       (* payloads that decode into a book of possible prices       *)
  MaxBookAge,   (* LiveDetector.max_book_age, in ticks                       *)
  MaxSequence,  (* bound on the numbers a stream uses                        *)
  MaxCrashes    (* bound on crashes                                          *)

ASSUME CollectionConstants ==
  /\ IsFiniteSet(Ticker) /\ Ticker # {}
  /\ MaxBookAge \in Nat /\ MaxSequence \in Nat /\ MaxCrashes \in Nat

Garbled == "garbled"    (* a payload that does not decode                  *)
AtBound == "at bound"   (* one that decodes, with a price of 0 or 1 dollar *)
None == "none"

Payload == Quotes \cup {Garbled, AtBound}

VARIABLES
  collectors,   (* the markets CollectionService.collectors is over          *)
  collector,    (* MarketCollector of each: resumed, sequence, hash (of the last
                   payload stored), and its book: levels, complete           *)
  archive,      (* of each stream, the raw messages in the order of their ids *)
  durable,      (* how many of them are committed                            *)
  todo,         (* markets the cycle has yet to poll                         *)
  confirmed,    (* markets the cycle has polled successfully                 *)
  cycling,      (* a cycle is under way                                      *)
  accepted,     (* what the last cycle's evaluation of the basket said       *)
  fetched,      (* history: what the cycle received of each market           *)
  age,          (* history: ticks since then, saturated                      *)
  crashes

vars == <<collectors, collector, archive, durable, todo, confirmed, cycling, accepted,
          fetched, age, crashes>>

New == [resumed |-> FALSE, sequence |-> 0, hash |-> None, levels |-> None, complete |-> FALSE]

-----------------------------------------------------------------------------
(* The archive.                                                            *)

Numbers(t) == {archive[t][i].sequence : i \in DOMAIN archive[t]}

HowMany(t) == Len(archive[t])   \* mutant: resumes from the number of rows
Restarted(t) == 0               \* mutant: resumes from zero

\* MarketCollector.resume.
Highest(t) == Max(Numbers(t) \cup {0})

Resumed(t) ==
  IF collector[t].resumed THEN collector[t]
  ELSE [collector[t] EXCEPT !.resumed = TRUE, !.sequence = Highest(t)]

\* RawArchive.record: a number already archived is a duplicate, and not stored.
Recorded(t, n, payload) ==
  IF n \in Numbers(t) THEN archive[t]
  ELSE Append(archive[t], [sequence |-> n, payload |-> payload])

\* BookReconstructor.apply of a whole book, to a record with levels and complete.
Applied(b, payload) ==
  IF payload = AtBound THEN [b EXCEPT !.complete = FALSE]
                       ELSE [b EXCEPT !.complete = TRUE, !.levels = payload]

\* replay.replay_archive.
Replay(t) ==
  FoldLeft(LAMBDA b, row : Applied(b, row.payload), [levels |-> None, complete |-> FALSE],
           archive[t])

-----------------------------------------------------------------------------

\* The command resolves its markets or is given them, and resumes their streams.
Init ==
  /\ collectors \in (SUBSET Ticker) \ {{}}
  /\ archive = [t \in Ticker |-> <<>>]
  /\ durable = [t \in Ticker |-> 0]
  /\ collector = [t \in Ticker |-> New]
  /\ todo = {} /\ confirmed = {} /\ cycling = FALSE
  /\ accepted = FALSE
  /\ fetched = [t \in Ticker |-> None]
  /\ age = [t \in Ticker |-> 0]
  /\ crashes = 0

\* What refresh_markets leaves when the source answers; a failure, or no market at all,
\* leaves what was there.
Resolved == (SUBSET Ticker) \ {{}}

\* Collectors of markets that stay are kept, others are made anew.
RefreshTo(live) ==
  /\ collectors' = live
  /\ collector' = [t \in Ticker |-> IF t \in live \cap collectors THEN collector[t] ELSE New]

BeginCycle ==
  /\ ~cycling
  /\ \/ \E live \in Resolved : RefreshTo(live)
     \/ UNCHANGED <<collectors, collector>>
  /\ cycling' = TRUE
  /\ todo' = collectors'
  /\ confirmed' = {}
  /\ fetched' = [t \in Ticker |-> None]
  /\ age' = [t \in Ticker |-> 0]
  /\ UNCHANGED <<archive, durable, accepted, crashes>>

-----------------------------------------------------------------------------
(* MarketCollector.poll_once.                                              *)

Polls(t) ==
  /\ t \in todo
  /\ todo' = todo \ {t}
  /\ UNCHANGED <<collectors, durable, cycling, accepted, crashes>>

\* The request failed, or outlasted its deadline.
PollFails(t) ==
  /\ Polls(t)
  /\ collector' = [collector EXCEPT ![t] = Resumed(t)]
  /\ UNCHANGED <<archive, confirmed, fetched, age>>

Receives(t, payload) ==
  /\ Polls(t)
  /\ fetched' = [fetched EXCEPT ![t] = payload]
  /\ age' = [age EXCEPT ![t] = 0]

PollUnchanged(t, payload) ==
  /\ payload = collector[t].hash
  /\ Receives(t, payload)
  /\ confirmed' = confirmed \cup {t}
  /\ UNCHANGED <<collector, archive>>

\* The number is used up, the book invalidated, the hash kept.
PollGarbled(t) ==
  /\ Resumed(t).sequence < MaxSequence
  /\ Receives(t, Garbled)
  /\ collector' = [collector EXCEPT ![t] =
                     [Resumed(t) EXCEPT !.sequence = @ + 1, !.complete = FALSE]]
  /\ UNCHANGED <<archive, confirmed>>

PollStores(t, payload) ==
  LET c == Resumed(t) IN
    /\ payload \notin {Garbled, collector[t].hash}
    /\ c.sequence < MaxSequence
    /\ Receives(t, payload)
    /\ archive' = [archive EXCEPT ![t] = Recorded(t, c.sequence + 1, payload)]
    /\ collector' = [collector EXCEPT ![t] =
                       Applied([c EXCEPT !.sequence = @ + 1, !.hash = payload], payload)]
    /\ confirmed' = confirmed \cup {t}

Poll(t) ==
  \/ PollFails(t)
  \/ PollGarbled(t)
  \/ \E payload \in Payload : PollUnchanged(t, payload) \/ PollStores(t, payload)

-----------------------------------------------------------------------------
(* The end of the cycle.                                                   *)

\* What LiveDetector takes the age of a confirmed leg for: the service stamps every
\* confirmation with the moment the cycle is priced.
LegAge(t) == 0

\* Mutant: a basket is priced whatever this cycle saw of it.
PriceableUnconfirmed == \A t \in Ticker : collector[t].complete /\ LegAge(t) <= MaxBookAge

\* evaluate_cycle and the gates of evaluate_basket on every leg: confirmed, complete, young
\* enough.
Priceable ==
  \A t \in Ticker : t \in confirmed /\ collector[t].complete /\ LegAge(t) <= MaxBookAge

\* Depth, fees and edge decide the rest.  Then the session is committed.
CompleteCycle ==
  /\ cycling /\ todo = {}
  /\ accepted' \in {FALSE, Priceable}
  /\ durable' = [t \in Ticker |-> Len(archive[t])]
  /\ cycling' = FALSE
  /\ UNCHANGED <<collectors, collector, archive, todo, confirmed, fetched, age, crashes>>

\* The process dies with its session and is started again.
Crash ==
  /\ crashes < MaxCrashes
  /\ crashes' = crashes + 1
  /\ archive' = [t \in Ticker |-> SubSeq(archive[t], 1, durable[t])]
  /\ collectors' \in Resolved
  /\ collector' = [t \in Ticker |-> New]
  /\ todo' = {} /\ confirmed' = {} /\ cycling' = FALSE
  /\ UNCHANGED <<durable, accepted, fetched, age>>

\* A request takes its time.
Tick ==
  /\ todo # {}
  /\ age' = [t \in Ticker |-> IF t \in confirmed /\ age[t] <= MaxBookAge THEN age[t] + 1
                                                                        ELSE age[t]]
  /\ age' # age
  /\ UNCHANGED <<collectors, collector, archive, durable, todo, confirmed, cycling, accepted,
                 fetched, crashes>>

Next ==
  \/ BeginCycle
  \/ \E t \in Ticker : Poll(t)
  \/ CompleteCycle
  \/ Crash
  \/ Tick

Spec == Init /\ [][Next]_vars

-----------------------------------------------------------------------------

Row == [sequence : 1 .. MaxSequence, payload : Payload \ {Garbled}]

Collector ==
  [ resumed : BOOLEAN, sequence : 0 .. MaxSequence, hash : (Payload \ {Garbled}) \cup {None},
    levels : Quotes \cup {None}, complete : BOOLEAN ]

\* Every variable has the shape the code gives it; there is always a market to collect.
TypeOK ==
  /\ collectors \in (SUBSET Ticker) \ {{}}
  /\ collector \in [Ticker -> Collector]
  /\ archive \in [Ticker -> Seq(Row)]
  /\ durable \in [Ticker -> 0 .. MaxSequence]
  /\ todo \subseteq collectors /\ confirmed \subseteq Ticker
  /\ cycling \in BOOLEAN /\ accepted \in BOOLEAN
  /\ fetched \in [Ticker -> Payload \cup {None}]
  /\ age \in [Ticker -> 0 .. MaxBookAge + 1]
  /\ crashes \in 0 .. MaxCrashes

\* FR-001: the archive replays to the book that is being priced, after failed and garbled
\* polls, rotations of the market set, crashes and restarts (replay.py:3-7).
ReplayRebuilds ==
  \A t \in Ticker : collector[t].complete =>
    Replay(t).complete /\ Replay(t).levels = collector[t].levels

\* The archive is in the order of its numbers, whatever was committed, lost and collected
\* again, so that a replay finds neither duplicate nor rewind (collector.py:20-24).
NumbersIncrease ==
  \A t \in Ticker : \A i, j \in DOMAIN archive[t] :
    i < j => archive[t][i].sequence < archive[t][j].sequence

\* A basket is accepted only on books the venue gave in this very cycle, though they may
\* have been read long before and only confirmed since (live.py:25-28).
AcceptedOnFetched ==
  [][ cycling /\ ~cycling' /\ accepted' /\ crashes' = crashes =>
        \A t \in Ticker : fetched[t] \in Quotes /\ collector[t].levels = fetched[t] ]_vars

-----------------------------------------------------------------------------
(* What a comment says of the code, and the code does not do.              *)

\* "A leg is priced only if this cycle confirmed it, and its age is the time since that
\* confirmation" (live.py:25-26), and one older than max_book_age is rejected.  But the
\* service stamps every leg with the end of the cycle (service.py:282).
AgeIsMeasured ==
  [][ cycling /\ ~cycling' /\ accepted' /\ crashes' = crashes =>
        \A t \in Ticker : age[t] <= MaxBookAge ]_vars

=============================================================================
