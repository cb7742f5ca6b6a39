--------------------------- MODULE CollectionProofs ---------------------------
(***************************************************************************)
(* Of collection: the archive's numbering, what it replays to and what a   *)
(* cycle accepts, for any markets, payloads and number of crashes.         *)
(*                                                                         *)
(* Of the books of a stream (BookStream), for any levels, window and       *)
(* bounds: that a book is never two messages behind its stream, and that a *)
(* complete book is the venue's.                                           *)
(***************************************************************************)
EXTENDS Collection, BookStream, SequenceTheorems, TotalsProofs, TLAPS

-----------------------------------------------------------------------------
(* The highest number of a stream.                                         *)

\* A bounded one has a greatest: its distance from the bound is the least.
LEMMA GreatestBounded ==
  ASSUME NEW n \in Nat, NEW S \in SUBSET (0 .. n), S # {}
  PROVE  Max(S) \in S /\ \A k \in S : Max(S) >= k
<1> DEFINE D == {n - k : k \in S}
<1>1. D \in SUBSET Nat /\ D # {}
  <2>1. \A k \in S : k \in Int /\ 0 <= k /\ k <= n
    OBVIOUS
  <2>2. \A k \in S : n - k \in Nat
    BY <2>1
  <2> QED BY <2>2
<1>2. PICK d \in D : \A e \in D : d <= e
  BY <1>1, LeastNatural
<1>3. PICK m \in S : d = n - m
  BY <1>2
<1>4. \A k \in S : m >= k
  <2> SUFFICES ASSUME NEW k \in S PROVE m >= k
    OBVIOUS
  <2>1. n - m <= n - k
    BY <1>2, <1>3
  <2>2. m \in 0 .. n /\ k \in 0 .. n
    OBVIOUS
  <2> QED BY <2>1, <2>2
<1> QED BY <1>3, <1>4 DEF Max

-----------------------------------------------------------------------------
(* Sequences of rows, in the order of their numbers.                       *)

Ordered(rows) == \A i, j \in DOMAIN rows : i < j => rows[i].sequence < rows[j].sequence
\* There are no more rows than numbers.
Spaced(rows) == \A i \in DOMAIN rows : i <= rows[i].sequence
Below(rows, n) == \A i \in DOMAIN rows : rows[i].sequence <= n

Rows(rows) == rows \in Seq(Row) /\ Ordered(rows) /\ Spaced(rows)

LEMMA RowsFacts ==
  ASSUME NEW rows, Rows(rows)
  PROVE  /\ DOMAIN rows = 1 .. Len(rows) /\ Len(rows) \in 0 .. MaxSequence
         /\ \A i \in 1 .. Len(rows) : /\ rows[i] \in Row
                                      /\ rows[i].sequence \in 1 .. MaxSequence
<1>1. DOMAIN rows = 1 .. Len(rows) /\ Len(rows) \in Nat
  BY DEF Rows
<1>2. \A i \in 1 .. Len(rows) : rows[i] \in Row /\ rows[i].sequence \in 1 .. MaxSequence
  <2>1. \A i \in 1 .. Len(rows) : rows[i] \in Row
    BY DEF Rows
  <2> QED BY <2>1 DEF Row
<1>3. MaxSequence \in Nat
  BY CollectionConstants
<1>4. CASE Len(rows) >= 1
  <2>1. Len(rows) <= rows[Len(rows)].sequence
    BY <1>1, <1>4 DEF Rows, Spaced
  <2>2. rows[Len(rows)].sequence \in 1 .. MaxSequence
    BY <1>1, <1>2, <1>4
  <2> QED BY <1>1, <1>2, <1>3, <2>1, <2>2
<1>5. CASE Len(rows) = 0
  BY <1>1, <1>2, <1>3, <1>5
<1> QED BY <1>1, <1>4, <1>5

LEMMA AppendRows ==
  ASSUME NEW rows, Rows(rows), NEW n \in 1 .. MaxSequence, Below(rows, n - 1),
         NEW payload \in Payload \ {Garbled}
  PROVE  LET more == Append(rows, [sequence |-> n, payload |-> payload]) IN
           Rows(more) /\ Below(more, n) /\ Len(more) = Len(rows) + 1
<1> DEFINE new == [sequence |-> n, payload |-> payload]
           more == Append(rows, new)
<1>1. new \in Row /\ new.sequence = n
  BY DEF Row
<1>2. rows \in Seq(Row) /\ Len(rows) \in Nat /\ DOMAIN rows = 1 .. Len(rows)
  BY RowsFacts DEF Rows
<1>3. /\ more \in Seq(Row) /\ Len(more) = Len(rows) + 1
      /\ \A i \in 1 .. Len(rows) : more[i] = rows[i]
      /\ more[Len(rows) + 1] = new
      /\ DOMAIN more = 1 .. Len(rows) + 1
  BY <1>1, <1>2
<1> HIDE DEF new, more
<1>4. \A i \in 1 .. Len(rows) : /\ rows[i].sequence \in Int
                                /\ rows[i].sequence < n /\ i <= rows[i].sequence
  <2>1. n \in Int
    OBVIOUS
  <2>2. \A i \in 1 .. Len(rows) : rows[i].sequence \in Int
    BY RowsFacts
  <2>3. \A i \in 1 .. Len(rows) : rows[i].sequence <= n - 1 /\ i <= rows[i].sequence
    BY <1>2 DEF Below, Rows, Spaced
  <2> QED BY <2>1, <2>2, <2>3
<1>5. Len(rows) + 1 <= n
  <2>1. n \in Int /\ n >= 1
    OBVIOUS
  <2>2. CASE Len(rows) >= 1
    <3>1. Len(rows) <= rows[Len(rows)].sequence /\ rows[Len(rows)].sequence < n
          /\ rows[Len(rows)].sequence \in Int
      BY <1>2, <1>4, <2>2
    <3> QED BY <1>2, <2>1, <3>1
  <2> QED BY <1>2, <2>1, <2>2
<1>6. Ordered(more)
  <2> SUFFICES ASSUME NEW i \in 1 .. Len(rows) + 1, NEW j \in 1 .. Len(rows) + 1, i < j
               PROVE  more[i].sequence < more[j].sequence
    BY <1>3 DEF Ordered
  <2>1. i \in 1 .. Len(rows) /\ more[i] = rows[i]
    BY <1>2, <1>3
  <2>2. CASE j = Len(rows) + 1
    BY <1>1, <1>3, <1>4, <2>1, <2>2
  <2>3. CASE j \in 1 .. Len(rows)
    BY <1>2, <1>3, <2>1, <2>3 DEF Rows, Ordered
  <2> QED BY <1>2, <2>2, <2>3
<1>7. Spaced(more)
  BY <1>1, <1>2, <1>3, <1>4, <1>5 DEF Spaced
<1>8. Below(more, n)
  BY <1>1, <1>2, <1>3, <1>4 DEF Below
<1> QED BY <1>3, <1>6, <1>7, <1>8 DEF Rows, new, more

LEMMA PrefixRows ==
  ASSUME NEW rows, Rows(rows), NEW k \in 0 .. Len(rows)
  PROVE  Rows(SubSeq(rows, 1, k)) /\ Len(SubSeq(rows, 1, k)) = k
<1> DEFINE less == SubSeq(rows, 1, k)
<1>1. rows \in Seq(Row) /\ Len(rows) \in Nat /\ DOMAIN rows = 1 .. Len(rows) /\ k \in Nat
      /\ k <= Len(rows)
  BY RowsFacts DEF Rows
<1>2. less \in Seq(Row) /\ Len(less) = k /\ DOMAIN less = 1 .. k
      /\ \A i \in 1 .. k : less[i] = rows[i]
  BY <1>1
<1> HIDE DEF less
<1>3. \A i \in 1 .. k : i \in DOMAIN rows
  BY <1>1
<1> QED BY <1>2, <1>3 DEF Rows, Ordered, Spaced, less

-----------------------------------------------------------------------------
(* The invariant.                                                          *)

\* A complete book is the last payload stored.
Known(c) == c.complete => c.hash \in Quotes /\ c.levels = c.hash

\* A stream's rows, how many of them a crash leaves, and what its collector knows of them.
StreamInv ==
  \A t \in Ticker :
    /\ Rows(archive[t])
    /\ durable[t] \in 0 .. Len(archive[t])
    /\ collector[t].resumed => Below(archive[t], collector[t].sequence)
    /\ Known(collector[t])

\* A market is polled once in a cycle, and what confirmed it is what was fetched.
CycleInv ==
  /\ confirmed \cap todo = {}
  /\ \A t \in confirmed : fetched[t] = collector[t].hash

Inv == TypeOK /\ StreamInv /\ CycleInv

LEMMA NewCollector == New \in Collector /\ ~ New.resumed /\ Known(New)
<1>1. 0 \in 0 .. MaxSequence
  BY CollectionConstants
<1> QED BY <1>1 DEF New, Collector, Known

LEMMA StreamFacts ==
  ASSUME Inv, NEW t \in Ticker
  PROVE  /\ collector[t] \in Collector /\ archive[t] \in Seq(Row) /\ Rows(archive[t])
         /\ collector[t].resumed => Below(archive[t], collector[t].sequence)
         /\ Known(collector[t])
  BY DEF Inv, TypeOK, StreamInv

\* What a poll starts from: a number no row of the stream exceeds.
LEMMA ResumedFacts ==
  ASSUME Inv, NEW t \in Ticker
  PROVE  /\ Resumed(t) \in Collector /\ Resumed(t).resumed
         /\ Below(archive[t], Resumed(t).sequence)
         /\ Resumed(t).hash = collector[t].hash /\ Resumed(t).levels = collector[t].levels
         /\ Resumed(t).complete = collector[t].complete
<1>1. collector[t] \in Collector /\ Rows(archive[t])
  BY StreamFacts
<1>2. CASE collector[t].resumed
  BY <1>1, <1>2, StreamFacts DEF Resumed
<1>3. CASE ~ collector[t].resumed
  <2> DEFINE S == Numbers(t) \cup {0}
  <2>1. MaxSequence \in Nat
    BY CollectionConstants
  <2>2. \A i \in DOMAIN archive[t] : archive[t][i].sequence \in 1 .. MaxSequence
    BY <1>1, RowsFacts
  <2>3. S \in SUBSET (0 .. MaxSequence) /\ S # {}
    BY <2>1, <2>2 DEF Numbers
  <2>4. \A i \in DOMAIN archive[t] : archive[t][i].sequence \in S
    BY DEF Numbers
  <2> HIDE DEF S
  <2>5. Max(S) \in S /\ \A k \in S : Max(S) >= k
    BY <2>1, <2>3, GreatestBounded
  <2>6. Highest(t) = Max(S)
    BY DEF Highest, S
  <2>7. Highest(t) \in 0 .. MaxSequence
    BY <2>3, <2>5, <2>6
  <2>8. \A i \in DOMAIN archive[t] : archive[t][i].sequence <= Highest(t)
    BY <2>1, <2>2, <2>4, <2>5, <2>6, <2>7
  <2>9. Resumed(t) = [collector[t] EXCEPT !.resumed = TRUE, !.sequence = Highest(t)]
    BY <1>3 DEF Resumed
  <2>10. /\ Resumed(t) \in Collector /\ Resumed(t).resumed /\ Resumed(t).sequence = Highest(t)
         /\ Resumed(t).hash = collector[t].hash /\ Resumed(t).levels = collector[t].levels
         /\ Resumed(t).complete = collector[t].complete
    BY <1>1, <2>7, <2>9 DEF Collector
  <2> QED BY <2>8, <2>10 DEF Below
<1> QED BY <1>2, <1>3

LEMMA InvInit == Init => Inv
<1> SUFFICES ASSUME Init PROVE Inv
  OBVIOUS
<1>1. MaxSequence \in Nat /\ MaxBookAge \in Nat /\ MaxCrashes \in Nat
  BY CollectionConstants
<1>2. collector \in [Ticker -> Collector]
  BY NewCollector DEF Init
<1>3. archive \in [Ticker -> Seq(Row)]
  BY DEF Init
<1>4. TypeOK
  <2>1. /\ durable \in [Ticker -> 0 .. MaxSequence] /\ age \in [Ticker -> 0 .. MaxBookAge + 1]
        /\ crashes \in 0 .. MaxCrashes
    BY <1>1 DEF Init
  <2>2. fetched \in [Ticker -> Payload \cup {None}]
    BY DEF Init
  <2>3. /\ collectors \in (SUBSET Ticker) \ {{}} /\ todo \subseteq collectors
        /\ confirmed \subseteq Ticker
    BY DEF Init
  <2>4. cycling \in BOOLEAN /\ accepted \in BOOLEAN
    BY DEF Init
  <2> QED BY <1>2, <1>3, <2>1, <2>2, <2>3, <2>4 DEF TypeOK
<1>5. Rows(<<>>) /\ Len(<<>>) = 0
  BY DEF Rows, Ordered, Spaced
<1>6. StreamInv
  BY <1>5, NewCollector DEF Init, StreamInv
<1> QED BY <1>4, <1>6 DEF Init, CycleInv, Inv

-----------------------------------------------------------------------------
(* One action at a time.                                                   *)

\* What any poll does: one market's collector, rows and history change.
LEMMA PollStepKeeps ==
  ASSUME Inv, NEW t \in Ticker, Polls(t), NEW c \in Collector, NEW rows,
         collector' = [collector EXCEPT ![t] = c],
         archive' = [archive EXCEPT ![t] = rows],
         Rows(rows), Len(archive[t]) <= Len(rows),
         c.resumed => Below(rows, c.sequence), Known(c),
         fetched' \in [Ticker -> Payload \cup {None}],
         \A u \in Ticker \ {t} : fetched'[u] = fetched[u],
         \/ confirmed' = confirmed
         \/ confirmed' = confirmed \cup {t} /\ fetched'[t] = c.hash,
         age' \in [Ticker -> 0 .. MaxBookAge + 1]
  PROVE  Inv'
<1>1. /\ collector \in [Ticker -> Collector] /\ archive \in [Ticker -> Seq(Row)]
      /\ rows \in Seq(Row)
  BY DEF Inv, TypeOK, Rows
<1>2. /\ collector' \in [Ticker -> Collector] /\ archive' \in [Ticker -> Seq(Row)]
      /\ collector'[t] = c /\ archive'[t] = rows
      /\ \A u \in Ticker \ {t} : collector'[u] = collector[u] /\ archive'[u] = archive[u]
  BY <1>1
<1>3. TypeOK'
  <2>1. /\ collectors' = collectors /\ durable' = durable /\ cycling' = cycling
        /\ accepted' = accepted /\ crashes' = crashes /\ todo' \subseteq todo
        /\ confirmed' \subseteq confirmed \cup {t}
    BY DEF Polls
  <2>2. TypeOK
    BY DEF Inv
  <2> QED BY <1>2, <2>1, <2>2 DEF TypeOK
<1>4. StreamInv'
  <2> SUFFICES ASSUME NEW u \in Ticker
               PROVE  /\ Rows(archive'[u])
                      /\ durable[u] \in 0 .. Len(archive'[u])
                      /\ collector'[u].resumed => Below(archive'[u], collector'[u].sequence)
                      /\ Known(collector'[u])
    BY DEF Polls, StreamInv, Rows, Ordered, Spaced, Below, Known
  <2>1. CASE u = t
    <3>1. durable[t] \in 0 .. Len(archive[t]) /\ Len(archive[t]) \in Nat /\ Len(rows) \in Nat
      BY <1>1 DEF Inv, StreamInv
    <3> QED BY <1>2, <2>1, <3>1
  <2>2. CASE u # t
    BY <1>2, <2>2 DEF Inv, StreamInv
  <2> QED BY <2>1, <2>2
<1>5. CycleInv'
  <2>1. t \in todo /\ todo' = todo \ {t} /\ t \notin confirmed
    BY DEF Polls, Inv, CycleInv
  <2>2. \A u \in confirmed : u \in Ticker \ {t} /\ fetched[u] = collector[u].hash
    BY <2>1 DEF Inv, TypeOK, CycleInv
  <2>3. confirmed' \cap todo' = {}
    BY <2>1 DEF Inv, CycleInv
  <2> QED BY <1>2, <2>2, <2>3 DEF CycleInv
<1> QED BY <1>3, <1>4, <1>5 DEF Inv

\* A number is used up, so that the next row's is free again after a failure too.
LEMMA AppliedFacts ==
  ASSUME NEW c \in Collector, NEW n \in 1 .. MaxSequence, NEW payload \in Payload \ {Garbled}
  PROVE  LET a == Applied([c EXCEPT !.sequence = n, !.hash = payload], payload) IN
           /\ a \in Collector /\ a.sequence = n /\ a.hash = payload /\ Known(a)
<1> DEFINE b == [c EXCEPT !.sequence = n, !.hash = payload]
           a == Applied(b, payload)
<1>1. 1 .. MaxSequence \subseteq 0 .. MaxSequence
  BY CollectionConstants
<1>2. b \in Collector /\ b.sequence = n /\ b.hash = payload
  BY <1>1 DEF Collector
<1> HIDE DEF b
<1>3. CASE payload = AtBound
  <2>1. a = [b EXCEPT !.complete = FALSE]
    BY <1>3 DEF Applied
  <2>2. a \in Collector /\ ~ a.complete /\ a.sequence = b.sequence /\ a.hash = b.hash
    BY <1>2, <2>1 DEF Collector
  <2> QED BY <1>2, <2>2 DEF Known, b
<1>4. CASE payload # AtBound
  <2>1. payload \in Quotes
    BY <1>4 DEF Payload
  <2>2. a = [b EXCEPT !.complete = TRUE, !.levels = payload]
    BY <1>4 DEF Applied
  <2>3. a \in Collector /\ a.levels = payload /\ a.sequence = b.sequence /\ a.hash = b.hash
    BY <1>2, <2>1, <2>2 DEF Collector
  <2> QED BY <1>2, <2>1, <2>3 DEF Known, b
<1> QED BY <1>3, <1>4

LEMMA AgeZero ==
  ASSUME Inv, NEW t \in Ticker
  PROVE  [age EXCEPT ![t] = 0] \in [Ticker -> 0 .. MaxBookAge + 1]
<1>1. 0 \in 0 .. MaxBookAge + 1
  BY CollectionConstants
<1> QED BY <1>1 DEF Inv, TypeOK

LEMMA PollFailsKeeps ==
  ASSUME Inv, NEW t \in Ticker, PollFails(t) PROVE Inv'
<1> DEFINE c == Resumed(t)
<1>1. /\ c \in Collector /\ Below(archive[t], c.sequence) /\ Known(c)
  BY ResumedFacts, StreamFacts DEF Known
<1> HIDE DEF c
<1>2. /\ archive \in [Ticker -> Seq(Row)] /\ Rows(archive[t]) /\ Len(archive[t]) \in Nat
      /\ fetched \in [Ticker -> Payload \cup {None}]
      /\ age \in [Ticker -> 0 .. MaxBookAge + 1]
  BY StreamFacts DEF Inv, TypeOK
<1>3. /\ archive' = [archive EXCEPT ![t] = archive[t]] /\ Len(archive[t]) <= Len(archive[t])
      /\ fetched' = fetched /\ age' = age /\ confirmed' = confirmed
      /\ collector' = [collector EXCEPT ![t] = c] /\ Polls(t)
  BY <1>2 DEF PollFails, c
<1> QED BY <1>1, <1>2, <1>3, PollStepKeeps

LEMMA ReceivesFacts ==
  ASSUME Inv, NEW t \in Ticker, NEW payload \in Payload, Receives(t, payload)
  PROVE  /\ Polls(t)
         /\ fetched' \in [Ticker -> Payload \cup {None}]
         /\ fetched'[t] = payload /\ \A u \in Ticker \ {t} : fetched'[u] = fetched[u]
         /\ age' \in [Ticker -> 0 .. MaxBookAge + 1]
  BY AgeZero DEF Receives, Inv, TypeOK

LEMMA PollUnchangedKeeps ==
  ASSUME Inv, NEW t \in Ticker, NEW payload \in Payload, PollUnchanged(t, payload)
  PROVE  Inv'
<1>1. /\ collector \in [Ticker -> Collector] /\ archive \in [Ticker -> Seq(Row)]
      /\ Len(archive[t]) \in Nat
  BY DEF Inv, TypeOK
<1>2. /\ collector' = [collector EXCEPT ![t] = collector[t]]
      /\ archive' = [archive EXCEPT ![t] = archive[t]] /\ Len(archive[t]) <= Len(archive[t])
      /\ confirmed' = confirmed \cup {t} /\ payload = collector[t].hash
      /\ Receives(t, payload)
  BY <1>1 DEF PollUnchanged, Receives, Polls
<1> QED BY <1>2, StreamFacts, ReceivesFacts, PollStepKeeps

LEMMA PollGarbledKeeps ==
  ASSUME Inv, NEW t \in Ticker, PollGarbled(t) PROVE Inv'
<1> DEFINE r == Resumed(t)
           c == [r EXCEPT !.sequence = @ + 1, !.complete = FALSE]
<1>1. /\ r \in Collector /\ Below(archive[t], r.sequence) /\ r.sequence < MaxSequence
      /\ r.sequence \in 0 .. MaxSequence
  BY ResumedFacts DEF PollGarbled, Collector
<1> HIDE DEF r
<1>2. MaxSequence \in Nat
  BY CollectionConstants
<1>3. c \in Collector /\ c.sequence = r.sequence + 1 /\ ~ c.complete
  <2>1. r.sequence + 1 \in 0 .. MaxSequence
    BY <1>1, <1>2
  <2> QED BY <1>1, <2>1 DEF Collector
<1>4. archive \in [Ticker -> Seq(Row)] /\ Rows(archive[t]) /\ Len(archive[t]) \in Nat
  BY StreamFacts DEF Inv, TypeOK
<1>5. Below(archive[t], c.sequence)
  <2>1. \A i \in DOMAIN archive[t] : archive[t][i].sequence \in Int
    BY <1>4, RowsFacts
  <2> QED BY <1>1, <1>3, <2>1 DEF Below
<1>6. /\ collector' = [collector EXCEPT ![t] = c]
      /\ archive' = [archive EXCEPT ![t] = archive[t]] /\ Len(archive[t]) <= Len(archive[t])
      /\ confirmed' = confirmed /\ Receives(t, Garbled) /\ Garbled \in Payload
  BY <1>4 DEF PollGarbled, Payload, r
<1>7. Known(c)
  BY <1>3 DEF Known
<1> HIDE DEF c
<1> QED BY <1>3, <1>4, <1>5, <1>6, <1>7, ReceivesFacts, PollStepKeeps

\* The number after the collector's is free: the row is stored.
LEMMA RecordedAppends ==
  ASSUME Inv, NEW t \in Ticker, NEW payload, NEW n \in Int, n = Resumed(t).sequence + 1
  PROVE  Recorded(t, n, payload) = Append(archive[t], [sequence |-> n, payload |-> payload])
<1>1. Below(archive[t], Resumed(t).sequence) /\ Resumed(t).sequence \in 0 .. MaxSequence
  BY ResumedFacts DEF Collector
<1>2. \A i \in DOMAIN archive[t] : archive[t][i].sequence \in Int
  BY StreamFacts, RowsFacts
<1>3. \A i \in DOMAIN archive[t] : archive[t][i].sequence # n
  BY <1>1, <1>2 DEF Below
<1>4. n \notin Numbers(t)
  BY <1>3 DEF Numbers
<1> QED BY <1>4 DEF Recorded

LEMMA PollStoresKeeps ==
  ASSUME Inv, NEW t \in Ticker, NEW payload \in Payload, PollStores(t, payload)
  PROVE  Inv'
<1> DEFINE r == Resumed(t)
           n == r.sequence + 1
           c == Applied([r EXCEPT !.sequence = @ + 1, !.hash = payload], payload)
           rows == Append(archive[t], [sequence |-> n, payload |-> payload])
<1>1. /\ r \in Collector /\ Below(archive[t], r.sequence) /\ r.sequence < MaxSequence
      /\ r.sequence \in 0 .. MaxSequence /\ payload \in Payload \ {Garbled}
  BY ResumedFacts DEF PollStores, Collector
<1>2. /\ Receives(t, payload) /\ confirmed' = confirmed \cup {t}
      /\ archive' = [archive EXCEPT ![t] = Recorded(t, n, payload)]
      /\ collector' = [collector EXCEPT ![t] = c]
  BY DEF PollStores
<1> HIDE DEF r
<1>3. n \in 1 .. MaxSequence /\ n - 1 = r.sequence
  BY <1>1, CollectionConstants
<1>4. Rows(archive[t])
  BY StreamFacts
<1>5. Recorded(t, n, payload) = rows
  <2>1. n \in Int /\ n = Resumed(t).sequence + 1
    BY <1>3 DEF r
  <2> HIDE DEF n
  <2> QED BY <2>1, RecordedAppends
<1>6. Rows(rows) /\ Below(rows, n) /\ Len(rows) = Len(archive[t]) + 1
  BY <1>1, <1>3, <1>4, AppendRows
<1>7. c = Applied([r EXCEPT !.sequence = n, !.hash = payload], payload)
  OBVIOUS
<1>8. c \in Collector /\ c.sequence = n /\ c.hash = payload /\ Known(c)
  BY <1>1, <1>3, <1>7, AppliedFacts
<1> HIDE DEF c, rows, n
<1>9. Len(archive[t]) \in Nat /\ Len(archive[t]) <= Len(rows)
  BY <1>6, StreamFacts
<1>10. /\ collector' = [collector EXCEPT ![t] = c] /\ archive' = [archive EXCEPT ![t] = rows]
       /\ Rows(rows) /\ (c.resumed => Below(rows, c.sequence)) /\ Known(c)
  BY <1>2, <1>5, <1>6, <1>8
<1>11. /\ Polls(t) /\ fetched' \in [Ticker -> Payload \cup {None}]
       /\ \A u \in Ticker \ {t} : fetched'[u] = fetched[u]
       /\ confirmed' = confirmed \cup {t} /\ fetched'[t] = c.hash
       /\ age' \in [Ticker -> 0 .. MaxBookAge + 1]
  BY <1>1, <1>2, <1>8, ReceivesFacts
<1> QED BY <1>8, <1>9, <1>10, <1>11, PollStepKeeps

LEMMA BeginCycleKeeps == ASSUME Inv, BeginCycle PROVE Inv'
<1>1. collector \in [Ticker -> Collector] /\ archive \in [Ticker -> Seq(Row)]
  BY DEF Inv, TypeOK
<1>2. collectors' \in (SUBSET Ticker) \ {{}}
  BY DEF BeginCycle, RefreshTo, Resolved, Inv, TypeOK
<1>3. \A t \in Ticker : collector'[t] = collector[t] \/ collector'[t] = New
  BY <1>1 DEF BeginCycle, RefreshTo
<1>4. collector' \in [Ticker -> Collector]
  BY <1>1, <1>3, NewCollector DEF BeginCycle, RefreshTo
<1>5. /\ todo' = collectors' /\ confirmed' = {} /\ cycling' = TRUE
      /\ archive' = archive /\ durable' = durable /\ accepted' = accepted
      /\ crashes' = crashes /\ fetched' = [t \in Ticker |-> None]
      /\ age' = [t \in Ticker |-> 0]
  BY DEF BeginCycle
<1>6. age' \in [Ticker -> 0 .. MaxBookAge + 1] /\ fetched' \in [Ticker -> Payload \cup {None}]
  <2>1. 0 \in 0 .. MaxBookAge + 1
    BY CollectionConstants
  <2> QED BY <1>5, <2>1
<1>7. TypeOK'
  <2>1. TypeOK
    BY DEF Inv
  <2> QED BY <1>2, <1>4, <1>5, <1>6, <2>1 DEF TypeOK
<1>8. StreamInv'
  <2> SUFFICES ASSUME NEW t \in Ticker
               PROVE  /\ Rows(archive[t]) /\ durable[t] \in 0 .. Len(archive[t])
                      /\ collector'[t].resumed => Below(archive[t], collector'[t].sequence)
                      /\ Known(collector'[t])
    BY <1>5 DEF StreamInv, Rows, Ordered, Spaced, Below, Known
  <2> QED BY <1>3, NewCollector DEF Inv, StreamInv
<1> QED BY <1>5, <1>7, <1>8 DEF CycleInv, Inv

LEMMA CompleteCycleKeeps == ASSUME Inv, CompleteCycle PROVE Inv'
<1>1. /\ collectors' = collectors /\ collector' = collector /\ archive' = archive
      /\ todo' = todo /\ confirmed' = confirmed /\ fetched' = fetched /\ age' = age
      /\ crashes' = crashes /\ cycling' = FALSE
      /\ durable' = [t \in Ticker |-> Len(archive[t])]
  BY DEF CompleteCycle
<1>2. accepted' \in BOOLEAN
  BY DEF CompleteCycle, Priceable
<1>3. \A t \in Ticker : Len(archive[t]) \in 0 .. MaxSequence /\ Len(archive[t]) \in Nat
  BY StreamFacts, RowsFacts
<1>4. TypeOK'
  <2>1. durable' \in [Ticker -> 0 .. MaxSequence]
    BY <1>1, <1>3
  <2>2. TypeOK
    BY DEF Inv
  <2> QED BY <1>1, <1>2, <2>1, <2>2 DEF TypeOK
<1>5. StreamInv'
  <2>1. \A t \in Ticker : durable'[t] \in 0 .. Len(archive[t])
    BY <1>1, <1>3
  <2> QED BY <1>1, <2>1 DEF Inv, StreamInv, Rows, Ordered, Spaced, Below, Known
<1>6. CycleInv'
  BY <1>1 DEF Inv, CycleInv
<1> QED BY <1>4, <1>5, <1>6 DEF Inv

LEMMA CrashKeeps == ASSUME Inv, Crash PROVE Inv'
<1>1. /\ collectors' \in (SUBSET Ticker) \ {{}} /\ todo' = {} /\ confirmed' = {}
      /\ cycling' = FALSE /\ durable' = durable /\ accepted' = accepted
      /\ fetched' = fetched /\ age' = age /\ crashes' = crashes + 1
      /\ collector' = [t \in Ticker |-> New]
      /\ archive' = [t \in Ticker |-> SubSeq(archive[t], 1, durable[t])]
  BY DEF Crash, Resolved
<1>2. crashes' \in 0 .. MaxCrashes
  BY <1>1, CollectionConstants DEF Crash, Inv, TypeOK
<1>3. \A t \in Ticker : /\ Rows(SubSeq(archive[t], 1, durable[t]))
                        /\ Len(SubSeq(archive[t], 1, durable[t])) = durable[t]
                        /\ durable[t] \in 0 .. durable[t]
  <2> SUFFICES ASSUME NEW t \in Ticker
               PROVE  /\ Rows(SubSeq(archive[t], 1, durable[t]))
                      /\ Len(SubSeq(archive[t], 1, durable[t])) = durable[t]
                      /\ durable[t] \in 0 .. durable[t]
    OBVIOUS
  <2>1. Rows(archive[t]) /\ durable[t] \in 0 .. Len(archive[t])
    BY DEF Inv, StreamInv
  <2>2. durable[t] \in 0 .. durable[t]
    BY <2>1, RowsFacts
  <2> QED BY <2>1, <2>2, PrefixRows
<1>4. archive' \in [Ticker -> Seq(Row)]
  BY <1>1, <1>3 DEF Rows
<1>5. collector' \in [Ticker -> Collector]
  BY <1>1, NewCollector
<1>6. TypeOK'
  <2>1. TypeOK
    BY DEF Inv
  <2> QED BY <1>1, <1>2, <1>4, <1>5, <2>1 DEF TypeOK
<1>7. StreamInv'
  <2> SUFFICES ASSUME NEW t \in Ticker
               PROVE  /\ Rows(archive'[t]) /\ durable[t] \in 0 .. Len(archive'[t])
                      /\ ~ collector'[t].resumed /\ Known(collector'[t])
    BY <1>1 DEF StreamInv, Rows, Ordered, Spaced, Below, Known
  <2>1. archive'[t] = SubSeq(archive[t], 1, durable[t]) /\ collector'[t] = New
    BY <1>1
  <2> QED BY <1>3, <2>1, NewCollector
<1>8. CycleInv'
  BY <1>1 DEF CycleInv
<1> QED BY <1>6, <1>7, <1>8 DEF Inv

LEMMA TickKeeps == ASSUME Inv, Tick PROVE Inv'
<1>1. /\ collectors' = collectors /\ collector' = collector /\ archive' = archive
      /\ durable' = durable /\ todo' = todo /\ confirmed' = confirmed /\ cycling' = cycling
      /\ accepted' = accepted /\ fetched' = fetched /\ crashes' = crashes
  BY DEF Tick
<1>2. age' \in [Ticker -> 0 .. MaxBookAge + 1]
  <2>1. MaxBookAge \in Nat /\ \A t \in Ticker : age[t] \in 0 .. MaxBookAge + 1
    BY CollectionConstants DEF Inv, TypeOK
  <2>2. \A t \in Ticker : age[t] <= MaxBookAge => age[t] + 1 \in 0 .. MaxBookAge + 1
    BY <2>1
  <2> QED BY <2>1, <2>2 DEF Tick
<1>3. TypeOK'
  <2>1. TypeOK
    BY DEF Inv
  <2> QED BY <1>1, <1>2, <2>1 DEF TypeOK
<1>4. StreamInv' /\ CycleInv'
  BY <1>1 DEF Inv, StreamInv, CycleInv, Rows, Ordered, Spaced, Below, Known
<1> QED BY <1>3, <1>4 DEF Inv

LEMMA InvNext == Inv /\ [Next]_vars => Inv'
<1> SUFFICES ASSUME Inv, [Next]_vars PROVE Inv'
  OBVIOUS
<1>1. CASE BeginCycle
  BY <1>1, BeginCycleKeeps
<1>2. ASSUME NEW t \in Ticker, Poll(t) PROVE Inv'
  <2>1. CASE PollFails(t)
    BY <2>1, PollFailsKeeps
  <2>2. CASE PollGarbled(t)
    BY <2>2, PollGarbledKeeps
  <2>3. CASE \E payload \in Payload : PollUnchanged(t, payload)
    BY <2>3, PollUnchangedKeeps
  <2>4. CASE \E payload \in Payload : PollStores(t, payload)
    BY <2>4, PollStoresKeeps
  <2> QED BY <1>2, <2>1, <2>2, <2>3, <2>4 DEF Poll
<1>3. CASE CompleteCycle
  BY <1>3, CompleteCycleKeeps
<1>4. CASE Crash
  BY <1>4, CrashKeeps
<1>5. CASE Tick
  BY <1>5, TickKeeps
<1>6. CASE UNCHANGED vars
  BY <1>6 DEF vars, Inv, TypeOK, StreamInv, CycleInv, Rows, Ordered, Spaced, Below, Known
<1> QED BY <1>1, <1>2, <1>3, <1>4, <1>5, <1>6 DEF Next

-----------------------------------------------------------------------------

\* The invariant of the streams, their collectors and the cycle.
THEOREM Invariance == Spec => []Inv
  BY InvInit, InvNext, PTL DEF Spec

\* Every variable has the shape the code gives it (collector.py, service.py).
THEOREM TypeCorrect == Spec => []TypeOK
<1>1. Inv => TypeOK
  BY DEF Inv
<1> QED BY <1>1, Invariance, PTL

\* No number is used twice in a stream and none goes back, whatever was committed, lost in
\* a crash and collected again (collector.py:20-24).
THEOREM NumbersAlwaysIncrease == Spec => []NumbersIncrease
<1>1. Inv => NumbersIncrease
  BY DEF Inv, StreamInv, Rows, Ordered, NumbersIncrease
<1> QED BY <1>1, Invariance, PTL

\* A cycle that ends without a crash is completed.
LEMMA CyclesEnd ==
  ASSUME Inv, [Next]_vars PROVE cycling /\ ~ cycling' /\ crashes' = crashes => CompleteCycle
<1>1. crashes + 1 # crashes
  <2>1. crashes \in 0 .. MaxCrashes
    BY DEF Inv, TypeOK
  <2> QED BY <2>1
<1> SUFFICES ASSUME cycling, ~ cycling', crashes' = crashes PROVE CompleteCycle
  OBVIOUS
<1>2. ~ BeginCycle /\ ~ Crash /\ ~ Tick /\ ~ UNCHANGED vars
  BY <1>1 DEF BeginCycle, Crash, Tick, vars
<1>3. \A t \in Ticker : ~ Polls(t)
  BY DEF Polls
<1>4. \A t \in Ticker : ~ Poll(t)
  BY <1>3 DEF Poll, PollFails, PollGarbled, PollUnchanged, PollStores, Receives
<1> QED BY <1>2, <1>4 DEF Next

LEMMA PriceableIsFetched ==
  ASSUME Inv, Priceable, NEW t \in Ticker
  PROVE  fetched[t] \in Quotes /\ collector[t].levels = fetched[t]
<1>1. t \in confirmed /\ collector[t].complete
  BY DEF Priceable
<1>2. fetched[t] = collector[t].hash
  BY <1>1 DEF Inv, CycleInv
<1>3. Known(collector[t])
  BY StreamFacts
<1> QED BY <1>1, <1>2, <1>3 DEF Known

\* What the detector accepts it priced on the books this cycle fetched (live.py:25-28).
THEOREM OnlyFetchedAccepted == Spec => AcceptedOnFetched
<1> DEFINE Step ==
      cycling /\ ~ cycling' /\ accepted' /\ crashes' = crashes =>
        \A t \in Ticker : fetched[t] \in Quotes /\ collector[t].levels = fetched[t]
<1>1. Inv /\ [Next]_vars => Step
  <2>1. CompleteCycle /\ accepted' => Priceable
    BY DEF CompleteCycle
  <2> QED BY <2>1, CyclesEnd, PriceableIsFetched
<1> HIDE DEF Step
<1>2. Inv /\ [Next]_vars => [Step]_vars
  BY <1>1
<1>3. Spec => [][Step]_vars
  BY <1>2, Invariance, PTL DEF Spec
<1> QED BY <1>3 DEF Step, AcceptedOnFetched

-----------------------------------------------------------------------------
(* The replay.                                                             *)

\* The book of one stream is what its last row says, once it is complete: a poll that
\* changes one changes the other, whatever is lost is lost of an incomplete book.
LastRow(rows, c) ==
  c.complete => /\ rows # <<>> /\ rows[Len(rows)].payload = c.levels
                /\ c.levels \in Quotes \ {AtBound}

BookInv == \A t \in Ticker : LastRow(archive[t], collector[t])

Replayed(rows) ==
  FoldLeft(LAMBDA b, row : Applied(b, row.payload), [levels |-> None, complete |-> FALSE], rows)

Unfolded(rows, f) ==
  f = [T \in SUBSET DOMAIN rows |->
        IF T = {} THEN [levels |-> None, complete |-> FALSE]
                  ELSE Applied(f[T \ {Max(T)}], rows[Max(T)].payload)]

\* A row is a whole book: what the last one says does not depend on those before it.
LEMMA ReplayOfLast ==
  ASSUME NEW rows \in Seq(Row), rows # <<>>,
         rows[Len(rows)].payload \in Quotes \ {AtBound}
  PROVE  Replayed(rows).complete /\ Replayed(rows).levels = rows[Len(rows)].payload
<1> DEFINE D == DOMAIN rows
           n == Len(rows)
           B == [levels : Payload \cup {None}, complete : BOOLEAN]
           base == [levels |-> None, complete |-> FALSE]
           pick == [T \in (SUBSET D) \ {{}} |-> Max(T)]
           step == [x \in D \X B |-> Applied(x[2], rows[x[1]].payload)]
<1>1. D = 1 .. n /\ n \in Nat /\ n # 0 /\ \A i \in D : rows[i] \in Row
  OBVIOUS
<1> HIDE DEF D, n
<1>2. ASSUME NEW T \in (SUBSET D) \ {{}} PROVE Max(T) \in T /\ \A k \in T : Max(T) >= k
  <2>1. T \in SUBSET (0 .. n) /\ T # {}
    BY <1>1
  <2> QED BY <1>1, <2>1, GreatestBounded
<1>3. ASSUME NEW b \in B, NEW i \in D PROVE Applied(b, rows[i].payload) \in B
  <2>1. rows[i].payload \in Payload
    BY <1>1 DEF Row
  <2> QED BY <2>1 DEF Applied
<1>4. base \in B
  OBVIOUS
<1>5. step \in [D \X B -> B]
  BY <1>3
<1>6. pick \in [(SUBSET D) \ {{}} -> D] /\ \A T \in (SUBSET D) \ {{}} : pick[T] \in T
  BY <1>2
<1>7. IsFiniteSet(D)
  BY <1>1, FS_Interval
<1>8. \E f \in [SUBSET D -> B] : IsFold(base, pick, step, D, f)
  <2> HIDE DEF base, pick, step, B
  <2> QED BY <1>4, <1>5, <1>6, <1>7, FoldExists
<1>9. \E f : Unfolded(rows, f)
  <2>1. PICK f \in [SUBSET D -> B] : IsFold(base, pick, step, D, f)
    BY <1>8
  <2>2. ASSUME NEW T \in SUBSET D
        PROVE  FoldStep(base, pick, step, f, T)
                 = IF T = {} THEN base ELSE Applied(f[T \ {Max(T)}], rows[Max(T)].payload)
    <3>1. CASE T = {}
      BY <3>1 DEF FoldStep
    <3>2. CASE T # {}
      <4>1. pick[T] = Max(T) /\ Max(T) \in D /\ T \ {Max(T)} \in SUBSET D
        BY <1>2, <3>2
      <4>2. <<Max(T), f[T \ {Max(T)}]>> \in D \X B
        BY <4>1
      <4> HIDE DEF B
      <4> QED BY <3>2, <4>1, <4>2 DEF FoldStep
    <3> QED BY <3>1, <3>2
  <2>3. Unfolded(rows, f)
    BY <2>1, <2>2 DEF IsFold, Unfolded, D
  <2> QED BY <2>3
<1> DEFINE it == CHOOSE f : Unfolded(rows, f)
<1>10. it = [T \in SUBSET D |->
              IF T = {} THEN base ELSE Applied(it[T \ {Max(T)}], rows[Max(T)].payload)]
  <2>1. Unfolded(rows, it)
    BY <1>9
  <2> HIDE DEF it
  <2> QED BY <2>1 DEF Unfolded, D
<1>11. Replayed(rows) = it[D]
  BY DEF Replayed, FoldLeft, MapThenFoldSet, Unfolded, D
<1> HIDE DEF it
<1>12. n \in D /\ D \in (SUBSET D) \ {{}}
  <2>1. n \in D
    BY <1>1
  <2> QED BY <2>1
<1>13. it[D] = Applied(it[D \ {n}], rows[n].payload)
  <2>1. Max(D) \in D /\ Max(D) >= n
    BY <1>2, <1>12
  <2>2. Max(D) = n
    BY <1>1, <2>1
  <2> QED BY <1>10, <1>12, <2>2
<1>14. rows[n].payload \in Quotes \ {AtBound}
  BY DEF n
<1>15. \A T \in SUBSET D : it[T] \in B
  <2> DEFINE Good == {T \in SUBSET D : it[T] \in B}
  <2>1. {} \in Good
    BY <1>4, <1>10
  <2>2. ASSUME NEW T \in (SUBSET D) \ {{}}, T \ {pick[T]} \in Good PROVE T \in Good
    <3>1. pick[T] = Max(T) /\ Max(T) \in D
      BY <1>2
    <3>2. it[T \ {Max(T)}] \in B
      BY <2>2, <3>1
    <3>3. it[T] = Applied(it[T \ {Max(T)}], rows[Max(T)].payload)
      BY <1>10
    <3> QED BY <1>3, <3>1, <3>2, <3>3
  <2> HIDE DEF Good, pick
  <2>3. SUBSET D \subseteq Good
    BY SMTT(20), <1>6, <1>7, <2>1, <2>2, SubsetsFrom
  <2> QED BY <2>3 DEF Good
<1>16. it[D \ {n}] \in B
  <2>1. D \ {n} \in SUBSET D
    OBVIOUS
  <2> QED BY <1>15, <2>1
<1> QED BY <1>11, <1>13, <1>14, <1>16 DEF Applied, n

LEMMA RebuildsLast == Inv /\ BookInv => ReplayRebuilds
<1> SUFFICES ASSUME Inv, BookInv, NEW t \in Ticker, collector[t].complete
             PROVE  Replay(t).complete /\ Replay(t).levels = collector[t].levels
  BY DEF ReplayRebuilds
<1>1. PICK rows : rows = archive[t]
  OBVIOUS
<1>2. /\ rows \in Seq(Row) /\ rows # <<>> /\ rows[Len(rows)].payload \in Quotes \ {AtBound}
      /\ rows[Len(rows)].payload = collector[t].levels
  BY <1>1 DEF Inv, TypeOK, BookInv, LastRow
<1>3. Replayed(rows).complete /\ Replayed(rows).levels = rows[Len(rows)].payload
  BY <1>2, ReplayOfLast
<1>4. Replay(t) = Replayed(rows)
  BY <1>1 DEF Replay, Replayed
<1> QED BY <1>2, <1>3, <1>4

LEMMA BookInvInit == Init => BookInv
  BY DEF Init, BookInv, LastRow, New

\* What a stored row says, the collector's book says: nothing is stored under a number the
\* stream already has, so that the row is the last.
LEMMA PollStoresLast ==
  ASSUME Inv, BookInv, NEW t \in Ticker, NEW payload \in Payload, PollStores(t, payload)
  PROVE  BookInv'
<1> DEFINE r == Resumed(t)
           n == r.sequence + 1
           b == [r EXCEPT !.sequence = n, !.hash = payload]
           c == Applied(b, payload)
           row == [sequence |-> n, payload |-> payload]
           rows == Append(archive[t], row)
<1>1. /\ r \in Collector /\ Below(archive[t], r.sequence) /\ r.sequence \in 0 .. MaxSequence
      /\ payload \in Payload \ {Garbled} /\ r.sequence < MaxSequence
  BY ResumedFacts DEF PollStores, Collector
<1>2. /\ archive' = [archive EXCEPT ![t] = Recorded(t, n, payload)]
      /\ collector' = [collector EXCEPT ![t] = c]
  BY DEF PollStores
<1>3. archive \in [Ticker -> Seq(Row)] /\ collector \in [Ticker -> Collector]
  BY DEF Inv, TypeOK
<1>4. Recorded(t, n, payload) = rows
  <2>1. n \in Int /\ n = Resumed(t).sequence + 1
    BY <1>1
  <2> HIDE DEF n
  <2> QED BY <2>1, RecordedAppends
<1>5. row \in Row /\ row.payload = payload
  <2>1. n \in 1 .. MaxSequence
    BY <1>1, CollectionConstants
  <2> QED BY <1>1, <2>1 DEF Row
<1>6. rows # <<>> /\ rows[Len(rows)] = row
  <2> HIDE DEF row
  <2>1. archive[t] \in Seq(Row)
    BY <1>3
  <2> QED BY <1>5, <2>1
<1>7. c.complete => c.levels = payload /\ payload \in Quotes \ {AtBound}
  BY <1>1 DEF Applied, Collector, Payload
<1> HIDE DEF c, rows, row
<1>8. LastRow(rows, c)
  BY <1>5, <1>6, <1>7 DEF LastRow
<1>9. \A u \in Ticker : /\ archive'[u] = IF u = t THEN rows ELSE archive[u]
                        /\ collector'[u] = IF u = t THEN c ELSE collector[u]
  BY <1>2, <1>3, <1>4
<1> QED BY <1>8, <1>9 DEF BookInv

\* Everything else keeps the rows, and the book or its being incomplete; a crash, which
\* loses rows, leaves no book.
LEMMA BookInvNext == Inv /\ BookInv /\ [Next]_vars => BookInv'
<1> SUFFICES ASSUME Inv, BookInv, [Next]_vars PROVE BookInv'
  OBVIOUS
<1>1. collector \in [Ticker -> Collector]
  BY DEF Inv, TypeOK
<1>2. ~ New.complete
  BY DEF New
<1>3. CASE BeginCycle
  BY <1>1, <1>2, <1>3 DEF BeginCycle, RefreshTo, BookInv, LastRow
<1>4. CASE \E t \in Ticker : PollFails(t)
  BY <1>1, <1>4, ResumedFacts DEF PollFails, BookInv, LastRow
<1>5. ASSUME NEW t \in Ticker, PollGarbled(t) PROVE BookInv'
  <2>1. Resumed(t) \in Collector
    BY ResumedFacts
  <2>2. /\ archive' = archive /\ ~ collector'[t].complete
        /\ \A u \in Ticker \ {t} : collector'[u] = collector[u]
    BY <1>1, <1>5, <2>1 DEF PollGarbled, Collector
  <2> QED BY <2>2 DEF BookInv, LastRow
<1>6. CASE \E t \in Ticker, payload \in Payload : PollUnchanged(t, payload)
  BY <1>6 DEF PollUnchanged, BookInv
<1>7. CASE \E t \in Ticker, payload \in Payload : PollStores(t, payload)
  BY <1>7, PollStoresLast
<1>8. CASE CompleteCycle \/ Tick \/ UNCHANGED vars
  BY <1>8 DEF CompleteCycle, Tick, vars, BookInv
<1>9. CASE Crash
  BY <1>2, <1>9 DEF Crash, BookInv, LastRow
<1> QED BY <1>3, <1>4, <1>5, <1>6, <1>7, <1>8, <1>9 DEF Next, Poll

\* FR-001: what the archive replays to is the book that is being priced (replay.py:3-7).
THEOREM ReplayIsFaithful == Spec => []ReplayRebuilds
<1>1. Init => BookInv
  BY BookInvInit
<1>2. Inv /\ BookInv /\ [Next]_vars => BookInv'
  BY BookInvNext
<1>3. Spec => []BookInv
  BY <1>1, <1>2, Invariance, PTL DEF Spec
<1> QED BY <1>3, Invariance, RebuildsLast, PTL

-----------------------------------------------------------------------------
(* The books of a stream.                                                  *)
(*                                                                         *)
(* Faithful is not inductive: that a delta takes the venue's book to the   *)
(* venue's book needs the stream to be coherent (Coherent), and the book   *)
(* to stand where the delta starts (Placed), which AtMostOneBehind and the *)
(* check of the number give.  Nor is NothingHeardIsMissing: a delta that   *)
(* comes again is one the tracker remembers, hence no later than its       *)
(* number (RecentIsPast), and that number is the book's own or that of the *)
(* delta rejected for its price (AheadIsImpossible).                       *)

\* A delta says how the book of the message before it changed.
Coherent ==
  \A n \in DOMAIN sent : sent[n].kind = "delta" =>
    /\ n - 1 \in DOMAIN sent
    /\ sent[n].book =
         [sent[n - 1].book EXCEPT ![sent[n].level] =
            sent[n - 1].book[sent[n].level] + sent[n].change]

\* Unless the subscription is another one by now, the book is where its number says.
Placed ==
  complete /\ ~confused /\ numbering = restarts =>
    sequence \in DOMAIN sent /\ mirror = sent[sequence].book

\* The tracker is at the number of a complete book, or one past it.
AtMostOneBehind == complete => last \in {sequence, sequence + 1}

RecentIsPast == \A i \in DOMAIN recent : recent[i] <= last

AheadIsImpossible ==
  complete /\ ~confused /\ numbering = restarts /\ last # sequence =>
    last \in DOMAIN sent /\ sent[last].impossible

DeliveryInv ==
  /\ StreamTypeOK
  /\ numbering <= restarts
  /\ complete => sequence # 0
  /\ Coherent
  /\ AtMostOneBehind
  /\ RecentIsPast
  /\ AheadIsImpossible
  /\ Placed
  /\ Faithful
  /\ NothingHeardIsMissing

-----------------------------------------------------------------------------
(* Types, action by action.                                                *)

LEMMA MessageIsTyped ==
  ASSUME StreamTypeOK, NEW n \in DOMAIN sent
  PROVE  /\ sent[n] \in Message /\ sent[n].book \in Book /\ sent[n].impossible \in BOOLEAN
         /\ sent[n].kind \in {"snapshot", "delta"}
         /\ sent[n].kind = "delta" => sent[n].level \in Level /\ sent[n].change \in Int
         /\ n \in Nat \ {0} /\ n <= Len(sent)
<1>1. sent \in Seq(Message)
  BY DEF StreamTypeOK
<1>2. n \in 1 .. Len(sent) /\ sent[n] \in Message
  BY <1>1
<1> QED
  BY <1>1, <1>2 DEF Message

LEMMA BookIsTyped == Book \subseteq [Level -> Nat] /\ (StreamConstants => Nothing \in Book)
<1>1. 0 .. MaxQuantity \subseteq Nat
  OBVIOUS
<1> QED
  BY <1>1 DEF Book, Nothing, StreamConstants

\* The tracker keeps its types, whatever it observes.
LEMMA ObserveIsTyped ==
  ASSUME StreamTypeOK, NEW n \in Nat, Observe(n)
  PROVE  last' \in Nat /\ recent' \in Seq(Nat) /\ Len(recent') <= Window /\ numbering' \in Nat
<1>1. recent \in Seq(Nat) /\ Len(recent) <= Window /\ Window \in Nat \ {0} /\ restarts \in Nat
  BY StreamConstants DEF StreamTypeOK, StreamConstants
<1>2. CASE Rewind(n)
  <2>1. <<n>> \in Seq(Nat) /\ Len(<<n>>) = 1
    OBVIOUS
  <2>2. last' = n /\ recent' = <<n>>
    BY <1>2 DEF Observe, Reset
  <2> QED
    BY <1>1, <2>1, <2>2 DEF Observe
<1>3. CASE ~Rewind(n) /\ Len(recent) = Window
  <2>1. recent # <<>>
    BY <1>1, <1>3
  <2>2. Tail(recent) \in Seq(Nat) /\ Len(Tail(recent)) = Window - 1
    BY <1>1, <1>3, <2>1, HeadTailProperties
  <2>3. recent' = Append(Tail(recent), n)
    BY <1>3 DEF Observe, Remember
  <2>4. recent' \in Seq(Nat) /\ Len(recent') = Window
    BY <1>1, <2>2, <2>3, AppendProperties
  <2> QED
    BY <1>1, <1>3, <2>4 DEF Observe
<1>4. CASE ~Rewind(n) /\ Len(recent) # Window
  <2>1. recent' = Append(recent, n)
    BY <1>4 DEF Observe, Remember
  <2>2. recent' \in Seq(Nat) /\ Len(recent') = Len(recent) + 1
    BY <1>1, <2>1, AppendProperties
  <2> QED
    BY <1>1, <1>4, <2>2 DEF Observe
<1> QED
  BY <1>2, <1>3, <1>4

\* What it remembers is never ahead of where it is.
LEMMA ObserveKeepsPast ==
  ASSUME StreamTypeOK, RecentIsPast, NEW n \in Nat, Observe(n), ~Duplicate(n)
  PROVE  RecentIsPast'
<1>1. recent \in Seq(Nat) /\ last \in Nat /\ Window \in Nat \ {0}
  BY StreamConstants DEF StreamTypeOK, StreamConstants
<1>2. CASE Rewind(n)
  BY <1>2 DEF Observe, Reset, RecentIsPast
<1>3. CASE ~Rewind(n)
  <2>1. last' = n /\ Remember(n) /\ n >= last
    BY <1>1, <1>3 DEF Observe, Rewind, First
  <2>2. CASE Len(recent) = Window
    <3>1. recent # <<>>
      BY <1>1, <2>2
    <3>2. recent' = Append(Tail(recent), n)
      BY <2>1, <2>2 DEF Remember
    <3>3. \A i \in DOMAIN recent' : recent'[i] = n \/ \E k \in DOMAIN recent : recent'[i] = recent[k]
      BY <1>1, <3>1, <3>2
    <3> QED
      BY <1>1, <2>1, <3>3 DEF RecentIsPast
  <2>3. CASE Len(recent) # Window
    <3>1. recent' = Append(recent, n)
      BY <2>1, <2>3 DEF Remember
    <3> QED
      BY <1>1, <2>1, <3>1 DEF RecentIsPast
  <2> QED
    BY <2>2, <2>3
<1> QED
  BY <1>2, <1>3

-----------------------------------------------------------------------------

LEMMA DeliveryInit == StreamInit => DeliveryInv
<1> SUFFICES ASSUME StreamInit
             PROVE  DeliveryInv
  OBVIOUS
<1>1. Nothing \in Book /\ Nothing \in [Level -> Nat]
  BY StreamConstants, BookIsTyped
<1>2. /\ sent = <<>> /\ <<>> \in Seq(Message)
      /\ recent = <<>> /\ recent \in Seq(Nat) /\ Len(recent) <= Window
  BY StreamConstants, EmptySeq DEF StreamInit, StreamConstants
<1>3. StreamTypeOK
  BY <1>1, <1>2 DEF StreamInit, StreamTypeOK
<1> QED
  BY <1>1, <1>2, <1>3
  DEF StreamInit, DeliveryInv, Coherent, AtMostOneBehind, RecentIsPast, AheadIsImpossible, Placed,
      Faithful, NothingHeardIsMissing

\* The venue sends a message: what is there stays, and the new one is coherent.
LEMMA SendKeeps ==
  ASSUME DeliveryInv, NEW m \in Message, Send(m),
         m.kind = "delta" =>
           /\ sent # <<>>
           /\ m.book = [sent[Len(sent)].book EXCEPT ![m.level] =
                          sent[Len(sent)].book[m.level] + m.change]
  PROVE  DeliveryInv'
<1>1. sent \in Seq(Message)
  BY DEF DeliveryInv, StreamTypeOK
<1>2. /\ sent' = Append(sent, m) /\ sent' \in Seq(Message)
      /\ DOMAIN sent = 1 .. Len(sent) /\ DOMAIN sent' = 1 .. Len(sent) + 1
      /\ sent'[Len(sent) + 1] = m
      /\ \A n \in DOMAIN sent : sent'[n] = sent[n]
  BY <1>1 DEF Send
<1>3. UNCHANGED <<restarts, last, recent, levels, sequence, complete, mirror, numbering, heard,
                  confused>>
  BY DEF Send, tracker, book
<1>4. Coherent'
  <2> SUFFICES ASSUME NEW n \in DOMAIN sent', sent'[n].kind = "delta"
               PROVE  /\ n - 1 \in DOMAIN sent'
                      /\ sent'[n].book = [sent'[n - 1].book EXCEPT ![sent'[n].level] =
                           sent'[n - 1].book[sent'[n].level] + sent'[n].change]
    BY DEF Coherent
  <2>1. CASE n \in DOMAIN sent
    <3>1. /\ n - 1 \in DOMAIN sent
          /\ sent[n].book = [sent[n - 1].book EXCEPT ![sent[n].level] =
                               sent[n - 1].book[sent[n].level] + sent[n].change]
      BY <1>2, <2>1 DEF DeliveryInv, Coherent
    <3>2. n - 1 \in DOMAIN sent'
      BY <1>1, <1>2, <3>1
    <3> QED
      BY <1>2, <2>1, <3>1, <3>2
  <2>2. CASE n = Len(sent) + 1
    <3>1. Len(sent) \in Nat \ {0}
      BY <1>1, <1>2, <2>2
    <3>2. n - 1 = Len(sent) /\ n - 1 \in DOMAIN sent /\ n - 1 \in DOMAIN sent'
      BY <1>2, <2>2, <3>1
    <3>3. sent'[n - 1] = sent[Len(sent)] /\ sent'[n] = m
      BY <1>2, <2>2, <3>2
    <3> QED
      BY <3>2, <3>3
  <2> QED
    BY <1>2, <2>1, <2>2
<1>5. StreamTypeOK'
  BY <1>2, <1>3 DEF DeliveryInv, StreamTypeOK
<1>6. Placed' /\ AheadIsImpossible'
  BY <1>1, <1>2, <1>3 DEF DeliveryInv, Placed, AheadIsImpossible
<1>7. /\ AtMostOneBehind' /\ RecentIsPast' /\ Faithful' /\ NothingHeardIsMissing'
      /\ (numbering <= restarts)' /\ (complete => sequence # 0)'
  BY <1>3 DEF DeliveryInv, AtMostOneBehind, RecentIsPast, Faithful, NothingHeardIsMissing
<1> QED
  BY <1>4, <1>5, <1>6, <1>7 DEF DeliveryInv

LEMMA ResubscribeKeeps == DeliveryInv /\ Resubscribe => DeliveryInv'
<1> SUFFICES ASSUME DeliveryInv, Resubscribe
             PROVE  DeliveryInv'
  OBVIOUS
<1>1. /\ sent' = <<>> /\ restarts' = restarts + 1
      /\ UNCHANGED <<last, recent, levels, sequence, complete, mirror, numbering, heard, confused>>
  BY DEF Resubscribe, tracker, book
<1>2. numbering \in Nat /\ restarts \in Nat /\ numbering <= restarts
  BY DEF DeliveryInv, StreamTypeOK
<1>3. Placed' /\ AheadIsImpossible' /\ (numbering <= restarts)'
  BY <1>1, <1>2 DEF Placed, AheadIsImpossible
<1>4. StreamTypeOK' /\ Coherent'
  BY <1>1 DEF DeliveryInv, StreamTypeOK, Coherent
<1> QED
  BY <1>1, <1>3, <1>4
  DEF DeliveryInv, AtMostOneBehind, RecentIsPast, Faithful, NothingHeardIsMissing

\* A delivered message leaves the stream as it is.
LEMMA DeliverKeeps ==
  ASSUME DeliveryInv, NEW n \in DOMAIN sent, Deliver(n)
  PROVE  DeliveryInv'
<1>1. UNCHANGED <<sent, restarts>> /\ Coherent'
  BY DEF Deliver, DeliveryInv, Coherent
<1>2. /\ sent[n].book \in Book /\ sent[n].impossible \in BOOLEAN
      /\ sent[n].kind = "delta" => sent[n].level \in Level /\ sent[n].change \in Int
      /\ n \in Nat \ {0}
  BY MessageIsTyped DEF DeliveryInv
<1>3. /\ sent \in Seq(Message) /\ restarts \in Nat /\ last \in Nat /\ sequence \in Nat
      /\ recent \in Seq(Nat) /\ Len(recent) <= Window
      /\ levels \in [Level -> Nat] /\ complete \in BOOLEAN /\ mirror \in Book
      /\ numbering \in Nat /\ heard \in Nat /\ confused \in BOOLEAN /\ numbering <= restarts
  BY DEF DeliveryInv, StreamTypeOK
<1>4. CASE Discard(n)
  <2>1. /\ UNCHANGED <<last, recent, levels, sequence, complete, mirror, numbering>>
        /\ confused' \in BOOLEAN /\ (~confused' => ~confused /\ numbering = restarts)
        /\ heard' \in Nat
    BY <1>2, <1>3, <1>4 DEF Discard, Takes, tracker, book
  \* What comes again is in the book, or was rejected for its price.
  <2>2. NothingHeardIsMissing'
    <3> SUFFICES ASSUME complete, ~confused' PROVE heard' <= sequence
      BY <2>1 DEF NothingHeardIsMissing
    <3>1. PICK i \in DOMAIN recent : recent[i] = n
      BY <1>4 DEF Discard, Duplicate, Range
    <3>2. n <= last /\ last \in {sequence, sequence + 1} /\ heard <= sequence
      BY <2>1, <3>1 DEF DeliveryInv, RecentIsPast, AtMostOneBehind, NothingHeardIsMissing
    <3>3. heard' \in {n, heard} /\ (heard' = n /\ n # heard => ~sent[n].impossible)
      BY <1>4, <2>1 DEF Discard, Takes
    <3>4. n = last /\ last # sequence => sent[n].impossible
      BY <2>1 DEF DeliveryInv, AheadIsImpossible
    <3> QED
      BY <1>2, <1>3, <3>2, <3>3, <3>4
  <2>3. StreamTypeOK' /\ AtMostOneBehind' /\ RecentIsPast' /\ AheadIsImpossible' /\ Placed' /\ Faithful'
    BY <1>1, <1>3, <2>1
    DEF DeliveryInv, StreamTypeOK, AtMostOneBehind, RecentIsPast, AheadIsImpossible, Placed, Faithful
  <2> QED
    BY <1>1, <1>3, <2>1, <2>2, <2>3 DEF DeliveryInv
<1>5. CASE ApplySnapshot(n)
  <2>1. /\ levels' = sent[n].book /\ sequence' = n /\ complete' = TRUE
        /\ last' = n /\ recent' = <<n>>
        /\ mirror' = sent[n].book /\ numbering' = restarts /\ heard' = 0 /\ confused' = FALSE
    BY <1>5 DEF ApplySnapshot, Reset
  <2>2. recent' \in Seq(Nat) /\ Len(recent') <= Window
    BY <1>2, <2>1, StreamConstants DEF StreamConstants
  <2>3. levels' \in [Level -> Nat]
    BY <1>2, <2>1, BookIsTyped
  <2>4. StreamTypeOK'
    BY <1>1, <1>2, <1>3, <2>1, <2>2, <2>3 DEF StreamTypeOK
  <2> QED
    BY <1>1, <1>2, <1>3, <2>1, <2>4
    DEF DeliveryInv, AtMostOneBehind, RecentIsPast, AheadIsImpossible, Placed, Faithful,
        NothingHeardIsMissing
<1>6. CASE RejectSnapshot(n) \/ LoseTrack(n) \/ DropDelta(n)
  <2>1. /\ Observe(n) /\ confused' \in BOOLEAN /\ complete' = FALSE /\ heard' = 0
        /\ ~Duplicate(n)
        /\ UNCHANGED <<levels, sequence, mirror>>
    <3>1. Observe(n) /\ Takes(n) /\ complete' = FALSE /\ UNCHANGED <<levels, sequence, mirror>>
      BY <1>3, <1>6 DEF RejectSnapshot, LoseTrack, DropDelta, book
    <3>2. ~Duplicate(n)
      BY <1>6 DEF RejectSnapshot, LoseTrack, DropDelta, IsSnapshot, IsDelta
    <3>3. confused' \in BOOLEAN /\ heard' = 0
      BY <1>3, <3>1 DEF Takes
    <3> QED
      BY <3>1, <3>2, <3>3
  <2>2. last' \in Nat /\ recent' \in Seq(Nat) /\ Len(recent') <= Window /\ RecentIsPast'
    BY <1>2, <2>1, ObserveIsTyped, ObserveKeepsPast DEF DeliveryInv
  <2>3. numbering' = restarts
    BY <2>1 DEF Observe
  <2>4. StreamTypeOK'
    BY <1>1, <1>3, <2>1, <2>2, <2>3 DEF StreamTypeOK
  <2> QED
    BY <1>1, <1>3, <2>1, <2>2, <2>3, <2>4
    DEF DeliveryInv, AtMostOneBehind, AheadIsImpossible, Placed, Faithful, NothingHeardIsMissing
<1>7. CASE ApplyDelta(n)
  <2>1. complete /\ sent[n].kind = "delta" /\ sequence # 0 /\ last \in {sequence, sequence + 1}
    BY <1>7 DEF ApplyDelta, IsDelta, DeliveryInv, AtMostOneBehind
  <2>2. ~First
    BY <1>3, <2>1 DEF First
  <2>3. InOrder(n) /\ ~Rewind(n)
    BY <1>2, <1>3, <1>7, <2>2 DEF ApplyDelta, IsDelta, Invalidates, InOrder, Gap, Rewind
  <2>4. Observe(n) /\ Takes(n)
    BY <1>7 DEF ApplyDelta, UpdateLevel, RejectDelta
  <2>5. last' = n /\ numbering' = restarts
    BY <2>3, <2>4 DEF Observe
  <2>6. confused' \in BOOLEAN /\ (~confused' => ~confused /\ numbering = restarts)
    BY <1>3, <2>3, <2>4 DEF Takes
  <2>7. recent' \in Seq(Nat) /\ Len(recent') <= Window /\ RecentIsPast'
    BY <1>2, <1>7, <2>4, ObserveIsTyped, ObserveKeepsPast DEF DeliveryInv, ApplyDelta, IsDelta
  <2>10. /\ heard' \in Nat /\ (complete' => heard' = n \/ heard' = heard)
         /\ (complete' /\ sent[n].impossible => heard' = heard)
    BY <1>2, <1>3, <2>4 DEF Takes
  <2>8. CASE ~Accepts(n)
    <3>1. /\ complete' = (Follows(n) /\ sent[n].impossible)
          /\ UNCHANGED <<levels, sequence, mirror>>
      BY <1>7, <2>8 DEF ApplyDelta, RejectDelta
    <3>2. complete' \in BOOLEAN /\ (complete' => n = sequence + 1 /\ sent[n].impossible)
      BY <1>2, <3>1 DEF Follows
    <3>3. StreamTypeOK'
      BY <1>1, <1>2, <1>3, <2>5, <2>6, <2>7, <2>10, <3>1, <3>2 DEF StreamTypeOK
    <3>4. Placed'
      BY <1>1, <2>1, <2>6, <3>1 DEF DeliveryInv, Placed
    <3>5. AtMostOneBehind' /\ Faithful' /\ (complete => sequence # 0)'
      BY <2>1, <2>5, <2>6, <3>1, <3>2 DEF DeliveryInv, AtMostOneBehind, Faithful
    <3>6. AheadIsImpossible'
      BY <1>1, <2>5, <3>2 DEF AheadIsImpossible
    <3>7. NothingHeardIsMissing'
      BY <2>1, <2>6, <2>10, <3>1, <3>2 DEF DeliveryInv, NothingHeardIsMissing
    <3> QED
      BY <1>1, <1>3, <2>5, <2>7, <3>3, <3>4, <3>5, <3>6, <3>7 DEF DeliveryInv
  <2>9. CASE Accepts(n)
    <3>1. /\ n = sequence + 1 /\ Updated(n) >= 0
          /\ levels' = [levels EXCEPT ![sent[n].level] = Updated(n)]
          /\ sequence' = n /\ mirror' = sent[n].book /\ complete' = complete
      BY <1>7, <2>9 DEF ApplyDelta, UpdateLevel, Accepts, Follows
    <3>2. Updated(n) \in Nat /\ Updated(n) = levels[sent[n].level] + sent[n].change
      BY <1>2, <1>3, <2>1, <3>1 DEF Updated
    <3>3. levels' \in [Level -> Nat]
      BY <1>2, <1>3, <2>1, <3>1, <3>2
    <3>4. StreamTypeOK'
      BY <1>1, <1>2, <1>3, <2>5, <2>6, <2>7, <2>10, <3>1, <3>3 DEF StreamTypeOK
    <3>5. ASSUME ~confused'
          PROVE  levels' = sent[n].book
      <4>1. levels = mirror /\ sequence \in DOMAIN sent /\ mirror = sent[sequence].book
        BY <2>1, <2>6, <3>5 DEF DeliveryInv, Faithful, Placed
      <4>2. n - 1 = sequence
        BY <1>3, <3>1
      <4>3. sent[n].book = [sent[sequence].book EXCEPT ![sent[n].level] =
                              sent[sequence].book[sent[n].level] + sent[n].change]
        BY <2>1, <4>2 DEF DeliveryInv, Coherent
      <4> QED
        BY <3>1, <3>2, <4>1, <4>3
    <3>6. Faithful' /\ Placed'
      BY <1>1, <3>1, <3>5 DEF Faithful, Placed
    <3>7. AtMostOneBehind' /\ AheadIsImpossible' /\ (complete => sequence # 0)'
      BY <1>2, <2>5, <3>1 DEF AtMostOneBehind, AheadIsImpossible
    <3>8. NothingHeardIsMissing'
      BY <1>3, <2>1, <2>6, <2>10, <3>1 DEF DeliveryInv, NothingHeardIsMissing
    <3> QED
      BY <1>1, <1>3, <2>5, <2>7, <3>4, <3>6, <3>7, <3>8 DEF DeliveryInv
  <2> QED
    BY <2>8, <2>9
<1> QED
  BY <1>4, <1>5, <1>6, <1>7 DEF Deliver

LEMMA DeliveryNext == DeliveryInv /\ [StreamNext]_streamVars => DeliveryInv'
<1> SUFFICES ASSUME DeliveryInv, [StreamNext]_streamVars
             PROVE  DeliveryInv'
  OBVIOUS
<1>1. sent \in Seq(Message)
  BY DEF DeliveryInv, StreamTypeOK
<1>2. CASE SendSnapshot
  <2>1. PICK b \in Book, impossible \in BOOLEAN :
          Send([kind |-> "snapshot", impossible |-> impossible, book |-> b])
    BY <1>2 DEF SendSnapshot
  <2>2. [kind |-> "snapshot", impossible |-> impossible, book |-> b] \in Message
    BY DEF Message
  <2> QED
    BY <2>1, <2>2, SendKeeps
<1>3. CASE SendDelta
  <2>1. sent # <<>> /\ Len(sent) \in DOMAIN sent
    BY <1>1, <1>3 DEF SendDelta
  <2> DEFINE before == sent[Len(sent)].book
             message(l, q, impossible) ==
               [kind |-> "delta", level |-> l, change |-> q - before[l],
                impossible |-> impossible, book |-> [before EXCEPT ![l] = q]]
  <2>2. before \in Book
    BY <2>1, MessageIsTyped DEF DeliveryInv
  <2>3. PICK l \in Level, q \in 0 .. MaxQuantity, impossible \in BOOLEAN :
          Send(message(l, q, impossible))
    BY <1>3 DEF SendDelta
  <2> DEFINE m == message(l, q, impossible)
  <2>4. before[l] \in Nat /\ q \in Nat /\ q = before[l] + (q - before[l])
    BY <2>2, StreamConstants DEF Book, StreamConstants
  <2>5. [before EXCEPT ![l] = q] \in Book /\ q - before[l] \in Int
    BY <2>2, <2>4 DEF Book
  <2>6. m \in Message
    BY <2>5 DEF Message
  <2>7. m.book = [before EXCEPT ![m.level] = before[m.level] + m.change]
    BY <2>4
  <2> QED
    BY <2>1, <2>3, <2>6, <2>7, SendKeeps
<1>4. CASE Resubscribe
  BY <1>4, ResubscribeKeeps
<1>5. CASE \E n \in DOMAIN sent : Deliver(n)
  BY <1>5, DeliverKeeps
<1>6. CASE UNCHANGED streamVars
  BY <1>6
  DEF streamVars, tracker, book, DeliveryInv, StreamTypeOK, Coherent, AtMostOneBehind, RecentIsPast,
      AheadIsImpossible, Placed, Faithful, NothingHeardIsMissing
<1> QED
  BY <1>2, <1>3, <1>4, <1>5, <1>6 DEF StreamNext

LEMMA DeliveryHolds == StreamSpec => []DeliveryInv
<1> QED
  BY DeliveryInit, DeliveryNext, PTL DEF StreamSpec

-----------------------------------------------------------------------------

\* Every variable keeps its type.
THEOREM BooksTypeCorrect == StreamSpec => []StreamTypeOK
<1>1. DeliveryInv => StreamTypeOK
  BY DEF DeliveryInv
<1> QED
  BY <1>1, DeliveryHolds, PTL

\* A complete book is the venue's book as of its number, through losses, repeats and late
\* messages (book.py:67-77).
THEOREM CompleteIsFaithful == StreamSpec => []Faithful
<1>1. DeliveryInv => Faithful
  BY DEF DeliveryInv
<1> QED
  BY <1>1, DeliveryHolds, PTL

\* A complete book has taken every delta it was told of since its snapshot, but one whose
\* price it could not (reconstruct.py:102-143).
THEOREM NothingIsMissed == StreamSpec => []NothingHeardIsMissing
<1>1. DeliveryInv => NothingHeardIsMissing
  BY DEF DeliveryInv
<1> QED
  BY <1>1, DeliveryHolds, PTL

=============================================================================
