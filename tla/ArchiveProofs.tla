---------------------------- MODULE ArchiveProofs ----------------------------
(***************************************************************************)
(* Proofs about Archive, for any markets, payloads and times: what the     *)
(* analyses of Research say of the archive the collectors leave.           *)
(***************************************************************************)
EXTENDS Archive, PricingProofs

-----------------------------------------------------------------------------
(* Coverage.  Gaps split the span of the stamps into pieces, each from a    *)
(* start to the next end.                                                  *)

\* No gap lies between two stamps.
Held(stamps, threshold, x, y) ==
  ~ \E g \in GapsBetween(stamps, threshold) : x <= g[1] /\ g[2] <= y

HeldSpans(stamps, threshold) ==
  {r[2] - r[1] : r \in {s \in stamps \X stamps :
                          s[1] <= s[2] /\ Held(stamps, threshold, s[1], s[2])}}

IsGreatest(x, S) == x \in S /\ \A y \in S : x >= y

LEMMA GreatestIsMax == ASSUME NEW S \in SUBSET Int, NEW x, IsGreatest(x, S) PROVE Max(S) = x
<1>1. PICK n \in Int : n = x
  BY DEF IsGreatest
<1>2. \A y \in S : y \in Int /\ n >= y
  BY <1>1 DEF IsGreatest
<1>3. ASSUME NEW m, m \in S, \A y \in S : m >= y PROVE m = n
  <2>1. m \in Int /\ n >= m /\ m >= n
    BY <1>1, <1>2, <1>3 DEF IsGreatest
  <2> QED BY <2>1
<1>4. n \in S /\ \A y \in S : n >= y
  BY <1>1, <1>2 DEF IsGreatest
<1> QED BY <1>1, <1>3, <1>4 DEF Max

\* Stamps between a first and a last, up to a moment: the gaps between them, and the one
\* since the last.
AreGaps(stamps, threshold, first, latest, at, gaps, end) ==
  /\ stamps \in SUBSET Int /\ IsFiniteSet(stamps) /\ threshold \in Nat /\ at \in Int
  /\ first \in stamps /\ latest \in stamps /\ latest <= at
  /\ \A s \in stamps : first <= s /\ s <= latest
  /\ gaps = GapsBetween(stamps, threshold)
              \cup (IF at - latest > threshold THEN {<<latest, at>>} ELSE {})
  /\ end = IF at - latest > threshold THEN at ELSE latest

\* Where the pieces start and where they end.
Starts(first, gaps) == {first} \cup {g[2] : g \in gaps}
Ends(gaps, end) == {g[1] : g \in gaps} \cup {end}
NextEnd(gaps, end, s) == Min({e \in Ends(gaps, end) : e >= s})

LEMMA GapsAre ==
  ASSUME NEW stamps, NEW threshold, NEW first, NEW latest, NEW at, NEW gaps, NEW end,
         AreGaps(stamps, threshold, first, latest, at, gaps, end), NEW g \in gaps
  PROVE  /\ g[1] \in stamps /\ g[1] \in Int /\ g[2] \in Int /\ g[1] < g[2]
         /\ first <= g[1] /\ g[2] <= end
         /\ \A s \in stamps : s <= g[1] \/ g[2] <= s
         /\ \/ g \in GapsBetween(stamps, threshold) /\ g[2] \in stamps
            \/ g[2] = at /\ end = at /\ g[1] = latest
<1>1. /\ stamps \in SUBSET Int /\ threshold \in Nat /\ at \in Int
      /\ first \in Int /\ latest \in Int /\ latest \in stamps /\ latest <= at
      /\ \A s \in stamps : s \in Int /\ first <= s /\ s <= latest
      /\ end = IF at - latest > threshold THEN at ELSE latest
  BY DEF AreGaps
<1>2. CASE g \in GapsBetween(stamps, threshold)
  <2>1. /\ g[1] \in stamps /\ g[2] \in stamps /\ g[2] - g[1] > threshold
        /\ ~ \E s \in stamps : g[1] < s /\ s < g[2]
    BY <1>2 DEF GapsBetween
  <2>2. PICK x \in Int : x = g[1]
    BY <1>1, <2>1
  <2>3. PICK y \in Int : y = g[2]
    BY <1>1, <2>1
  <2>4. y - x > threshold /\ first <= x /\ y <= latest /\ \A s \in stamps : ~ (x < s /\ s < y)
    BY <1>1, <2>1, <2>2, <2>3
  <2>5. x < y /\ y <= end /\ \A s \in stamps : s <= x \/ y <= s
    BY <1>1, <2>4
  <2> QED BY <1>2, <2>1, <2>2, <2>3, <2>4, <2>5
<1>3. CASE g \notin GapsBetween(stamps, threshold)
  <2>1. g = <<latest, at>> /\ at - latest > threshold
    BY <1>3 DEF AreGaps
  <2>2. end = at /\ latest < at
    BY <1>1, <2>1
  <2> QED BY <1>1, <2>1, <2>2
<1> QED BY <1>2, <1>3

\* Every piece comes to an end.
LEMMA NextEndIs ==
  ASSUME NEW stamps, NEW threshold, NEW first, NEW latest, NEW at, NEW gaps, NEW end,
         AreGaps(stamps, threshold, first, latest, at, gaps, end),
         NEW s \in Starts(first, gaps)
  PROVE  /\ s \in Int /\ first <= s /\ s <= end
         /\ NextEnd(gaps, end, s) \in Ends(gaps, end)
         /\ NextEnd(gaps, end, s) \in Int
         /\ s <= NextEnd(gaps, end, s) /\ NextEnd(gaps, end, s) <= end
         /\ \A e \in Ends(gaps, end) : e \in Int /\ (e >= s => NextEnd(gaps, end, s) <= e)
<1> DEFINE later == {e \in Ends(gaps, end) : e >= s}
<1>1. first \in Int /\ end \in Int /\ first <= end
  BY DEF AreGaps
<1>2. \A g \in gaps : g[1] \in Int /\ g[2] \in Int /\ first <= g[1] /\ g[1] < g[2] /\ g[2] <= end
  BY GapsAre
<1>3. s \in Int /\ first <= s /\ s <= end
  <2>1. CASE s = first
    BY <1>1, <2>1
  <2>2. CASE s # first
    <3>1. PICK g \in gaps : s = g[2]
      BY <2>2 DEF Starts
    <3> QED BY <1>1, <1>2, <3>1
  <2> QED BY <2>1, <2>2
<1>4. Ends(gaps, end) \in SUBSET (first .. end)
  <2>1. ASSUME NEW e \in Ends(gaps, end) PROVE e \in first .. end
    <3>1. CASE e = end
      BY <1>1, <3>1
    <3>2. CASE e # end
      <4>1. PICK g \in gaps : e = g[1]
        BY <3>2 DEF Ends
      <4> QED BY <1>1, <1>2, <4>1
    <3> QED BY <3>1, <3>2
  <2> QED BY <2>1
<1>5. later \in SUBSET Int /\ later # {} /\ IsFiniteSet(later)
  <2>1. end \in later
    BY <1>3 DEF Ends
  <2>2. IsFiniteSet(first .. end)
    BY <1>1, FS_Interval
  <2>3. later \in SUBSET (first .. end)
    BY <1>4
  <2>4. IsFiniteSet(later)
    BY <2>2, <2>3, FS_Subset
  <2> QED BY <1>1, <2>1, <2>3, <2>4
<1> HIDE DEF later
<1>6. Min(later) \in later /\ \A e \in later : Min(later) <= e
  BY <1>5, MinOfIntegers
<1>7. NextEnd(gaps, end, s) = Min(later)
  BY DEF NextEnd, later
<1>8. Min(later) \in Ends(gaps, end) /\ Min(later) >= s
  BY <1>6 DEF later
<1>9. PICK m \in Int : m = Min(later)
  BY <1>4, <1>8
<1>10. m \in first .. end /\ m >= s
  BY <1>4, <1>8, <1>9
<1>11. \A e \in Ends(gaps, end) : e \in Int /\ (e >= s => m <= e)
  BY <1>4, <1>6, <1>9 DEF later
<1> QED BY <1>1, <1>3, <1>7, <1>8, <1>9, <1>10, <1>11

\* A piece is a stretch that no gap interrupts, or nothing since the last gap began.
LEMMA PiecesHold ==
  ASSUME NEW stamps, NEW threshold, NEW first, NEW latest, NEW at, NEW gaps, NEW end,
         AreGaps(stamps, threshold, first, latest, at, gaps, end),
         NEW s \in Starts(first, gaps)
  PROVE  \/ NextEnd(gaps, end, s) = s
         \/ /\ s \in stamps /\ NextEnd(gaps, end, s) \in stamps
            /\ Held(stamps, threshold, s, NextEnd(gaps, end, s))
<1> DEFINE e == NextEnd(gaps, end, s)
<1>1. /\ s \in Int /\ s <= end /\ e \in Ends(gaps, end) /\ e \in Int /\ s <= e /\ e <= end
      /\ \A x \in Ends(gaps, end) : x \in Int /\ (x >= s => e <= x)
  BY NextEndIs
<1> HIDE DEF e
<1>2. /\ stamps \in SUBSET Int /\ at \in Int /\ latest \in stamps /\ first \in stamps
      /\ latest \in Int
      /\ end = IF at - latest > threshold THEN at ELSE latest
      /\ gaps = GapsBetween(stamps, threshold)
                  \cup (IF at - latest > threshold THEN {<<latest, at>>} ELSE {})
      /\ \A y \in stamps : y <= latest
      /\ threshold \in Nat
  BY DEF AreGaps
<1>3. Held(stamps, threshold, s, e)
  <2>1. ASSUME NEW g \in GapsBetween(stamps, threshold), s <= g[1], g[2] <= e PROVE FALSE
    <3>1. g \in gaps
      BY <1>2
    <3>2. g[1] \in Int /\ g[2] \in Int /\ g[1] < g[2]
      BY <3>1, GapsAre
    <3>3. g[1] \in Ends(gaps, end)
      BY <3>1 DEF Ends
    <3>4. e <= g[1]
      BY <1>1, <2>1, <3>2, <3>3
    <3> QED BY <1>1, <2>1, <3>2, <3>4
  <2> QED BY <2>1 DEF Held
<1>4. s \in stamps \/ (s = at /\ end = at)
  <2>1. CASE s = first
    BY <1>2, <2>1
  <2>2. CASE s # first
    <3>1. PICK g \in gaps : s = g[2]
      BY <2>2 DEF Starts
    <3> QED BY <3>1, GapsAre
  <2> QED BY <2>1, <2>2
<1>5. CASE s = at /\ end = at
  BY <1>1, <1>5 DEF e
<1>6. CASE s \in stamps /\ at - latest > threshold
  <2>1. <<latest, at>> \in gaps
    BY <1>2, <1>6
  <2>2. latest \in Ends(gaps, end)
    <3>1. <<latest, at>>[1] = latest
      OBVIOUS
    <3> QED BY <2>1, <3>1 DEF Ends
  <2>3. s <= latest
    BY <1>2, <1>6
  <2>4. e <= latest
    BY <1>1, <1>2, <2>2, <2>3
  <2>5. e # end
    <3>1. end = at
      BY <1>2, <1>6
    <3> QED BY <1>1, <1>2, <1>6, <2>4, <3>1
  <2>6. PICK g \in gaps : e = g[1]
    BY <1>1, <2>5 DEF Ends
  <2>7. e \in stamps
    BY <2>6, GapsAre
  <2> QED BY <1>3, <1>6, <2>7 DEF e
<1>7. CASE s \in stamps /\ ~ at - latest > threshold
  <2>1. end = latest
    BY <1>2, <1>7
  <2>2. e \in stamps
    <3>1. CASE e = end
      BY <1>2, <2>1, <3>1
    <3>2. CASE e # end
      <4>1. PICK g \in gaps : e = g[1]
        BY <1>1, <3>2 DEF Ends
      <4> QED BY <4>1, GapsAre
    <3> QED BY <3>1, <3>2
  <2> QED BY <1>3, <1>7, <2>2 DEF e
<1> QED BY <1>4, <1>5, <1>6, <1>7

\* A stretch that no gap interrupts lies within the piece whose start is the last before it.
LEMMA HeldIsInPiece ==
  ASSUME NEW stamps, NEW threshold, NEW first, NEW latest, NEW at, NEW gaps, NEW end,
         AreGaps(stamps, threshold, first, latest, at, gaps, end),
         NEW x \in stamps, NEW y \in stamps, x <= y, Held(stamps, threshold, x, y)
  PROVE  \E s \in Starts(first, gaps) : y - x <= NextEnd(gaps, end, s) - s
<1> DEFINE before == {s \in Starts(first, gaps) : s <= x}
<1>1. /\ stamps \in SUBSET Int /\ first \in Int /\ latest \in Int /\ at \in Int /\ latest <= at
      /\ end = IF at - latest > threshold THEN at ELSE latest
      /\ x \in Int /\ y \in Int /\ first <= x /\ y <= latest /\ threshold \in Nat
  BY DEF AreGaps
<1>2. \A s \in Starts(first, gaps) : s \in Int /\ first <= s
  BY NextEndIs
<1>3. before \in SUBSET Int /\ before # {} /\ IsFiniteSet(before)
  <2>1. first \in before
    BY <1>1 DEF Starts
  <2>2. before \in SUBSET (first .. x)
    BY <1>1, <1>2
  <2>3. IsFiniteSet(first .. x)
    BY <1>1, FS_Interval
  <2>4. IsFiniteSet(before)
    BY <2>2, <2>3, FS_Subset
  <2> QED BY <1>2, <2>1, <2>4
<1> HIDE DEF before
<1>4. PICK s : s = Max(before)
  OBVIOUS
<1>5. s \in before /\ \A z \in before : s >= z
  BY <1>3, <1>4, MaxOfIntegers
<1>6. s \in Starts(first, gaps) /\ s <= x /\ s \in Int
  BY <1>2, <1>5 DEF before
<1>7. PICK e : e = NextEnd(gaps, end, s)
  OBVIOUS
<1>8. e \in Ends(gaps, end) /\ e \in Int /\ s <= e
  BY <1>6, <1>7, NextEndIs
<1>9. y <= e
  <2>1. CASE e = end
    BY <1>1, <2>1
  <2>2. CASE e # end
    <3>1. PICK g \in gaps : e = g[1]
      BY <1>8, <2>2 DEF Ends
    <3>2. /\ g[1] \in Int /\ g[2] \in Int /\ g[1] < g[2]
          /\ \A z \in stamps : z <= g[1] \/ g[2] <= z
          /\ \/ g \in GapsBetween(stamps, threshold)
             \/ g[1] = latest
      BY <3>1, GapsAre
    <3>3. CASE g[1] = latest
      BY <1>1, <3>1, <3>3
    <3>4. CASE g \in GapsBetween(stamps, threshold)
      <4>1. ~ (x <= g[1] /\ g[2] <= y)
        BY <3>4 DEF Held
      <4>2. CASE ~ x <= g[1]
        <5>1. g[2] <= x
          BY <3>2, <4>2
        <5>2. g[2] \in Starts(first, gaps)
          BY DEF Starts
        <5>3. g[2] \in before
          BY <5>1, <5>2 DEF before
        <5>4. s >= g[2]
          BY <1>5, <5>3
        <5> QED BY <1>6, <1>8, <3>1, <3>2, <5>4
      <4>3. CASE x <= g[1]
        <5>1. ~ g[2] <= y
          BY <4>1, <4>3
        <5>2. y <= g[1]
          BY <3>2, <5>1
        <5> QED BY <3>1, <5>2
      <4> QED BY <4>2, <4>3
    <3> QED BY <3>2, <3>3, <3>4
  <2> QED BY <2>1, <2>2
<1>10. y - x <= e - s
  BY <1>1, <1>6, <1>8, <1>9
<1> QED BY <1>6, <1>7, <1>10

\* The longest piece is the longest stretch that no gap interrupts.
LEMMA LongestPiece ==
  ASSUME NEW stamps, NEW threshold, NEW first, NEW latest, NEW at, NEW gaps, NEW end,
         AreGaps(stamps, threshold, first, latest, at, gaps, end)
  PROVE  Max({NextEnd(gaps, end, s) - s : s \in Starts(first, gaps)})
           = Max({0} \cup HeldSpans(stamps, threshold))
<1> DEFINE pieces == {NextEnd(gaps, end, s) - s : s \in Starts(first, gaps)}
           spans == {0} \cup HeldSpans(stamps, threshold)
<1>1. \A s \in Starts(first, gaps) :
        /\ s \in Int /\ first <= s
        /\ NextEnd(gaps, end, s) \in Int /\ s <= NextEnd(gaps, end, s)
        /\ NextEnd(gaps, end, s) <= end
  BY NextEndIs
<1>2. first \in Int /\ end \in Int /\ stamps \in SUBSET Int
  BY DEF AreGaps
<1>3. pieces \in SUBSET (0 .. end - first)
  <2>1. ASSUME NEW s \in Starts(first, gaps)
        PROVE  NextEnd(gaps, end, s) - s \in 0 .. end - first
    BY <1>1, <1>2
  <2> QED BY <2>1
<1>4. pieces \in SUBSET Int /\ pieces # {} /\ IsFiniteSet(pieces)
  <2>1. first \in Starts(first, gaps)
    BY DEF Starts
  <2>2. end - first \in Int
    BY <1>2
  <2>3. IsFiniteSet(0 .. end - first)
    BY <2>2, FS_Interval
  <2>4. IsFiniteSet(pieces)
    <3> HIDE DEF pieces
    <3> QED BY <1>3, <2>3, FS_Subset
  <2>5. pieces \in SUBSET Int
    BY <1>1
  <2> QED BY <2>1, <2>4, <2>5
<1>5. PICK m : m = Max(pieces)
  OBVIOUS
<1>6. m \in pieces /\ \A d \in pieces : m >= d
  <2> HIDE DEF pieces
  <2> QED BY <1>4, <1>5, MaxOfIntegers
<1>7. PICK s \in Starts(first, gaps) : m = NextEnd(gaps, end, s) - s
  BY <1>6
<1>8. m \in Int /\ 0 <= m
  BY <1>1, <1>7
<1>9. m \in spans
  <2>1. CASE NextEnd(gaps, end, s) = s
    <3>1. m = 0
      BY <1>1, <1>7, <2>1
    <3> QED BY <3>1
  <2>2. CASE /\ s \in stamps /\ NextEnd(gaps, end, s) \in stamps
             /\ Held(stamps, threshold, s, NextEnd(gaps, end, s))
    <3> DEFINE r == <<s, NextEnd(gaps, end, s)>>
    <3>1. /\ r \in stamps \X stamps /\ r[1] <= r[2] /\ Held(stamps, threshold, r[1], r[2])
          /\ m = r[2] - r[1]
      BY <1>1, <1>7, <2>2
    <3> HIDE DEF r
    <3> QED BY <3>1 DEF HeldSpans
  <2> QED BY <2>1, <2>2, PiecesHold
<1>10. ASSUME NEW d \in spans PROVE d \in Int /\ m >= d
  <2>1. CASE d = 0
    BY <1>8, <2>1
  <2>2. CASE d # 0
    <3>1. PICK r \in stamps \X stamps :
            d = r[2] - r[1] /\ r[1] <= r[2] /\ Held(stamps, threshold, r[1], r[2])
      BY <2>2 DEF HeldSpans
    <3>2. PICK x \in stamps : x = r[1]
      BY <3>1
    <3>3. PICK y \in stamps : y = r[2]
      BY <3>1
    <3>4. x \in Int /\ y \in Int /\ x <= y /\ Held(stamps, threshold, x, y) /\ d = y - x
      BY <1>2, <3>1, <3>2, <3>3
    <3>5. PICK z \in Starts(first, gaps) : y - x <= NextEnd(gaps, end, z) - z
      BY <3>4, HeldIsInPiece
    <3>6. PICK e \in Int : e = NextEnd(gaps, end, z)
      BY <1>1
    <3>7. z \in Int
      BY <1>1
    <3>8. m >= e - z
      BY <1>6, <3>6
    <3> QED BY <1>8, <3>4, <3>5, <3>6, <3>7, <3>8
  <2> QED BY <2>1, <2>2
<1>11. spans \in SUBSET Int /\ IsGreatest(m, spans)
  BY <1>9, <1>10 DEF IsGreatest
<1>12. Max(spans) = m
  <2> HIDE DEF spans
  <2> QED BY <1>11, GreatestIsMax
<1> QED BY <1>5, <1>12

-----------------------------------------------------------------------------
(* The samples are of the past.                                            *)

Sample == [stream : Poller \X Ticker, observed : Nat]

SampleInv ==
  /\ now \in Nat
  /\ samples \in Seq(Sample)
  /\ \A i \in DOMAIN samples : samples[i].observed <= now

LEMMA SamplesObserved ==
  ASSUME SampleInv
  PROVE  /\ now \in Nat /\ samples \in Seq(Sample)
         /\ \A i \in DOMAIN samples : samples[i].observed \in Nat /\ samples[i].observed <= now
<1>1. /\ now \in Nat /\ samples \in Seq(Sample)
      /\ \A i \in DOMAIN samples : samples[i].observed <= now
  BY DEF SampleInv
<1>2. \A i \in DOMAIN samples : samples[i] \in Sample
  BY <1>1
<1>3. \A sample \in Sample : sample.observed \in Nat
  BY DEF Sample
<1> QED BY <1>1, <1>2, <1>3

LEMMA LegOrderIs ==
  /\ Len(LegOrder) \in Nat /\ DOMAIN LegOrder = 1 .. Len(LegOrder)
  /\ \A i \in 1 .. Len(LegOrder) : LegOrder[i] \in Ticker
<1>1. LegOrder \in Seq(DOMAIN EventOf)
  BY ArchiveConstants
<1>2. Len(LegOrder) \in Nat /\ DOMAIN LegOrder = 1 .. Len(LegOrder)
  BY <1>1
<1>3. \A i \in DOMAIN LegOrder : LegOrder[i] \in Ticker
  BY DEF Ticker, ToSet
<1> QED BY <1>2, <1>3

LEMMA RouteIs ==
  ASSUME NEW p \in Poller
  PROVE  /\ Len(Route[p]) \in Nat /\ DOMAIN Route[p] = 1 .. Len(Route[p])
         /\ \A i \in 1 .. Len(Route[p]) : Route[p][i] \in Ticker
<1>1. Route[p] \in Seq(Ticker)
  BY ArchiveConstants
<1> QED BY <1>1

LEMMA SamplesAreNow ==
  ASSUME now \in Nat, NEW p \in Poller
  PROVE  /\ HealthSamples(p) \in Seq(Sample)
         /\ \A i \in DOMAIN HealthSamples(p) : HealthSamples(p)[i].observed = now
<1> DEFINE all == [i \in DOMAIN Route[p] |-> [stream |-> <<p, Route[p][i]>>, observed |-> now]]
<1>1. PICK n \in Nat : n = Len(Route[p]) /\ DOMAIN Route[p] = 1 .. n
  BY RouteIs
<1>2. all \in Seq(Sample)
  <2>1. all \in [1 .. n -> Sample]
    BY <1>1, RouteIs DEF Sample
  <2> HIDE DEF all
  <2> QED BY <2>1
<1>3. \A i \in DOMAIN all : all[i].observed = now
  OBVIOUS
<1>4. HealthSamples(p) = <<>> \/ HealthSamples(p) = all
  BY DEF HealthSamples
<1>5. CASE HealthSamples(p) = <<>>
  BY <1>5
<1>6. CASE HealthSamples(p) = all
  BY <1>2, <1>3, <1>6
<1> QED BY <1>4, <1>5, <1>6

LEMMA SampleInit == ArchiveInit => SampleInv
  BY DEF ArchiveInit, SampleInv

LEMMA SampleNext == SampleInv /\ [ArchiveNext]_archiveVars => SampleInv'
<1> SUFFICES ASSUME SampleInv, [ArchiveNext]_archiveVars PROVE SampleInv'
  OBVIOUS
<1>1. ASSUME NEW p \in Poller, EndCycle(p) PROVE SampleInv'
  <2>1. /\ samples' = samples \o HealthSamples(p) /\ now' = now
        /\ samples \in Seq(Sample) /\ now \in Nat
        /\ \A i \in DOMAIN samples : samples[i].observed <= now
    BY <1>1 DEF EndCycle, SampleInv
  <2>2. /\ HealthSamples(p) \in Seq(Sample)
        /\ \A i \in DOMAIN HealthSamples(p) : HealthSamples(p)[i].observed = now
    BY <2>1, SamplesAreNow
  <2>3. PICK more \in Seq(Sample) : more = HealthSamples(p)
    BY <2>2
  <2>4. samples \o more \in Seq(Sample)
    BY <2>1
  <2>5. ASSUME NEW i \in DOMAIN (samples \o more)
        PROVE  (samples \o more)[i].observed <= now
    <3>1. \/ i \in DOMAIN samples /\ (samples \o more)[i] = samples[i]
          \/ \E k \in DOMAIN more : (samples \o more)[i] = more[k]
      <4>1. /\ Len(samples) \in Nat /\ Len(more) \in Nat
            /\ DOMAIN samples = 1 .. Len(samples) /\ DOMAIN more = 1 .. Len(more)
            /\ DOMAIN (samples \o more) = 1 .. Len(samples) + Len(more)
        BY <2>1, <2>4
      <4>2. CASE i <= Len(samples)
        BY <2>1, <4>1, <4>2
      <4>3. CASE ~ i <= Len(samples)
        <5>1. i - Len(samples) \in DOMAIN more /\ (samples \o more)[i] = more[i - Len(samples)]
          BY <2>1, <4>1, <4>3
        <5> QED BY <5>1
      <4> QED BY <4>2, <4>3
    <3>2. \A k \in DOMAIN more : more[k].observed <= now
      BY <2>1, <2>2, <2>3
    <3> QED BY <2>1, <3>1, <3>2
  <2> QED BY <2>1, <2>3, <2>4, <2>5 DEF SampleInv
<1>2. CASE Tick
  <2>1. /\ now \in Nat /\ samples \in Seq(Sample)
        /\ \A i \in DOMAIN samples : samples[i].observed \in Nat /\ samples[i].observed <= now
    BY SamplesObserved
  <2>2. now' = now + 1 /\ samples' = samples
    BY <1>2 DEF Tick
  <2>3. \A i \in DOMAIN samples : samples[i].observed <= now + 1
    BY <2>1
  <2> QED BY <2>1, <2>2, <2>3 DEF SampleInv
<1>3. CASE UNCHANGED <<now, samples>>
  BY <1>3 DEF SampleInv
<1>4. CASE \E p \in Poller :
             \/ BeginCycle(p) \/ Restart(p)
             \/ \E t \in Ticker : \/ PollFails(p, t) \/ PollUnchanged(p, t)
                                  \/ \E book \in Payloads[t] : PollStores(p, t, book)
  <2>1. UNCHANGED <<now, samples>>
    BY <1>4 DEF BeginCycle, Restart, PollFails, PollUnchanged, PollStores, Polls
  <2> QED BY <1>3, <2>1
<1>5. CASE UNCHANGED archiveVars
  BY <1>3, <1>5 DEF archiveVars
<1> QED BY <1>1, <1>2, <1>4, <1>5 DEF ArchiveNext

LEMMA SampleHolds == ArchiveSpec => []SampleInv
  BY SampleInit, SampleNext, PTL DEF ArchiveSpec

LEMMA StampsAre ==
  ASSUME SampleInv
  PROVE  /\ Stamps(samples) \in SUBSET Int /\ IsFiniteSet(Stamps(samples))
         /\ \A s \in Stamps(samples) : s <= now
<1>1. /\ now \in Nat /\ samples \in Seq(Sample)
      /\ \A i \in DOMAIN samples : samples[i].observed \in Nat /\ samples[i].observed <= now
  BY SamplesObserved
<1>2. Stamps(samples) \in SUBSET (0 .. now)
  BY <1>1 DEF Stamps
<1>3. IsFiniteSet(0 .. now)
  BY <1>1, FS_Interval
<1>4. IsFiniteSet(Stamps(samples))
  BY <1>2, <1>3, FS_Subset
<1> QED BY <1>1, <1>2, <1>4

\* The stretch the coverage gate looks at is the longest without a gap, for any samples of
\* any streams (coverage.py:121-148).
THEOREM GapsSplitCoverage == ArchiveSpec => []GapsSplitTheRun
<1>1. ASSUME SampleInv PROVE GapsSplitTheRun
  <2> DEFINE stamps == Stamps(samples)
             held(x, y) == ~ \E g \in GapsBetween(stamps, GapThreshold) : x <= g[1] /\ g[2] <= y
             spans == {r[2] - r[1] : r \in {s \in stamps \X stamps : s[1] <= s[2] /\ held(s[1], s[2])}}
  <2>1. stamps \in SUBSET Int /\ IsFiniteSet(stamps) /\ \A s \in stamps : s <= now
    BY <1>1, StampsAre
  <2>2. now \in Int /\ GapThreshold \in Nat
    BY <1>1, ArchiveConstants DEF SampleInv
  <2>3. spans = HeldSpans(stamps, GapThreshold)
    BY DEF HeldSpans, Held
  <2>4. LongestContinuous(samples, now, GapThreshold) = Max({0} \cup spans)
    <3> HIDE DEF stamps
    <3>1. CASE stamps = {}
      <4>1. LongestContinuous(samples, now, GapThreshold) = 0
        BY <3>1 DEF LongestContinuous, stamps
      <4>2. {0} \cup spans = {0}
        BY <3>1
      <4>3. {0} \in SUBSET Int /\ IsGreatest(0, {0})
        BY DEF IsGreatest
      <4>4. Max({0}) = 0
        BY <4>3, GreatestIsMax
      <4> QED BY <4>1, <4>2, <4>4
    <3>2. CASE stamps # {}
      <4> DEFINE first == Min(stamps)
                 latest == Max(stamps)
                 gaps == CollectorGaps(samples, now, GapThreshold)
                 end == IF now - latest > GapThreshold THEN now ELSE latest
      <4>1. first \in stamps /\ \A s \in stamps : first <= s
        BY <2>1, <3>2, MinOfIntegers
      <4>2. latest \in stamps /\ \A s \in stamps : latest >= s
        BY <2>1, <3>2, MaxOfIntegers
      <4>3. gaps = GapsBetween(stamps, GapThreshold)
                     \cup (IF now - latest > GapThreshold THEN {<<latest, now>>} ELSE {})
        BY <3>2 DEF CollectorGaps, stamps
      <4>4. LongestContinuous(samples, now, GapThreshold)
              = Max({NextEnd(gaps, end, s) - s : s \in Starts(first, gaps)})
        BY <3>2 DEF LongestContinuous, NextEnd, Starts, Ends, stamps
      <4> HIDE DEF first, latest, gaps
      <4>5. \A s \in stamps : first <= s /\ s <= latest
        BY <2>1, <4>1, <4>2
      <4>6. AreGaps(stamps, GapThreshold, first, latest, now, gaps, end)
        BY <2>1, <2>2, <4>1, <4>2, <4>3, <4>5 DEF AreGaps
      <4> HIDE DEF end
      <4>7. Max({NextEnd(gaps, end, s) - s : s \in Starts(first, gaps)})
              = Max({0} \cup HeldSpans(stamps, GapThreshold))
        BY <4>6, LongestPiece
      <4> QED BY <2>3, <4>4, <4>7
    <3> QED BY <3>1, <3>2
  <2> QED BY <2>4 DEF GapsSplitTheRun
<1> QED BY <1>1, SampleHolds, PTL

-----------------------------------------------------------------------------
(* What was answered.  Every answer that was not stored finds one that was, *)
(* of its poller and market, with no other book in between.                 *)

Shown == UNION {Payloads[t] : t \in Ticker}
Row == [ticker : Ticker, captured : Nat, book : Shown]
Status == {"pending", "kept", "lost"}
Reply == [poller : Poller, ticker : Ticker, at : Nat, book : Shown,
          stored : BOOLEAN, status : Status]

\* Two answers are of one poller and market; from one to the other it saw one book there.
Same(S, i, k) == S[i].poller = S[k].poller /\ S[i].ticker = S[k].ticker
Steady(S, i, k) == \A m \in i .. k : Same(S, m, i) => S[m].book = S[i].book

\* Answer j stored the book that answer k found, and is no worse off than k.
IsFound(S, j, k) ==
  /\ j \in DOMAIN S /\ j < k /\ S[j].stored
  /\ Same(S, j, k) /\ Steady(S, j, k) /\ S[j].book = S[k].book
  /\ S[k].status # "lost" => S[j].status # "lost"
  /\ S[k].status = "kept" => S[j].status = "kept"

InTime(S, at) ==
  /\ \A i, k \in DOMAIN S : i <= k => S[i].at <= S[k].at
  /\ \A k \in DOMAIN S : S[k].at <= at

Tells(S, at) ==
  /\ at \in Nat /\ S \in Seq(Reply) /\ InTime(S, at)
  /\ \A k \in DOMAIN S : S[k].stored \/ \E j : IsFound(S, j, k)

\* Answer j stored the book, and its poller has seen no other in that market since.
Holds(S, p, t, book, j) ==
  /\ j \in DOMAIN S /\ S[j].poller = p /\ S[j].ticker = t
  /\ S[j].stored /\ S[j].status # "lost" /\ S[j].book = book
  /\ \A m \in DOMAIN S : j <= m /\ S[m].poller = p /\ S[m].ticker = t => S[m].book = book

LEMMA AppendIs ==
  ASSUME NEW X, NEW s \in Seq(X), NEW x \in X
  PROVE  /\ Append(s, x) \in Seq(X) /\ Len(s) \in Nat
         /\ DOMAIN s = 1 .. Len(s) /\ DOMAIN Append(s, x) = 1 .. Len(s) + 1
         /\ \A i \in DOMAIN s : i \in DOMAIN Append(s, x) /\ Append(s, x)[i] = s[i]
         /\ Append(s, x)[Len(s) + 1] = x
         /\ \A i \in DOMAIN Append(s, x) : i \in DOMAIN s \/ i = Len(s) + 1
  OBVIOUS

LEMMA TimePasses ==
  ASSUME NEW S, NEW at, Tells(S, at) PROVE Tells(S, at + 1)
<1>1. at \in Nat /\ S \in Seq(Reply) /\ InTime(S, at)
  BY DEF Tells
<1>2. \A k \in DOMAIN S : S[k].at \in Nat
  <2>1. \A k \in DOMAIN S : S[k] \in Reply
    BY <1>1
  <2> QED BY <2>1 DEF Reply
<1>3. \A k \in DOMAIN S : S[k].at <= at + 1
  BY <1>1, <1>2 DEF InTime
<1>4. InTime(S, at + 1)
  BY <1>1, <1>3 DEF InTime
<1> QED BY <1>1, <1>4 DEF Tells

\* What was found before an answer is found after it.
LEMMA FoundKept ==
  ASSUME NEW S \in Seq(Reply), NEW a \in Reply, NEW j, NEW k \in DOMAIN S, IsFound(S, j, k)
  PROVE  IsFound(Append(S, a), j, k)
<1>1. PICK S2 : S2 = Append(S, a)
  OBVIOUS
<1>2. PICK n \in Nat : DOMAIN S = 1 .. n /\ DOMAIN S2 = 1 .. n + 1
                       /\ \A i \in 1 .. n : S2[i] = S[i]
  BY <1>1, AppendIs
<1>3. j \in DOMAIN S /\ j \in DOMAIN S2 /\ k \in DOMAIN S2 /\ S2[j] = S[j] /\ S2[k] = S[k]
  BY <1>2 DEF IsFound
<1>4. Same(S2, j, k)
  BY <1>3 DEF IsFound, Same
<1>5. Steady(S2, j, k)
  <2>1. ASSUME NEW m \in j .. k, Same(S2, m, j) PROVE S2[m].book = S2[j].book
    <3>1. m \in 1 .. n
      BY <1>2, <1>3
    <3>2. Same(S, m, j)
      BY <1>2, <1>3, <2>1, <3>1 DEF Same
    <3>3. S[m].book = S[j].book
      BY <3>2 DEF IsFound, Steady
    <3> QED BY <1>2, <1>3, <3>1, <3>3
  <2> QED BY <2>1 DEF Steady
<1>6. IsFound(S2, j, k)
  BY <1>3, <1>4, <1>5 DEF IsFound
<1> QED BY <1>1, <1>6

LEMMA AppendTells ==
  ASSUME NEW S, NEW at, Tells(S, at), NEW a \in Reply, a.at = at,
         a.stored \/ \E j : IsFound(Append(S, a), j, Len(S) + 1)
  PROVE  Tells(Append(S, a), at)
<1>1. at \in Nat /\ S \in Seq(Reply) /\ InTime(S, at)
  BY DEF Tells
<1>2. PICK S2 : S2 = Append(S, a)
  OBVIOUS
<1>3. PICK n \in Nat : /\ n = Len(S) /\ S2 \in Seq(Reply)
                       /\ DOMAIN S = 1 .. n /\ DOMAIN S2 = 1 .. n + 1
                       /\ \A i \in 1 .. n : S2[i] = S[i]
                       /\ S2[n + 1] = a
  BY <1>1, <1>2, AppendIs
<1>4. \A i \in 1 .. n : S2[i].at <= at
  BY <1>1, <1>3 DEF InTime
<1>5. InTime(S2, at)
  <2>1. ASSUME NEW i \in 1 .. n + 1, NEW k \in 1 .. n + 1, i <= k PROVE S2[i].at <= S2[k].at
    <3>1. CASE k = n + 1
      <4>1. S2[k].at = at /\ (i = n + 1 \/ i \in 1 .. n)
        BY <1>3, <3>1
      <4> QED BY <1>1, <1>3, <1>4, <4>1
    <3>2. CASE k # n + 1
      <4>1. i \in 1 .. n /\ k \in 1 .. n
        BY <2>1, <3>2
      <4> QED BY <1>1, <1>3, <2>1, <4>1 DEF InTime
    <3> QED BY <3>1, <3>2
  <2>2. ASSUME NEW k \in 1 .. n + 1 PROVE S2[k].at <= at
    <3>1. k \in 1 .. n \/ k = n + 1
      OBVIOUS
    <3> QED BY <1>1, <1>3, <1>4, <3>1
  <2> QED BY <1>3, <2>1, <2>2 DEF InTime
<1>6. ASSUME NEW k \in DOMAIN S2 PROVE S2[k].stored \/ \E j : IsFound(S2, j, k)
  <2>1. CASE k \in 1 .. n
    <3>1. S[k].stored \/ \E j : IsFound(S, j, k)
      BY <1>3, <2>1 DEF Tells
    <3>2. CASE S[k].stored
      BY <1>3, <2>1, <3>2
    <3>3. CASE \E j : IsFound(S, j, k)
      <4>1. PICK j : IsFound(S, j, k)
        BY <3>3
      <4>2. IsFound(S2, j, k)
        BY <1>1, <1>2, <1>3, <2>1, <4>1, FoundKept
      <4> QED BY <4>2
    <3> QED BY <3>1, <3>2, <3>3
  <2>2. CASE k = n + 1
    BY <1>2, <1>3, <2>2
  <2> QED BY <1>3, <1>6, <2>1, <2>2
<1> QED BY <1>1, <1>2, <1>3, <1>5, <1>6 DEF Tells

\* A book that is held is found by an answer with it.
LEMMA HeldIsFound ==
  ASSUME NEW S \in Seq(Reply), NEW a \in Reply, NEW j,
         Holds(S, a.poller, a.ticker, a.book, j), a.status = "pending"
  PROVE  IsFound(Append(S, a), j, Len(S) + 1)
<1>1. PICK S2 : S2 = Append(S, a)
  OBVIOUS
<1>2. PICK n \in Nat : /\ n = Len(S) /\ DOMAIN S = 1 .. n /\ DOMAIN S2 = 1 .. n + 1
                       /\ \A i \in 1 .. n : S2[i] = S[i]
                       /\ S2[n + 1] = a
  BY <1>1, AppendIs
<1>3. j \in 1 .. n /\ S2[j] = S[j]
  BY <1>2 DEF Holds
<1>4. j < n + 1 /\ Same(S2, j, n + 1) /\ S2[j].book = S2[n + 1].book
  BY <1>2, <1>3 DEF Holds, Same
<1>5. Steady(S2, j, n + 1)
  <2>1. ASSUME NEW m \in j .. n + 1, Same(S2, m, j) PROVE S2[m].book = S2[j].book
    <3>1. CASE m = n + 1
      BY <1>4, <3>1
    <3>2. CASE m # n + 1
      <4>1. m \in 1 .. n /\ j <= m
        BY <1>3, <3>2
      <4>2. S[m].poller = a.poller /\ S[m].ticker = a.ticker
        BY <1>2, <1>3, <2>1, <4>1 DEF Same, Holds
      <4>3. S[m].book = a.book
        BY <1>2, <4>1, <4>2 DEF Holds
      <4> QED BY <1>2, <1>3, <4>1, <4>3 DEF Holds
    <3> QED BY <3>1, <3>2
  <2> QED BY <2>1 DEF Steady
<1>6. S2[j].stored /\ S2[j].status # "lost" /\ S2[n + 1].status # "kept"
  BY <1>2, <1>3 DEF Holds
<1>7. j \in DOMAIN S2
  BY <1>2, <1>3
<1>8. IsFound(S2, j, n + 1)
  BY <1>4, <1>5, <1>6, <1>7 DEF IsFound
<1> QED BY <1>1, <1>2, <1>8

\* It is held still after that answer, and after any other of another poller or market.
LEMMA HeldAfter ==
  ASSUME NEW S \in Seq(Reply), NEW a \in Reply, NEW p, NEW t, NEW book, NEW j,
         Holds(S, p, t, book, j), a.poller = p /\ a.ticker = t => a.book = book
  PROVE  Holds(Append(S, a), p, t, book, j)
<1>1. PICK S2 : S2 = Append(S, a)
  OBVIOUS
<1>2. PICK n \in Nat : /\ DOMAIN S = 1 .. n /\ DOMAIN S2 = 1 .. n + 1
                       /\ \A i \in 1 .. n : S2[i] = S[i]
                       /\ S2[n + 1] = a
  BY <1>1, AppendIs
<1>3. j \in 1 .. n /\ S2[j] = S[j] /\ j \in DOMAIN S2
  BY <1>2 DEF Holds
<1>4. ASSUME NEW m \in 1 .. n + 1, j <= m, S2[m].poller = p, S2[m].ticker = t
      PROVE  S2[m].book = book
  <2>1. CASE m = n + 1
    BY <1>2, <1>4, <2>1
  <2>2. CASE m # n + 1
    <3>1. m \in 1 .. n
      BY <2>2
    <3> QED BY <1>2, <1>4, <3>1 DEF Holds
  <2> QED BY <2>1, <2>2
<1>5. Holds(S2, p, t, book, j)
  BY <1>2, <1>3, <1>4 DEF Holds
<1> QED BY <1>1, <1>5

\* What is stored is held.
LEMMA StoredIsHeld ==
  ASSUME NEW S \in Seq(Reply), NEW a \in Reply, a.stored, a.status = "pending"
  PROVE  Holds(Append(S, a), a.poller, a.ticker, a.book, Len(S) + 1)
<1>1. PICK S2 : S2 = Append(S, a)
  OBVIOUS
<1>2. PICK n \in Nat : n = Len(S) /\ DOMAIN S2 = 1 .. n + 1 /\ S2[n + 1] = a
  BY <1>1, AppendIs
<1>3. \A m \in 1 .. n + 1 : n + 1 <= m => m = n + 1
  OBVIOUS
<1>4. n + 1 \in 1 .. n + 1 /\ S2[n + 1].status # "lost"
  BY <1>2
<1>5. Holds(S2, a.poller, a.ticker, a.book, n + 1)
  BY <1>2, <1>3, <1>4 DEF Holds
<1> QED BY <1>1, <1>2, <1>5

\* The end of a transaction settles what was pending of its poller, and nothing else.
Closes(S, S2, p, status) ==
  /\ S2 \in Seq(Reply) /\ DOMAIN S2 = DOMAIN S
  /\ \A i \in DOMAIN S :
       /\ S2[i].poller = S[i].poller /\ S2[i].ticker = S[i].ticker /\ S2[i].at = S[i].at
       /\ S2[i].book = S[i].book /\ S2[i].stored = S[i].stored
       /\ S[i].poller = p /\ S[i].status = "pending" => S2[i].status = status
       /\ ~ (S[i].poller = p /\ S[i].status = "pending") => S2[i].status = S[i].status

LEMMA EndedIs ==
  ASSUME NEW p \in Poller, NEW status \in Status, answers \in Seq(Reply)
  PROVE  Closes(answers, Ended(p, status), p, status)
<1>1. PICK S \in Seq(Reply), n \in Nat : S = answers /\ DOMAIN S = 1 .. n
  OBVIOUS
<1>2. PICK S2 : S2 = Ended(p, status)
  OBVIOUS
<1>3. S2 = [i \in 1 .. n |-> IF S[i].poller = p /\ S[i].status = "pending"
                             THEN [S[i] EXCEPT !.status = status] ELSE S[i]]
  BY <1>1, <1>2 DEF Ended
<1>4. \A i \in 1 .. n : S[i] \in Reply
  BY <1>1
<1>5. ASSUME NEW i \in 1 .. n
      PROVE  /\ S2[i] \in Reply
             /\ S2[i].poller = S[i].poller /\ S2[i].ticker = S[i].ticker /\ S2[i].at = S[i].at
             /\ S2[i].book = S[i].book /\ S2[i].stored = S[i].stored
             /\ S[i].poller = p /\ S[i].status = "pending" => S2[i].status = status
             /\ ~ (S[i].poller = p /\ S[i].status = "pending") => S2[i].status = S[i].status
  <2>1. PICK r \in Reply : r = S[i]
    BY <1>4
  <2>2. CASE r.poller = p /\ r.status = "pending"
    <3>1. S2[i] = [r EXCEPT !.status = status]
      BY <1>3, <2>1, <2>2
    <3> QED BY <2>1, <2>2, <3>1 DEF Reply
  <2>3. CASE ~ (r.poller = p /\ r.status = "pending")
    <3>1. S2[i] = r
      BY <1>3, <2>1, <2>3
    <3> QED BY <2>1, <2>3, <3>1
  <2> QED BY <2>2, <2>3
<1>6. DOMAIN S2 = 1 .. n
  BY <1>3
<1>7. S2 \in Seq(Reply)
  <2>1. S2 \in [1 .. n -> Reply]
    BY <1>3, <1>5
  <2> QED BY <2>1
<1>8. Closes(S, S2, p, status)
  BY <1>1, <1>5, <1>6, <1>7 DEF Closes
<1> QED BY <1>1, <1>2, <1>8

LEMMA ClosedTells ==
  ASSUME NEW S, NEW S2, NEW at, Tells(S, at), NEW p, NEW status \in {"kept", "lost"},
         Closes(S, S2, p, status)
  PROVE  Tells(S2, at)
<1>1. at \in Nat /\ S \in Seq(Reply) /\ InTime(S, at) /\ S2 \in Seq(Reply) /\ DOMAIN S2 = DOMAIN S
  BY DEF Tells, Closes
<1>2. PICK n \in Nat : DOMAIN S = 1 .. n
  BY <1>1
<1>3. InTime(S2, at)
  BY <1>1 DEF InTime, Closes
<1>4. ASSUME NEW k \in DOMAIN S, NEW j, IsFound(S, j, k) PROVE IsFound(S2, j, k)
  <2>1. /\ j \in DOMAIN S /\ j < k /\ S[j].stored /\ S[j].book = S[k].book
        /\ S[j].poller = S[k].poller /\ S[j].ticker = S[k].ticker
    BY <1>4 DEF IsFound, Same
  <2>2. Same(S2, j, k) /\ S2[j].stored /\ S2[j].book = S2[k].book
    BY <1>4, <2>1 DEF Same, Closes
  <2>3. Steady(S2, j, k)
    <3>1. ASSUME NEW m \in j .. k, Same(S2, m, j) PROVE S2[m].book = S2[j].book
      <4>1. m \in DOMAIN S
        BY <1>2, <1>4, <2>1
      <4>2. Same(S, m, j)
        BY <2>1, <3>1, <4>1 DEF Same, Closes
      <4>3. S[m].book = S[j].book
        BY <1>4, <4>2 DEF IsFound, Steady
      <4> QED BY <2>1, <4>1, <4>3 DEF Closes
    <3> QED BY <3>1 DEF Steady
  <2>4. /\ S[k].status # "lost" => S[j].status # "lost"
        /\ S[k].status = "kept" => S[j].status = "kept"
    BY <1>4 DEF IsFound
  <2>5. S[k].status \in Status /\ S[j].status \in Status
    <3>1. S[k] \in Reply /\ S[j] \in Reply
      BY <1>1, <1>4, <2>1
    <3> QED BY <3>1 DEF Reply
  <2>6. /\ S[k].poller = p /\ S[k].status = "pending" => S2[k].status = status
        /\ ~ (S[k].poller = p /\ S[k].status = "pending") => S2[k].status = S[k].status
        /\ S[j].poller = p /\ S[j].status = "pending" => S2[j].status = status
        /\ ~ (S[j].poller = p /\ S[j].status = "pending") => S2[j].status = S[j].status
    BY <1>4, <2>1 DEF Closes
  <2>7. /\ S2[k].status # "lost" => S2[j].status # "lost"
        /\ S2[k].status = "kept" => S2[j].status = "kept"
    BY ONLY <2>1, <2>4, <2>5, <2>6, status \in {"kept", "lost"} DEF Status
  <2>8. j \in DOMAIN S2 /\ j < k
    BY <1>1, <2>1
  <2> QED BY <2>2, <2>3, <2>7, <2>8 DEF IsFound
<1>5. ASSUME NEW k \in DOMAIN S2 PROVE S2[k].stored \/ \E j : IsFound(S2, j, k)
  <2>1. k \in DOMAIN S
    BY <1>1
  <2>2. S[k].stored \/ \E j : IsFound(S, j, k)
    BY <2>1 DEF Tells
  <2>3. CASE S[k].stored
    BY <2>1, <2>3 DEF Closes
  <2>4. CASE \E j : IsFound(S, j, k)
    <3>1. PICK j : IsFound(S, j, k)
      BY <2>4
    <3>2. IsFound(S2, j, k)
      BY <1>4, <2>1, <3>1
    <3> QED BY <3>2
  <2> QED BY <2>2, <2>3, <2>4
<1> QED BY <1>1, <1>3, <1>5 DEF Tells

\* A commit, or the loss of another poller's transaction, leaves what is held.
LEMMA HeldWhenClosed ==
  ASSUME NEW S, NEW S2, NEW p, NEW status, Closes(S, S2, p, status),
         NEW q, NEW t, NEW book, NEW j, Holds(S, q, t, book, j), status = "kept" \/ q # p
  PROVE  Holds(S2, q, t, book, j)
<1>1. /\ j \in DOMAIN S /\ S[j].poller = q /\ S[j].ticker = t
      /\ S[j].stored /\ S[j].status # "lost" /\ S[j].book = book
  BY DEF Holds
<1>2. S2[j].status # "lost"
  BY <1>1 DEF Closes
<1>3. /\ j \in DOMAIN S2 /\ S2[j].poller = q /\ S2[j].ticker = t
      /\ S2[j].stored /\ S2[j].book = book
  BY <1>1 DEF Closes
<1>4. ASSUME NEW m \in DOMAIN S2, j <= m, S2[m].poller = q, S2[m].ticker = t
      PROVE  S2[m].book = book
  BY <1>4 DEF Closes, Holds
<1> QED BY <1>2, <1>3, <1>4 DEF Holds

-----------------------------------------------------------------------------
(* The invariant of the cycles.                                            *)

Poll == [started : Nat, completed : Nat, confirmed : SUBSET Ticker]
CycleRecord ==
  [started : Nat \cup {Never}, next : Nat, confirmed : SUBSET Ticker, running : BOOLEAN]

CycleType ==
  /\ polls \in Seq(Poll)
  /\ cycle \in [Poller -> CycleRecord]
  /\ \A p \in Poller : cycle[p].running => cycle[p].started \in Nat /\ cycle[p].started <= now
  /\ lastBook \in [Poller -> [Ticker -> {<<>>} \cup {<<book>> : book \in Shown}]]

\* What a collector stored last it holds, committed or not.
Remembers(S, last) ==
  \A p \in Poller, t \in Ticker : \A book \in Shown :
    last[p][t] = <<book>> => \E j : Holds(S, p, t, book, j)

\* What a cycle confirms was seen while it lasted.
SawIn(S, poll) ==
  \A t \in poll.confirmed :
    \E k \in DOMAIN S : /\ S[k].status = "kept" /\ S[k].ticker = t
                        /\ poll.started <= S[k].at /\ S[k].at <= poll.completed
SeesIn(S, p, c) ==
  \A t \in c.confirmed :
    \E k \in DOMAIN S : /\ S[k].poller = p /\ S[k].status = "pending" /\ S[k].ticker = t
                        /\ c.started <= S[k].at

HistoryInv ==
  /\ CycleType
  /\ Tells(answers, now)
  /\ Remembers(answers, lastBook)
  /\ \A i \in DOMAIN polls : SawIn(answers, polls[i])
  /\ \A p \in Poller : SeesIn(answers, p, cycle[p])

LEMMA OverIs ==
  ASSUME NEW p \in Poller, NEW started \in Nat \cup {Never}
  PROVE  /\ Over(p, started) \in CycleRecord /\ Over(p, started).started = started
         /\ Over(p, started).confirmed = {} /\ ~ Over(p, started).running
  BY RouteIs DEF Over, CycleRecord

LEMMA HistoryInit == ArchiveInit => HistoryInv
<1> SUFFICES ASSUME ArchiveInit PROVE HistoryInv
  OBVIOUS
<1>1. /\ now = 0 /\ answers = <<>> /\ polls = <<>>
      /\ cycle = [p \in Poller |-> Over(p, Never)]
      /\ lastBook = [p \in Poller |-> [t \in Ticker |-> <<>>]]
  BY DEF ArchiveInit
<1>2. \A p \in Poller : /\ cycle[p] \in CycleRecord /\ cycle[p].confirmed = {}
                        /\ ~ cycle[p].running
  BY <1>1, OverIs
<1>3. polls \in Seq(Poll) /\ answers \in Seq(Reply) /\ DOMAIN polls = {} /\ DOMAIN answers = {}
  BY <1>1
<1>4. lastBook \in [Poller -> [Ticker -> {<<>>} \cup {<<book>> : book \in Shown}]]
  BY <1>1
<1>5. cycle \in [Poller -> CycleRecord]
  BY <1>1, <1>2
<1>6. CycleType
  BY <1>2, <1>3, <1>4, <1>5 DEF CycleType
<1>7. Tells(answers, now)
  BY <1>1, <1>3 DEF Tells, InTime
<1>8. Remembers(answers, lastBook)
  <2>1. \A p \in Poller, t \in Ticker : lastBook[p][t] = <<>>
    BY <1>1
  <2>2. \A book : <<>> # <<book>>
    OBVIOUS
  <2> QED BY <2>1, <2>2 DEF Remembers
<1>9. \A p \in Poller : SeesIn(answers, p, cycle[p])
  BY <1>2 DEF SeesIn
<1> QED BY <1>3, <1>6, <1>7, <1>8, <1>9 DEF HistoryInv

\* A poll under way, of the market whose turn it is.
LEMMA PollingIs ==
  ASSUME HistoryInv, NEW p \in Poller, NEW t \in Ticker, Polls(p, t)
  PROVE  /\ cycle[p] \in CycleRecord /\ cycle[p].running
         /\ cycle[p].started \in Nat /\ cycle[p].started <= now
         /\ UNCHANGED <<now, polls>>
<1>1. cycle[p].running /\ UNCHANGED <<now, polls>>
  BY DEF Polls
<1>2. cycle[p] \in CycleRecord /\ cycle[p].started \in Nat /\ cycle[p].started <= now
  BY <1>1 DEF HistoryInv, CycleType
<1> QED BY <1>1, <1>2

\* What was witnessed is witnessed after more answers, and so is what they confirm.
LEMMA WitnessKept ==
  ASSUME NEW S \in Seq(Reply), NEW a \in Reply
  PROVE  /\ \A poll : SawIn(S, poll) => SawIn(Append(S, a), poll)
         /\ \A p, c : SeesIn(S, p, c) => SeesIn(Append(S, a), p, c)
<1>1. PICK S2 : S2 = Append(S, a)
  OBVIOUS
<1>2. \A k \in DOMAIN S : k \in DOMAIN S2 /\ S2[k] = S[k]
  BY <1>1, AppendIs
<1>3. \A poll : SawIn(S, poll) => SawIn(S2, poll)
  BY <1>2 DEF SawIn
<1>4. \A p, c : SeesIn(S, p, c) => SeesIn(S2, p, c)
  BY <1>2 DEF SeesIn
<1> QED BY <1>1, <1>3, <1>4

LEMMA ConfirmedSeen ==
  ASSUME NEW S \in Seq(Reply), NEW a \in Reply, a.status = "pending",
         NEW c, NEW c2, SeesIn(S, a.poller, c), c2.confirmed = c.confirmed \cup {a.ticker},
         c2.started = c.started, c.started <= a.at
  PROVE  SeesIn(Append(S, a), a.poller, c2)
<1>1. PICK S2 : S2 = Append(S, a)
  OBVIOUS
<1>2. /\ \A k \in DOMAIN S : k \in DOMAIN S2 /\ S2[k] = S[k]
      /\ Len(S) + 1 \in DOMAIN S2 /\ S2[Len(S) + 1] = a
  BY <1>1, AppendIs
<1>3. ASSUME NEW t \in c2.confirmed
      PROVE  \E k \in DOMAIN S2 : /\ S2[k].poller = a.poller /\ S2[k].status = "pending"
                                  /\ S2[k].ticker = t /\ c2.started <= S2[k].at
  <2>1. CASE t = a.ticker
    BY <1>2, <2>1
  <2>2. CASE t # a.ticker
    <3>1. PICK k \in DOMAIN S : /\ S[k].poller = a.poller /\ S[k].status = "pending"
                                /\ S[k].ticker = t /\ c.started <= S[k].at
      BY <1>3, <2>2 DEF SeesIn
    <3> QED BY <1>2, <3>1
  <2> QED BY <2>1, <2>2
<1> QED BY <1>1, <1>3 DEF SeesIn

\* An answer, whether or not it is stored.
LEMMA AnswerKeeps ==
  ASSUME HistoryInv, NEW p \in Poller, NEW t \in Ticker, Polls(p, t), NEW book \in Shown,
         NEW stored \in BOOLEAN, Answered(p, t, book, stored),
         lastBook' \in [Poller -> [Ticker -> {<<>>} \cup {<<b>> : b \in Shown}]],
         lastBook'[p][t] = <<book>>,
         \A q \in Poller, u \in Ticker : <<q, u>> # <<p, t>> => lastBook'[q][u] = lastBook[q][u],
         stored \/ lastBook[p][t] = <<book>>
  PROVE  HistoryInv'
<1>1. PICK a : a = [poller |-> p, ticker |-> t, at |-> now, book |-> book,
                    stored |-> stored, status |-> "pending"]
  OBVIOUS
<1>2. /\ now \in Nat /\ answers \in Seq(Reply) /\ Tells(answers, now)
      /\ polls \in Seq(Poll) /\ cycle \in [Poller -> CycleRecord]
      /\ lastBook \in [Poller -> [Ticker -> {<<>>} \cup {<<b>> : b \in Shown}]]
  BY DEF HistoryInv, CycleType, Tells
<1>3. /\ a \in Reply /\ a.poller = p /\ a.ticker = t /\ a.at = now /\ a.book = book
      /\ a.stored = stored /\ a.status = "pending"
  BY <1>1, <1>2 DEF Reply, Status
<1>4. PICK S2 : S2 = Append(answers, a)
  OBVIOUS
<1>5. /\ answers' = S2 /\ now' = now /\ polls' = polls
      /\ cycle' = [cycle EXCEPT ![p].next = @ + 1, ![p].confirmed = @ \cup {t}]
  BY <1>1, <1>4, PollingIs DEF Answered
<1>6. cycle[p] \in CycleRecord /\ cycle[p].started \in Nat /\ cycle[p].started <= now
  BY PollingIs
<1>7. /\ cycle' \in [Poller -> CycleRecord]
      /\ \A q \in Poller : q # p => cycle'[q] = cycle[q]
      /\ cycle'[p].started = cycle[p].started
      /\ cycle'[p].confirmed = cycle[p].confirmed \cup {t}
  <2>1. PICK c : c = cycle[p]
    OBVIOUS
  <2>2. PICK c2 : c2 = [c EXCEPT !.next = c.next + 1, !.confirmed = c.confirmed \cup {t}]
    OBVIOUS
  <2>3. /\ c2 \in CycleRecord /\ c2.started = c.started /\ c2.confirmed = c.confirmed \cup {t}
    <3>1. c \in CycleRecord /\ t \in Ticker
      BY <1>6, <2>1
    <3>2. c.next + 1 \in Nat /\ c.confirmed \cup {t} \in SUBSET Ticker
      BY <3>1 DEF CycleRecord
    <3> QED BY ONLY <2>2, <3>1, <3>2 DEF CycleRecord
  <2>4. cycle' = [cycle EXCEPT ![p] = c2]
    BY <1>2, <1>5, <1>6, <2>1, <2>2 DEF CycleRecord
  <2> QED BY <1>2, <2>1, <2>3, <2>4
<1>8. CycleType'
  <2>1. \A q \in Poller : cycle'[q].running => cycle'[q].started \in Nat /\ cycle'[q].started <= now
    BY <1>6, <1>7 DEF HistoryInv, CycleType
  <2> QED BY <1>2, <1>5, <1>7, <2>1 DEF CycleType
<1>9. \A q \in Poller, u \in Ticker : \A b \in Shown :
        lastBook[q][u] = <<b>> => \E j : Holds(answers, q, u, b, j)
  BY DEF HistoryInv, Remembers
<1>10. Tells(S2, now)
  <2>1. CASE stored
    BY <1>2, <1>3, <1>4, <2>1, AppendTells
  <2>2. CASE lastBook[p][t] = <<book>>
    <3>1. PICK j : Holds(answers, a.poller, a.ticker, a.book, j)
      BY <1>3, <1>9, <2>2
    <3>2. IsFound(Append(answers, a), j, Len(answers) + 1)
      BY <1>2, <1>3, <3>1, HeldIsFound
    <3> QED BY <1>2, <1>3, <1>4, <3>2, AppendTells
  <2> QED BY <2>1, <2>2
<1>11. Remembers(S2, lastBook')
  <2>1. ASSUME NEW q \in Poller, NEW u \in Ticker, NEW b \in Shown, lastBook'[q][u] = <<b>>
        PROVE  \E j : Holds(S2, q, u, b, j)
    <3>1. CASE q = p /\ u = t /\ stored
      <4>1. Holds(Append(answers, a), a.poller, a.ticker, a.book, Len(answers) + 1)
        BY <1>2, <1>3, <3>1, StoredIsHeld
      <4>2. b = book
        BY <2>1, <3>1
      <4> QED BY <1>3, <1>4, <3>1, <4>1, <4>2
    <3>2. CASE ~ (q = p /\ u = t /\ stored)
      <4>1. lastBook[q][u] = <<b>>
        BY <2>1, <3>2
      <4>2. PICK j : Holds(answers, q, u, b, j)
        BY <1>9, <4>1
      <4>3. q = p /\ u = t => book = b
        BY <2>1
      <4>4. a.poller = q /\ a.ticker = u => a.book = b
        BY <1>3, <4>3
      <4>5. Holds(Append(answers, a), q, u, b, j)
        BY <1>2, <1>3, <4>2, <4>4, HeldAfter
      <4> QED BY <1>4, <4>5
    <3> QED BY <3>1, <3>2
  <2> QED BY <2>1 DEF Remembers
<1>12. /\ \A poll : SawIn(answers, poll) => SawIn(S2, poll)
       /\ \A q, c : SeesIn(answers, q, c) => SeesIn(S2, q, c)
  BY <1>2, <1>3, <1>4, WitnessKept
<1>13. \A i \in DOMAIN polls : SawIn(S2, polls[i])
  BY <1>12 DEF HistoryInv
<1>14. \A q \in Poller : SeesIn(S2, q, cycle'[q])
  <2>1. \A q \in Poller : SeesIn(answers, q, cycle[q])
    BY DEF HistoryInv
  <2>2. SeesIn(S2, p, cycle'[p])
    <3>1. PICK c, c2 : c = cycle[p] /\ c2 = cycle'[p]
      OBVIOUS
    <3>2. /\ c2.confirmed = c.confirmed \cup {a.ticker} /\ c2.started = c.started
          /\ c.started <= a.at /\ SeesIn(answers, a.poller, c)
      BY <1>3, <1>6, <1>7, <2>1, <3>1
    <3>3. SeesIn(Append(answers, a), a.poller, c2)
      BY <1>2, <1>3, <3>2, ConfirmedSeen
    <3> QED BY <1>3, <1>4, <3>1, <3>3
  <2> QED BY <1>7, <1>12, <2>1, <2>2
<1> QED BY <1>5, <1>8, <1>10, <1>11, <1>13, <1>14 DEF HistoryInv

LEMMA PollUnchangedKeeps ==
  ASSUME HistoryInv, NEW p \in Poller, NEW t \in Ticker, PollUnchanged(p, t)
  PROVE  HistoryInv'
<1>1. /\ Polls(p, t) /\ lastBook[p][t] # <<>> /\ lastBook' = lastBook
      /\ Answered(p, t, lastBook[p][t][1], FALSE)
  BY DEF PollUnchanged
<1>2. lastBook \in [Poller -> [Ticker -> {<<>>} \cup {<<b>> : b \in Shown}]]
  BY DEF HistoryInv, CycleType
<1>3. PICK book \in Shown : lastBook[p][t] = <<book>>
  BY <1>1, <1>2
<1>4. lastBook[p][t][1] = book
  BY <1>3
<1>5. Answered(p, t, book, FALSE)
  BY <1>1, <1>4
<1> QED BY <1>1, <1>2, <1>3, <1>5, AnswerKeeps

LEMMA PollStoresKeeps ==
  ASSUME HistoryInv, NEW p \in Poller, NEW t \in Ticker, NEW book \in Payloads[t],
         PollStores(p, t, book)
  PROVE  HistoryInv'
<1>1. /\ Polls(p, t) /\ lastBook' = [lastBook EXCEPT ![p][t] = <<book>>]
      /\ Answered(p, t, book, TRUE)
  BY DEF PollStores
<1>2. book \in Shown
  BY DEF Shown
<1>3. PICK Memory : Memory = {<<>>} \cup {<<b>> : b \in Shown}
  OBVIOUS
<1>4. lastBook \in [Poller -> [Ticker -> Memory]] /\ <<book>> \in Memory
  BY <1>2, <1>3 DEF HistoryInv, CycleType
<1>5. /\ lastBook' \in [Poller -> [Ticker -> Memory]]
      /\ lastBook'[p][t] = <<book>>
      /\ \A q \in Poller, u \in Ticker : <<q, u>> # <<p, t>> => lastBook'[q][u] = lastBook[q][u]
  BY <1>1, <1>4
<1>6. lastBook' \in [Poller -> [Ticker -> {<<>>} \cup {<<b>> : b \in Shown}]]
  BY <1>3, <1>5
<1>7. /\ Polls(p, t) /\ Answered(p, t, book, TRUE) /\ TRUE \in BOOLEAN
      /\ TRUE \/ lastBook[p][t] = <<book>>
  BY <1>1
<1>8. /\ lastBook'[p][t] = <<book>>
      /\ \A q \in Poller, u \in Ticker : <<q, u>> # <<p, t>> => lastBook'[q][u] = lastBook[q][u]
  BY <1>5
<1>9. HistoryInv /\ p \in Poller /\ t \in Ticker
  OBVIOUS
<1> QED BY ONLY <1>2, <1>6, <1>7, <1>8, <1>9, AnswerKeeps

LEMMA PollFailsKeeps ==
  ASSUME HistoryInv, NEW p \in Poller, NEW t \in Ticker, PollFails(p, t) PROVE HistoryInv'
<1>1. /\ Polls(p, t) /\ cycle' = [cycle EXCEPT ![p].next = @ + 1]
      /\ UNCHANGED <<answers, lastBook>> /\ UNCHANGED <<now, polls>>
  BY DEF PollFails, Polls
<1>2. cycle \in [Poller -> CycleRecord] /\ cycle[p] \in CycleRecord
  BY DEF HistoryInv, CycleType
<1>3. /\ cycle' \in [Poller -> CycleRecord]
      /\ \A q \in Poller : /\ cycle'[q].confirmed = cycle[q].confirmed
                           /\ cycle'[q].started = cycle[q].started
                           /\ cycle'[q].running = cycle[q].running
  <2>1. PICK c, c2 : c = cycle[p] /\ c2 = [c EXCEPT !.next = c.next + 1]
    OBVIOUS
  <2>2. /\ c2 \in CycleRecord /\ c2.started = c.started /\ c2.confirmed = c.confirmed
        /\ c2.running = c.running
    BY <1>2, <2>1 DEF CycleRecord
  <2>3. cycle' = [cycle EXCEPT ![p] = c2]
    BY <1>1, <1>2, <2>1 DEF CycleRecord
  <2> QED BY <1>2, <2>1, <2>2, <2>3
<1>4. CycleType'
  BY <1>1, <1>3 DEF HistoryInv, CycleType
<1>5. \A q \in Poller : SeesIn(answers, q, cycle'[q])
  BY <1>3 DEF HistoryInv, SeesIn
<1> QED BY <1>1, <1>4, <1>5 DEF HistoryInv

LEMMA BeginCycleKeeps ==
  ASSUME HistoryInv, NEW p \in Poller, BeginCycle(p) PROVE HistoryInv'
<1>1. /\ cycle' = [cycle EXCEPT ![p] = [Over(p, now) EXCEPT !.next = 1, !.running = TRUE]]
      /\ UNCHANGED <<now, answers, polls, lastBook>>
  BY DEF BeginCycle
<1>2. now \in Nat /\ cycle \in [Poller -> CycleRecord]
  BY DEF HistoryInv, CycleType, Tells
<1>3. PICK c : c = [Over(p, now) EXCEPT !.next = 1, !.running = TRUE]
  OBVIOUS
<1>4. c \in CycleRecord /\ c.started = now /\ c.confirmed = {}
  <2>1. PICK over \in CycleRecord : over = Over(p, now) /\ over.started = now /\ over.confirmed = {}
    BY <1>2, OverIs
  <2> QED BY <1>3, <2>1 DEF CycleRecord
<1>5. /\ cycle' \in [Poller -> CycleRecord] /\ cycle'[p] = c
      /\ \A q \in Poller : q # p => cycle'[q] = cycle[q]
  BY <1>1, <1>2, <1>3, <1>4
<1>6. CycleType'
  <2>1. \A q \in Poller : cycle'[q].running => cycle'[q].started \in Nat /\ cycle'[q].started <= now
    BY <1>2, <1>4, <1>5 DEF HistoryInv, CycleType
  <2> QED BY <1>1, <1>5, <2>1 DEF HistoryInv, CycleType
<1>7. \A q \in Poller : SeesIn(answers, q, cycle'[q])
  BY <1>4, <1>5 DEF HistoryInv, SeesIn
<1> QED BY <1>1, <1>6, <1>7 DEF HistoryInv

\* Another poller's pending answers stay pending, and nobody's kept ones are disturbed.
LEMMA WitnessClosed ==
  ASSUME NEW S, NEW S2, NEW p, NEW status, Closes(S, S2, p, status)
  PROVE  /\ \A poll : SawIn(S, poll) => SawIn(S2, poll)
         /\ \A q, c : q # p /\ SeesIn(S, q, c) => SeesIn(S2, q, c)
<1>1. \A poll : SawIn(S, poll) => SawIn(S2, poll)
  BY DEF SawIn, Closes
<1>2. \A q, c : q # p /\ SeesIn(S, q, c) => SeesIn(S2, q, c)
  BY DEF SeesIn, Closes
<1> QED BY <1>1, <1>2

LEMMA RestartKeeps ==
  ASSUME HistoryInv, NEW p \in Poller, Restart(p) PROVE HistoryInv'
<1>1. /\ answers' = Ended(p, "lost") /\ cycle' = [cycle EXCEPT ![p] = Over(p, Never)]
      /\ lastBook' = [lastBook EXCEPT ![p] = [t \in Ticker |-> <<>>]]
      /\ now' = now /\ polls' = polls
  BY DEF Restart
<1>2. /\ answers \in Seq(Reply) /\ Tells(answers, now) /\ cycle \in [Poller -> CycleRecord]
  BY DEF HistoryInv, CycleType, Tells
<1>3. PICK Memory : Memory = {<<>>} \cup {<<b>> : b \in Shown}
  OBVIOUS
<1>4. lastBook \in [Poller -> [Ticker -> Memory]]
  BY <1>3 DEF HistoryInv, CycleType
<1>5. "lost" \in Status /\ "lost" \in {"kept", "lost"}
  BY DEF Status
<1>6. PICK S2 : S2 = Ended(p, "lost") /\ Closes(answers, S2, p, "lost")
  BY <1>2, <1>5, EndedIs
<1>7. Tells(S2, now)
  BY <1>2, <1>5, <1>6, ClosedTells
<1>8. /\ lastBook' \in [Poller -> [Ticker -> Memory]]
      /\ \A t \in Ticker : lastBook'[p][t] = <<>>
      /\ \A q \in Poller : q # p => lastBook'[q] = lastBook[q]
  BY <1>1, <1>3, <1>4
<1>9. Remembers(S2, lastBook')
  <2>1. ASSUME NEW q \in Poller, NEW t \in Ticker, NEW book \in Shown, lastBook'[q][t] = <<book>>
        PROVE  \E j : Holds(S2, q, t, book, j)
    <3>1. q # p
      <4>1. <<book>> # <<>>
        OBVIOUS
      <4> QED BY <1>8, <2>1, <4>1
    <3>2. PICK j : Holds(answers, q, t, book, j)
      BY <1>8, <2>1, <3>1 DEF HistoryInv, Remembers
    <3>3. Holds(S2, q, t, book, j)
      BY <1>6, <3>1, <3>2, HeldWhenClosed
    <3> QED BY <3>3
  <2> QED BY <2>1 DEF Remembers
<1>10. PICK c \in CycleRecord : c = Over(p, Never) /\ c.confirmed = {} /\ ~ c.running
  BY OverIs
<1>11. /\ cycle' \in [Poller -> CycleRecord] /\ cycle'[p] = c
       /\ \A q \in Poller : q # p => cycle'[q] = cycle[q]
  BY <1>1, <1>2, <1>10
<1>12. CycleType'
  <2>1. \A q \in Poller : cycle'[q].running => cycle'[q].started \in Nat /\ cycle'[q].started <= now
    BY <1>10, <1>11 DEF HistoryInv, CycleType
  <2> QED BY <1>1, <1>3, <1>8, <1>11, <2>1 DEF HistoryInv, CycleType
<1>13. /\ \A i \in DOMAIN polls : SawIn(S2, polls[i])
       /\ \A q \in Poller : q # p => SeesIn(S2, q, cycle[q])
  BY <1>6, WitnessClosed DEF HistoryInv
<1>14. \A q \in Poller : SeesIn(S2, q, cycle'[q])
  <2>1. SeesIn(S2, p, c)
    BY <1>10 DEF SeesIn
  <2> QED BY <1>11, <1>13, <2>1
<1>15. answers' = S2
  BY <1>1, <1>6
<1> QED BY <1>1, <1>7, <1>9, <1>12, <1>13, <1>14, <1>15 DEF HistoryInv

LEMMA EndCycleKeeps ==
  ASSUME HistoryInv, NEW p \in Poller, EndCycle(p) PROVE HistoryInv'
<1>1. PICK poll : poll = [started |-> cycle[p].started, completed |-> now,
                          confirmed |-> cycle[p].confirmed]
  OBVIOUS
<1>2. /\ cycle[p].running
      /\ answers' = Ended(p, "kept") /\ cycle' = [cycle EXCEPT ![p] = Over(p, cycle[p].started)]
      /\ polls' = Append(polls, poll) /\ now' = now /\ lastBook' = lastBook
  BY <1>1 DEF EndCycle
<1>3. /\ now \in Nat /\ answers \in Seq(Reply) /\ Tells(answers, now)
      /\ cycle \in [Poller -> CycleRecord] /\ cycle[p] \in CycleRecord /\ polls \in Seq(Poll)
  BY DEF HistoryInv, CycleType, Tells
<1>4. cycle[p].started \in Nat /\ cycle[p].confirmed \in SUBSET Ticker
  BY <1>2, <1>3 DEF HistoryInv, CycleType, CycleRecord
<1>5. /\ poll \in Poll /\ poll.started = cycle[p].started /\ poll.completed = now
      /\ poll.confirmed = cycle[p].confirmed
  BY <1>1, <1>3, <1>4 DEF Poll
<1>6. "kept" \in Status /\ "kept" \in {"kept", "lost"}
  BY DEF Status
<1>7. PICK S2 : S2 = Ended(p, "kept") /\ Closes(answers, S2, p, "kept")
  BY <1>3, <1>6, EndedIs
<1>8. Tells(S2, now)
  BY <1>3, <1>6, <1>7, ClosedTells
<1>9. Remembers(S2, lastBook)
  <2>1. ASSUME NEW q \in Poller, NEW t \in Ticker, NEW book \in Shown, lastBook[q][t] = <<book>>
        PROVE  \E j : Holds(S2, q, t, book, j)
    <3>1. PICK j : Holds(answers, q, t, book, j)
      BY <2>1 DEF HistoryInv, Remembers
    <3>2. Holds(S2, q, t, book, j)
      BY <1>7, <3>1, HeldWhenClosed
    <3> QED BY <3>2
  <2> QED BY <2>1 DEF Remembers
<1>10. PICK c \in CycleRecord : c = Over(p, cycle[p].started) /\ c.confirmed = {} /\ ~ c.running
  BY <1>4, OverIs
<1>11. /\ cycle' \in [Poller -> CycleRecord] /\ cycle'[p] = c
       /\ \A q \in Poller : q # p => cycle'[q] = cycle[q]
  BY <1>2, <1>3, <1>10
<1>12. PICK P2 \in Seq(Poll) : /\ P2 = polls'
                               /\ \A i \in DOMAIN P2 : (i \in DOMAIN polls /\ P2[i] = polls[i]) \/ P2[i] = poll
  <2>1. Append(polls, poll) \in Seq(Poll)
    BY <1>3, <1>5, AppendIs
  <2>2. \A i \in DOMAIN Append(polls, poll) :
          (i \in DOMAIN polls /\ Append(polls, poll)[i] = polls[i]) \/ Append(polls, poll)[i] = poll
    BY <1>3, <1>5, AppendIs
  <2> QED BY <1>2, <2>1, <2>2
<1>13. CycleType'
  <2>1. \A q \in Poller : cycle'[q].running => cycle'[q].started \in Nat /\ cycle'[q].started <= now
    BY <1>10, <1>11 DEF HistoryInv, CycleType
  <2>2. lastBook' \in [Poller -> [Ticker -> {<<>>} \cup {<<b>> : b \in Shown}]]
    BY <1>2 DEF HistoryInv, CycleType
  <2> QED BY <1>2, <1>11, <1>12, <2>1, <2>2 DEF CycleType
<1>14. SawIn(S2, poll)
  <2>1. ASSUME NEW t \in poll.confirmed
        PROVE  \E k \in DOMAIN S2 : /\ S2[k].status = "kept" /\ S2[k].ticker = t
                                    /\ poll.started <= S2[k].at /\ S2[k].at <= poll.completed
    <3>1. SeesIn(answers, p, cycle[p])
      BY DEF HistoryInv
    <3>2. PICK k \in DOMAIN answers : /\ answers[k].poller = p /\ answers[k].status = "pending"
                                      /\ answers[k].ticker = t /\ cycle[p].started <= answers[k].at
      BY <1>5, <2>1, <3>1 DEF SeesIn
    <3>3. answers[k].at <= now
      BY <1>3 DEF Tells, InTime
    <3> QED BY <1>5, <1>7, <3>2, <3>3 DEF Closes
  <2> QED BY <2>1 DEF SawIn
<1>15. /\ \A i \in DOMAIN polls : SawIn(S2, polls[i])
       /\ \A q \in Poller : q # p => SeesIn(S2, q, cycle[q])
  BY <1>7, WitnessClosed DEF HistoryInv
<1>16. \A i \in DOMAIN P2 : SawIn(S2, P2[i])
  BY <1>12, <1>14, <1>15
<1>17. \A q \in Poller : SeesIn(S2, q, cycle'[q])
  <2>1. SeesIn(S2, p, c)
    BY <1>10 DEF SeesIn
  <2> QED BY <1>11, <1>15, <2>1
<1>18. answers' = S2
  BY <1>2, <1>7
<1> QED BY <1>2, <1>8, <1>9, <1>12, <1>13, <1>16, <1>17, <1>18 DEF HistoryInv

LEMMA TickKeeps == ASSUME HistoryInv, Tick PROVE HistoryInv'
<1>1. now' = now + 1 /\ UNCHANGED <<answers, polls, cycle, lastBook>>
  BY DEF Tick
<1>2. now \in Nat
  BY DEF HistoryInv, Tells
<1>3. Tells(answers, now + 1)
  BY TimePasses DEF HistoryInv
<1>4. CycleType'
  <2>1. \A p \in Poller : cycle[p].running => cycle[p].started \in Nat /\ cycle[p].started <= now + 1
    BY <1>2 DEF HistoryInv, CycleType
  <2> QED BY <1>1, <2>1 DEF HistoryInv, CycleType
<1> QED BY <1>1, <1>3, <1>4 DEF HistoryInv

LEMMA HistoryNext == HistoryInv /\ [ArchiveNext]_archiveVars => HistoryInv'
<1> SUFFICES ASSUME HistoryInv, [ArchiveNext]_archiveVars PROVE HistoryInv'
  OBVIOUS
<1>1. ASSUME NEW p \in Poller, BeginCycle(p) PROVE HistoryInv'
  BY <1>1, BeginCycleKeeps
<1>2. ASSUME NEW p \in Poller, NEW t \in Ticker, PollFails(p, t) PROVE HistoryInv'
  BY <1>2, PollFailsKeeps
<1>3. ASSUME NEW p \in Poller, NEW t \in Ticker, PollUnchanged(p, t) PROVE HistoryInv'
  BY <1>3, PollUnchangedKeeps
<1>4. ASSUME NEW p \in Poller, NEW t \in Ticker, NEW book \in Payloads[t], PollStores(p, t, book)
      PROVE  HistoryInv'
  BY <1>4, PollStoresKeeps
<1>5. ASSUME NEW p \in Poller, EndCycle(p) PROVE HistoryInv'
  BY <1>5, EndCycleKeeps
<1>6. ASSUME NEW p \in Poller, Restart(p) PROVE HistoryInv'
  BY <1>6, RestartKeeps
<1>7. CASE Tick
  BY <1>7, TickKeeps
<1>8. CASE UNCHANGED archiveVars
  BY <1>8 DEF archiveVars, HistoryInv, CycleType
<1> QED BY <1>1, <1>2, <1>3, <1>4, <1>5, <1>6, <1>7, <1>8 DEF ArchiveNext

\* The history of answers: whatever each poller was answered and whenever cycles fail or are
\* lost, an answer that was not stored is the book its poller stored last, and no row of its
\* own is missing or has another book between (collector.py:163-190); and whatever a poll
\* confirms was answered while it lasted (service.py:238-262).
THEOREM HistoryHolds == ArchiveSpec => []HistoryInv
  BY HistoryInit, HistoryNext, PTL DEF ArchiveSpec

-----------------------------------------------------------------------------
(* The analyses are folds over the rows.  What they fold is not of a simple *)
(* type, so that the function of the fold is built up row by row.           *)

Base(which) ==
  IF which = "baskets" THEN NothingScanned
  ELSE IF which = "maker" THEN NothingOffered ELSE NothingTried

Step(which, R, P, state, row) ==
  IF which = "baskets" THEN ScanRow(R, P, MaxLegAge, state, row)
  ELSE IF which = "maker" THEN MakerRow(R, P, MaxLegAge, Horizon, Window, state, row)
  ELSE FunnelRow(R, P, Settings, state, row)

Folded(which, R, P) ==
  FoldLeft(LAMBDA state, row : Step(which, R, P, state, row), Base(which), R)

\* What f gives every set of the first n rows.
FoldsTo(which, R, P, n, f) ==
  f = [T \in SUBSET (1 .. n) |->
         IF T = {} THEN Base(which) ELSE Step(which, R, P, f[T \ {Max(T)}], R[Max(T)])]

LEMMA FoldsToExists ==
  ASSUME NEW which, NEW R, NEW P, NEW n \in Nat PROVE \E f : FoldsTo(which, R, P, n, f)
<1> DEFINE N == {m \in Nat : \E f : FoldsTo(which, R, P, m, f)}
<1>1. 0 \in N
  <2> DEFINE f == [T \in SUBSET (1 .. 0) |-> Base(which)]
  <2>1. \A T \in SUBSET (1 .. 0) : T = {}
    OBVIOUS
  <2>2. f = [T \in SUBSET (1 .. 0) |->
               IF T = {} THEN Base(which) ELSE Step(which, R, P, f[T \ {Max(T)}], R[Max(T)])]
    BY <2>1
  <2>3. FoldsTo(which, R, P, 0, f)
    BY <2>2 DEF FoldsTo
  <2> QED BY <2>3
<1>2. ASSUME NEW m \in N PROVE m + 1 \in N
  <2>1. PICK f : FoldsTo(which, R, P, m, f)
    OBVIOUS
  <2>2. m \in Nat /\ m + 1 \in Nat
    OBVIOUS
  <2> DEFINE rest(T) == IF T = {} THEN Base(which)
                        ELSE Step(which, R, P, f[T \ {Max(T)}], R[Max(T)])
             g == [T \in SUBSET (1 .. m + 1) |-> rest(T)]
  <2>3. \A T \in SUBSET (1 .. m) : f[T] = rest(T)
    BY <2>1 DEF FoldsTo
  <2>4. ASSUME NEW T \in SUBSET (1 .. m + 1), T # {}
        PROVE  T \ {Max(T)} \in SUBSET (1 .. m)
    <3>1. T \in (SUBSET (1 .. m + 1)) \ {{}}
      BY <2>4
    <3>2. Max(T) \in T /\ \A i \in T : Max(T) >= i
      <4>1. IsFiniteSet(1 .. m + 1)
        BY <2>2, FS_Interval
      <4>2. IsFiniteSet(T)
        BY <4>1, FS_Subset
      <4>3. T \in SUBSET Int
        BY <2>2
      <4> QED BY <2>4, <4>2, <4>3, MaxOfIntegers
    <3>3. PICK x \in 1 .. m + 1 : x = Max(T)
      BY <2>4, <3>2
    <3>4. ASSUME NEW i \in T, i # x PROVE i \in 1 .. m
      <4>1. i \in 1 .. m + 1 /\ x >= i
        BY <2>4, <3>2, <3>3
      <4> QED BY <2>2, <3>3, <3>4, <4>1
    <3> QED BY <3>3, <3>4
  <2>5. ASSUME NEW T \in SUBSET (1 .. m) PROVE g[T] = f[T]
    <3>1. T \in SUBSET (1 .. m + 1)
      BY <2>2
    <3>2. g[T] = rest(T)
      <4> HIDE DEF rest
      <4> QED BY <3>1
    <3> QED BY <2>3, <3>2
  <2>6. ASSUME NEW T \in SUBSET (1 .. m + 1)
        PROVE  g[T] = IF T = {} THEN Base(which)
                      ELSE Step(which, R, P, g[T \ {Max(T)}], R[Max(T)])
    <3>1. g[T] = rest(T)
      <4> HIDE DEF rest
      <4> QED OBVIOUS
    <3> HIDE DEF g
    <3>2. CASE T = {}
      BY <3>1, <3>2
    <3>3. CASE T # {}
      <4>1. g[T \ {Max(T)}] = f[T \ {Max(T)}]
        BY <2>4, <2>5, <3>3
      <4> QED BY <3>1, <3>3, <4>1
    <3> QED BY <3>2, <3>3
  <2>7. g = [T \in SUBSET (1 .. m + 1) |->
               IF T = {} THEN Base(which) ELSE Step(which, R, P, g[T \ {Max(T)}], R[Max(T)])]
    <3>1. g = [T \in SUBSET (1 .. m + 1) |-> g[T]]
      OBVIOUS
    <3> HIDE DEF g
    <3> QED BY <2>6, <3>1
  <2> HIDE DEF g
  <2>8. FoldsTo(which, R, P, m + 1, g)
    BY <2>7 DEF FoldsTo
  <2> QED BY <2>2, <2>8
<1>3. N \in SUBSET Nat
  OBVIOUS
<1> HIDE DEF N
<1>4. N = Nat
  BY <1>1, <1>2, <1>3, NaturalsFrom
<1> QED BY <1>4 DEF N

\* Where an analysis stands after each row.
IsReading(which, R, P, run) ==
  /\ DOMAIN run = 0 .. Len(R)
  /\ run[0] = Base(which)
  /\ \A i \in 1 .. Len(R) : run[i] = Step(which, R, P, run[i - 1], R[i])

LEMMA ReadingExists ==
  ASSUME NEW which, NEW R, NEW P, Len(R) \in Nat, DOMAIN R = 1 .. Len(R)
  PROVE  \E run : IsReading(which, R, P, run) /\ Folded(which, R, P) = run[Len(R)]
<1> DEFINE n == Len(R)
           it == CHOOSE f : FoldsTo(which, R, P, n, f)
           run == [i \in 0 .. n |-> it[1 .. i]]
<1>1. n \in Nat /\ DOMAIN R = 1 .. n
  OBVIOUS
<1>2. FoldsTo(which, R, P, n, it)
  <2> HIDE DEF n
  <2> QED BY <1>1, FoldsToExists
<1>3. \A T \in SUBSET (1 .. n) :
        it[T] = IF T = {} THEN Base(which) ELSE Step(which, R, P, it[T \ {Max(T)}], R[Max(T)])
  <2> HIDE DEF it
  <2> QED BY <1>2 DEF FoldsTo
<1>4. Folded(which, R, P) = it[1 .. n]
  <2>1. Folded(which, R, P)
          = (CHOOSE f : f = [T \in SUBSET DOMAIN R |->
               IF T = {} THEN Base(which)
               ELSE Step(which, R, P, f[T \ {Max(T)}], R[Max(T)])])[DOMAIN R]
    BY DEF Folded, FoldLeft, MapThenFoldSet
  <2> HIDE DEF n
  <2> QED BY <1>1, <2>1 DEF FoldsTo
<1> HIDE DEF it
<1>5. run[0] = Base(which)
  <2>1. 1 .. 0 = {} /\ 0 \in 0 .. n
    BY <1>1
  <2> QED BY <1>3, <2>1
<1>6. ASSUME NEW i \in 1 .. n PROVE run[i] = Step(which, R, P, run[i - 1], R[i])
  <2>1. /\ Max(1 .. i) = i /\ (1 .. i) \ {i} = 1 .. (i - 1)
        /\ 1 .. i \in SUBSET (1 .. n) /\ 1 .. i # {} /\ i - 1 \in 0 .. n /\ i \in 0 .. n
    BY <1>1, PrefixSets
  <2>2. it[1 .. i] = Step(which, R, P, it[1 .. (i - 1)], R[i])
    BY <1>3, <2>1
  <2> QED BY <2>1, <2>2
<1>7. Folded(which, R, P) = run[n]
  BY <1>1, <1>4
<1>8. DOMAIN run = 0 .. n
  OBVIOUS
<1> HIDE DEF run
<1>9. IsReading(which, R, P, run)
  BY <1>5, <1>6, <1>8 DEF IsReading, n
<1> QED BY <1>7, <1>9 DEF n

\* What holds before the first row, and is kept by each, holds at the end.
LEMMA ReadingKeeps ==
  ASSUME NEW n \in Nat, NEW Good \in SUBSET (0 .. n), 0 \in Good,
         \A i \in 1 .. n : i - 1 \in Good => i \in Good
  PROVE  Good = 0 .. n
<1> DEFINE N == {m \in Nat : m <= n => m \in Good}
<1>1. 0 \in N
  OBVIOUS
<1>2. ASSUME NEW m \in N PROVE m + 1 \in N
  <2>1. SUFFICES ASSUME m + 1 <= n PROVE m + 1 \in Good
    OBVIOUS
  <2>2. m \in Good /\ m + 1 \in 1 .. n /\ (m + 1) - 1 = m
    BY <2>1
  <2> QED BY <2>2
<1>3. N \in SUBSET Nat
  OBVIOUS
<1> HIDE DEF N
<1>4. N = Nat
  BY <1>1, <1>2, <1>3, NaturalsFrom
<1>5. \A m \in 0 .. n : m \in Good
  BY <1>4 DEF N
<1> QED BY <1>5

-----------------------------------------------------------------------------
(* The basket scan: where the quotes of a pricing come from.                *)

\* Of the first k rows, j is the last usable one of its market, and offers it.
Quotes(R, t, j, k) ==
  /\ j \in 1 .. k /\ R[j].ticker = t /\ R[j].book.complete /\ DOMAIN R[j].book.no # {}
  /\ \A i \in 1 .. k : R[i].ticker = t /\ R[i].book.complete => i <= j

\* The quotes kept after k rows.
LatestIs(R, latest, k) ==
  \A t \in DOMAIN latest : \E j : Quotes(R, t, j, k) /\ latest[t] = QuoteOf(R[j])

\* A pricing at row m takes every leg at its quote, and none of them is too old.
PricedAt(R, P, p, m) ==
  /\ p.at = R[m].captured /\ p.event = EventOf[R[m].ticker]
  /\ DOMAIN p.ask = LegsOf(R, R[m].ticker)
  /\ \A t \in DOMAIN p.ask : \E j :
       /\ Quotes(R, t, j, m)
       /\ p.ask[t] = BestYesAsk(R[j].book).ask
       /\ ~ R[m].captured - LastConfirmed(P, t, R[m].captured, R[j].captured) > MaxLegAge

ScanFields == {"latest", "open", "priced", "episodes", "skippedStale", "skippedIncomplete"}

ScanIs(R, P, scan, k) ==
  /\ DOMAIN scan = ScanFields
  /\ LatestIs(R, scan.latest, k)
  /\ \E X : scan.priced \in Seq(X)
  /\ \A i \in DOMAIN scan.priced : \E m \in 1 .. k : PricedAt(R, P, scan.priced[i], m)

LEMMA AppendAny ==
  ASSUME NEW X, NEW s \in Seq(X), NEW x
  PROVE  /\ s \in Seq(X \cup {x}) /\ Append(s, x) \in Seq(X \cup {x}) /\ Len(s) \in Nat
         /\ DOMAIN s = 1 .. Len(s) /\ DOMAIN Append(s, x) = 1 .. Len(s) + 1
         /\ Len(Append(s, x)) = Len(s) + 1
         /\ \A i \in DOMAIN s : i \in DOMAIN Append(s, x) /\ Append(s, x)[i] = s[i]
         /\ Append(s, x)[Len(s) + 1] = x
         /\ \A i \in DOMAIN Append(s, x) : i \in DOMAIN s \/ i = Len(s) + 1
<1>1. s \in Seq(X \cup {x}) /\ x \in X \cup {x}
  OBVIOUS
<1>2. Len(Append(s, x)) = Len(s) + 1
  BY <1>1
<1> QED BY <1>1, <1>2, AppendIs

LEMMA LatestKept ==
  ASSUME NEW R, NEW latest, NEW k \in Nat \ {0}, LatestIs(R, latest, k - 1)
  PROVE  /\ ~ R[k].book.complete => LatestIs(R, latest, k)
         /\ LatestIs(R, Dropped(latest, R[k].ticker), k)
         /\ R[k].book.complete /\ DOMAIN R[k].book.no # {} =>
              LatestIs(R, Put(latest, R[k].ticker, QuoteOf(R[k])), k)
<1>1. ASSUME NEW t, NEW j, Quotes(R, t, j, k - 1), R[k].ticker # t \/ ~ R[k].book.complete
      PROVE  Quotes(R, t, j, k)
  <2>1. \A i \in 1 .. k : i = k \/ i \in 1 .. (k - 1)
    OBVIOUS
  <2>2. j \in 1 .. k
    BY <1>1 DEF Quotes
  <2>3. ASSUME NEW i \in 1 .. k, R[i].ticker = t, R[i].book.complete PROVE i <= j
    <3>1. i # k
      BY <1>1, <2>3
    <3> QED BY <1>1, <2>1, <2>3, <3>1 DEF Quotes
  <2> QED BY <1>1, <2>2, <2>3 DEF Quotes
<1>2. ~ R[k].book.complete => LatestIs(R, latest, k)
  BY <1>1 DEF LatestIs
<1>3. LatestIs(R, Dropped(latest, R[k].ticker), k)
  BY <1>1 DEF LatestIs, Dropped
<1>4. ASSUME R[k].book.complete, DOMAIN R[k].book.no # {}
      PROVE  LatestIs(R, Put(latest, R[k].ticker, QuoteOf(R[k])), k)
  <2>1. Quotes(R, R[k].ticker, k, k)
    BY <1>4 DEF Quotes
  <2>2. PICK q : q = QuoteOf(R[k])
    OBVIOUS
  <2>3. PICK put : put = Put(latest, R[k].ticker, q)
    OBVIOUS
  <2>4. /\ DOMAIN put = DOMAIN latest \cup {R[k].ticker} /\ put[R[k].ticker] = q
        /\ \A t \in DOMAIN latest : t # R[k].ticker => put[t] = latest[t]
    BY <2>3 DEF Put
  <2>5. ASSUME NEW t \in DOMAIN put PROVE \E j : Quotes(R, t, j, k) /\ put[t] = QuoteOf(R[j])
    <3>1. CASE t = R[k].ticker
      BY <2>1, <2>2, <2>4, <3>1
    <3>2. CASE t # R[k].ticker
      <4>1. t \in DOMAIN latest /\ put[t] = latest[t]
        BY <2>4, <3>2
      <4>2. PICK j : Quotes(R, t, j, k - 1) /\ latest[t] = QuoteOf(R[j])
        BY <4>1 DEF LatestIs
      <4> QED BY <1>1, <3>2, <4>1, <4>2
    <3> QED BY <3>1, <3>2
  <2> QED BY <2>2, <2>3, <2>5 DEF LatestIs
<1> QED BY <1>2, <1>3, <1>4

\* What booking a pricing changes.
LEMMA BookedKeeps ==
  ASSUME NEW scan, DOMAIN scan = ScanFields, NEW p, NEW next, next = Booked(scan, p)
  PROVE  /\ DOMAIN next = ScanFields /\ next.latest = scan.latest
         /\ next.priced = Append(scan.priced, p)
<1>1. CASE ~ Cheap(p)
  BY <1>1 DEF Booked, ScanFields
<1>2. CASE Cheap(p) /\ scan.open[p.event] = 0
  BY <1>2 DEF Booked, ScanFields
<1>3. CASE Cheap(p) /\ scan.open[p.event] # 0
  BY <1>3 DEF Booked, ScanFields
<1> QED BY <1>1, <1>2, <1>3

LEMMA DearBooked ==
  ASSUME NEW scan, DOMAIN scan = ScanFields, NEW p, ~ Cheap(p), NEW next, next = Booked(scan, p)
  PROVE  next.episodes = scan.episodes /\ next.open = [scan.open EXCEPT ![p.event] = 0]
<1> QED BY DEF Booked, ScanFields

LEMMA CheapOpens ==
  ASSUME NEW scan, DOMAIN scan = ScanFields, NEW p, Cheap(p), scan.open[p.event] = 0,
         NEW next, next = Booked(scan, p)
  PROVE  /\ next.episodes = Append(scan.episodes, NewEpisode(p))
         /\ next.open = [scan.open EXCEPT ![p.event] = Len(scan.episodes) + 1]
<1> QED BY DEF Booked, ScanFields

LEMMA CheapExtends ==
  ASSUME NEW scan, DOMAIN scan = ScanFields, NEW p, Cheap(p), scan.open[p.event] # 0,
         NEW next, next = Booked(scan, p)
  PROVE  /\ next.episodes = [scan.episodes EXCEPT ![scan.open[p.event]] = Extended(@, p)]
         /\ next.open = scan.open
<1> QED BY DEF Booked, ScanFields

\* What one row makes of the scan.
Skips(R, scan, row, next) ==
  /\ next.priced = scan.priced /\ next.episodes = scan.episodes /\ next.open = scan.open
  /\ \/ ~ row.book.complete /\ next.latest = scan.latest
     \/ next.latest = Dropped(scan.latest, row.ticker)
     \/ /\ row.book.complete /\ DOMAIN row.book.no # {}
        /\ next.latest = Put(scan.latest, row.ticker, QuoteOf(row))

Prices(R, P, scan, row, next) ==
  LET latest == Put(scan.latest, row.ticker, QuoteOf(row))
      wanted == LegsOf(R, row.ticker)
  IN  /\ row.book.complete /\ DOMAIN row.book.no # {}
      /\ wanted \subseteq DOMAIN latest /\ ~ Stale(P, latest, wanted, row.captured, MaxLegAge)
      /\ ~ Cardinality(wanted) < 2
      /\ next = Booked([scan EXCEPT !.latest = latest], PricingOf(row, latest, wanted))

LEMMA ScanRowIs ==
  ASSUME NEW R, NEW P, NEW row, NEW scan, DOMAIN scan = ScanFields,
         NEW next, next = ScanRow(R, P, MaxLegAge, scan, row)
  PROVE  DOMAIN next = ScanFields /\ (Skips(R, scan, row, next) \/ Prices(R, P, scan, row, next))
<1>1. PICK latest : latest = Put(scan.latest, row.ticker, QuoteOf(row))
  OBVIOUS
<1>2. PICK wanted : wanted = LegsOf(R, row.ticker)
  OBVIOUS
<1>3. PICK kept : kept = [scan EXCEPT !.latest = latest]
  OBVIOUS
<1>4. /\ DOMAIN kept = ScanFields /\ kept.latest = latest
      /\ kept.priced = scan.priced /\ kept.episodes = scan.episodes /\ kept.open = scan.open
  BY <1>3 DEF ScanFields
<1>5. CASE ~ row.book.complete
  BY <1>5 DEF ScanRow, Skips
<1>6. CASE row.book.complete /\ DOMAIN row.book.no = {}
  <2>1. next = [scan EXCEPT !.latest = Dropped(@, row.ticker)]
    BY <1>6 DEF ScanRow
  <2> QED BY <2>1 DEF Skips, ScanFields
<1>7. CASE row.book.complete /\ DOMAIN row.book.no # {}
  <2>1. next = IF Cardinality(wanted) < 2 THEN kept
               ELSE IF ~ wanted \subseteq DOMAIN latest
                    THEN [kept EXCEPT !.skippedIncomplete = @ + 1]
               ELSE IF Stale(P, latest, wanted, row.captured, MaxLegAge)
                    THEN [kept EXCEPT !.skippedStale = @ + 1]
               ELSE Booked(kept, PricingOf(row, latest, wanted))
    BY <1>1, <1>2, <1>3, <1>7 DEF ScanRow
  <2>2. CASE Cardinality(wanted) < 2
    BY <1>1, <1>4, <1>7, <2>1, <2>2 DEF Skips
  <2>3. CASE ~ Cardinality(wanted) < 2 /\ ~ wanted \subseteq DOMAIN latest
    <3>1. next = [kept EXCEPT !.skippedIncomplete = @ + 1]
      BY <2>1, <2>3
    <3>2. /\ DOMAIN next = ScanFields /\ next.latest = latest
          /\ next.priced = scan.priced /\ next.episodes = scan.episodes /\ next.open = scan.open
      BY <1>4, <3>1 DEF ScanFields
    <3> QED BY <1>1, <1>7, <3>2 DEF Skips
  <2>4. CASE /\ ~ Cardinality(wanted) < 2 /\ wanted \subseteq DOMAIN latest
             /\ Stale(P, latest, wanted, row.captured, MaxLegAge)
    <3>1. next = [kept EXCEPT !.skippedStale = @ + 1]
      BY <2>1, <2>4
    <3>2. /\ DOMAIN next = ScanFields /\ next.latest = latest
          /\ next.priced = scan.priced /\ next.episodes = scan.episodes /\ next.open = scan.open
      BY <1>4, <3>1 DEF ScanFields
    <3> QED BY <1>1, <1>7, <3>2 DEF Skips
  <2>5. CASE /\ ~ Cardinality(wanted) < 2 /\ wanted \subseteq DOMAIN latest
             /\ ~ Stale(P, latest, wanted, row.captured, MaxLegAge)
    <3>1. next = Booked(kept, PricingOf(row, latest, wanted))
      BY <2>1, <2>5
    <3>2. DOMAIN next = ScanFields
      BY <1>4, <3>1, BookedKeeps
    <3>3. Prices(R, P, scan, row, next)
      BY <1>1, <1>2, <1>3, <1>7, <2>5, <3>1 DEF Prices
    <3> QED BY <3>2, <3>3
  <2> QED BY <2>2, <2>3, <2>4, <2>5
<1> QED BY <1>5, <1>6, <1>7

\* The pricing of a row.
LEMMA PricingIs ==
  ASSUME NEW R, NEW P, NEW k \in Nat \ {0}, NEW latest, LatestIs(R, latest, k),
         NEW wanted, wanted = LegsOf(R, R[k].ticker), wanted \subseteq DOMAIN latest,
         ~ Stale(P, latest, wanted, R[k].captured, MaxLegAge)
  PROVE  PricedAt(R, P, PricingOf(R[k], latest, wanted), k)
<1>1. PICK ask : ask = [t \in wanted |-> latest[t].ask]
  OBVIOUS
<1>2. PICK p : p = PricingOf(R[k], latest, wanted)
  OBVIOUS
<1>3. p.at = R[k].captured /\ p.event = EventOf[R[k].ticker] /\ p.ask = ask
  BY <1>1, <1>2 DEF PricingOf
<1>4. ASSUME NEW t \in wanted
      PROVE  \E j : /\ Quotes(R, t, j, k)
                    /\ ask[t] = BestYesAsk(R[j].book).ask
                    /\ ~ R[k].captured - LastConfirmed(P, t, R[k].captured, R[j].captured) > MaxLegAge
  <2>1. PICK j : Quotes(R, t, j, k) /\ latest[t] = QuoteOf(R[j])
    BY <1>4 DEF LatestIs
  <2>2. latest[t].ask = BestYesAsk(R[j].book).ask /\ latest[t].at = R[j].captured
    BY <2>1 DEF QuoteOf
  <2>3. ask[t] = latest[t].ask
    BY <1>1
  <2>4. ~ R[k].captured - LastConfirmed(P, t, R[k].captured, latest[t].at) > MaxLegAge
    BY DEF Stale
  <2> QED BY <2>1, <2>2, <2>3, <2>4
<1>5. DOMAIN ask = wanted
  BY <1>1
<1> QED BY <1>2, <1>3, <1>4, <1>5 DEF PricedAt

LEMMA ScanStep ==
  ASSUME NEW R, NEW P, NEW k \in Nat \ {0}, NEW scan, ScanIs(R, P, scan, k - 1),
         NEW next, next = ScanRow(R, P, MaxLegAge, scan, R[k])
  PROVE  ScanIs(R, P, next, k)
<1>1. DOMAIN scan = ScanFields /\ LatestIs(R, scan.latest, k - 1)
  BY DEF ScanIs
<1>2. /\ DOMAIN next = ScanFields
      /\ Skips(R, scan, R[k], next) \/ Prices(R, P, scan, R[k], next)
  BY <1>1, ScanRowIs
<1>3. \A i \in DOMAIN scan.priced : \E m \in 1 .. k : PricedAt(R, P, scan.priced[i], m)
  <2>1. \A m \in 1 .. (k - 1) : m \in 1 .. k
    OBVIOUS
  <2> QED BY <2>1 DEF ScanIs
<1>4. CASE Skips(R, scan, R[k], next)
  <2>1. LatestIs(R, next.latest, k)
    BY <1>1, <1>4, LatestKept DEF Skips
  <2>2. next.priced = scan.priced
    BY <1>4 DEF Skips
  <2> QED BY <1>2, <1>3, <2>1, <2>2 DEF ScanIs
<1>5. CASE Prices(R, P, scan, R[k], next)
  <2>1. PICK latest : latest = Put(scan.latest, R[k].ticker, QuoteOf(R[k]))
    OBVIOUS
  <2>2. PICK wanted : wanted = LegsOf(R, R[k].ticker)
    OBVIOUS
  <2>3. PICK p : p = PricingOf(R[k], latest, wanted)
    OBVIOUS
  <2>4. PICK kept : kept = [scan EXCEPT !.latest = latest]
    OBVIOUS
  <2>5. /\ R[k].book.complete /\ DOMAIN R[k].book.no # {}
        /\ wanted \subseteq DOMAIN latest /\ ~ Stale(P, latest, wanted, R[k].captured, MaxLegAge)
        /\ next = Booked(kept, p)
    BY <1>5, <2>1, <2>2, <2>3, <2>4 DEF Prices
  <2>6. DOMAIN kept = ScanFields /\ kept.latest = latest /\ kept.priced = scan.priced
    BY <1>1, <2>4 DEF ScanFields
  <2>7. next.latest = latest /\ next.priced = Append(scan.priced, p)
    <3>1. next = Booked(kept, p) /\ DOMAIN kept = ScanFields
      BY <2>5, <2>6
    <3>2. next.latest = kept.latest /\ next.priced = Append(kept.priced, p)
      BY <3>1, BookedKeeps
    <3> QED BY <2>6, <3>2
  <2>8. LatestIs(R, latest, k)
    BY <1>1, <2>1, <2>5, LatestKept
  <2>9. PricedAt(R, P, p, k)
    BY <2>2, <2>3, <2>5, <2>8, PricingIs
  <2>10. PICK X : scan.priced \in Seq(X)
    BY DEF ScanIs
  <2>11. PICK priced : priced = next.priced
    OBVIOUS
  <2>12. /\ priced \in Seq(X \cup {p})
         /\ \A i \in DOMAIN scan.priced : priced[i] = scan.priced[i]
         /\ priced[Len(scan.priced) + 1] = p
         /\ \A i \in DOMAIN priced : i \in DOMAIN scan.priced \/ i = Len(scan.priced) + 1
    BY <2>7, <2>10, <2>11, AppendAny
  <2>13. k \in 1 .. k
    OBVIOUS
  <2>14. \A i \in DOMAIN priced : \E m \in 1 .. k : PricedAt(R, P, priced[i], m)
    BY <1>3, <2>9, <2>12, <2>13
  <2> QED BY <1>2, <2>7, <2>8, <2>11, <2>12, <2>14 DEF ScanIs
<1> QED BY <1>2, <1>4, <1>5

LEMMA NothingScannedIs == ASSUME NEW R, NEW P PROVE ScanIs(R, P, NothingScanned, 0)
<1>1. /\ DOMAIN NothingScanned = ScanFields /\ NothingScanned.priced = <<>>
      /\ NothingScanned.latest = Nobody
  BY DEF NothingScanned, ScanFields
<1>2. LatestIs(R, Nobody, 0)
  BY DEF LatestIs, Nobody
<1>3. <<>> \in Seq({}) /\ DOMAIN <<>> = {}
  OBVIOUS
<1> QED BY <1>1, <1>2, <1>3 DEF ScanIs

\* What the scan of the archive gives.
LEMMA ScanHolds ==
  ASSUME NEW R, NEW P, Len(R) \in Nat, DOMAIN R = 1 .. Len(R)
  PROVE  ScanIs(R, P, BasketScan(R, P, MaxLegAge), Len(R))
<1>1. PICK run : IsReading("baskets", R, P, run) /\ Folded("baskets", R, P) = run[Len(R)]
  BY ReadingExists
<1>2. BasketScan(R, P, MaxLegAge) = Folded("baskets", R, P)
  BY DEF BasketScan, Folded, Base, Step
<1> DEFINE Good == {i \in 0 .. Len(R) : ScanIs(R, P, run[i], i)}
<1>3. 0 \in Good
  <2>1. run[0] = NothingScanned
    BY <1>1 DEF IsReading, Base
  <2>2. ScanIs(R, P, NothingScanned, 0)
    BY NothingScannedIs
  <2> QED BY <2>1, <2>2
<1>4. ASSUME NEW i \in 1 .. Len(R), i - 1 \in Good PROVE i \in Good
  <2>1. run[i] = ScanRow(R, P, MaxLegAge, run[i - 1], R[i])
    BY <1>1 DEF IsReading, Step
  <2>2. ScanIs(R, P, run[i - 1], i - 1) /\ i \in Nat \ {0} /\ i \in 0 .. Len(R)
    BY <1>4
  <2>3. ScanIs(R, P, run[i], i)
    BY <2>1, <2>2, ScanStep
  <2> QED BY <2>2, <2>3
<1>5. Good \in SUBSET (0 .. Len(R))
  OBVIOUS
<1> HIDE DEF Good
<1>6. Good = 0 .. Len(R)
  BY <1>3, <1>4, <1>5, ReadingKeeps
<1>7. Len(R) \in Good
  BY <1>6
<1>8. ScanIs(R, P, run[Len(R)], Len(R))
  BY <1>7 DEF Good
<1> QED BY <1>1, <1>2, <1>8

\* A market's last confirmation is its default or the end of a poll, if that was in time.
LEMMA ConfirmationIs ==
  ASSUME NEW P \in Seq(Poll), NEW t, NEW at \in Nat, NEW default \in Nat
  PROVE  LET c == LastConfirmed(P, t, at, default)
         IN  \/ c = default
             \/ \E i \in DOMAIN P : /\ t \in P[i].confirmed
                                    /\ P[i].completed <= at /\ c = P[i].completed
<1> DEFINE heard == {i \in DOMAIN P : t \in P[i].confirmed /\ P[i].completed <= at}
           ends == {P[i].completed : i \in heard} \cup {default}
<1>1. \A i \in DOMAIN P : P[i].completed \in Nat
  <2>1. \A i \in DOMAIN P : P[i] \in Poll
    OBVIOUS
  <2> QED BY <2>1 DEF Poll
<1>2. ends \in SUBSET Nat
  BY <1>1
<1>3. \A e \in ends : e <= at \/ e = default
  BY <1>1
<1>4. PICK top \in Nat : \A e \in ends : e <= top
  <2> HIDE DEF ends
  <2>1. CASE at <= default
    <3>1. \A e \in ends : e <= default
      BY <1>2, <1>3, <2>1
    <3> QED BY <3>1
  <2>2. CASE default <= at
    <3>1. \A e \in ends : e <= at
      BY <1>2, <1>3, <2>2
    <3> QED BY <3>1
  <2>3. at <= default \/ default <= at
    OBVIOUS
  <2> QED BY <2>1, <2>2, <2>3
<1>5. IsFiniteSet(ends)
  <2> HIDE DEF ends
  <2>1. ends \in SUBSET (0 .. top)
    BY <1>2, <1>4
  <2>2. IsFiniteSet(0 .. top)
    BY FS_Interval
  <2> QED BY <2>1, <2>2, FS_Subset
<1>6. LastConfirmed(P, t, at, default) = Max(ends)
  BY DEF LastConfirmed
<1>7. Max(ends) \in ends
  <2>1. ends # {} /\ default \in ends
    OBVIOUS
  <2> HIDE DEF ends
  <2>2. ends \in SUBSET Int
    BY <1>2
  <2> QED BY <1>5, <2>1, <2>2, MaxOfIntegers
<1> QED BY <1>6, <1>7

-----------------------------------------------------------------------------
(* The rows, and the answers they are of.                                   *)

\* Row n is of answer at[n]; the rows are those of the answers stored and kept, in order.
AreOf(R, S, at) ==
  /\ at \in [DOMAIN R -> DOMAIN S]
  /\ \A n \in DOMAIN R :
       /\ S[at[n]].stored /\ S[at[n]].status = "kept"
       /\ R[n].ticker = S[at[n]].ticker /\ R[n].captured = S[at[n]].at /\ R[n].book = S[at[n]].book
  /\ \A m, n \in DOMAIN R : m < n => at[m] < at[n]
  /\ \A i \in DOMAIN S : S[i].stored /\ S[i].status = "kept" => \E n \in DOMAIN R : at[n] = i

LEMMA PlacesAre ==
  ASSUME answers \in Seq(Reply)
  PROVE  /\ Cardinality(Stored) \in Nat
         /\ \A i \in Stored : Place(i) \in 1 .. Cardinality(Stored)
         /\ \A i, k \in Stored : i < k => Place(i) < Place(k)
         /\ \A n \in 1 .. Cardinality(Stored) : \E i \in Stored : Place(i) = n
<1>1. PICK len \in Nat : DOMAIN answers = 1 .. len
  OBVIOUS
<1>2. Stored \in SUBSET (1 .. len) /\ IsFiniteSet(Stored)
  <2>1. Stored \in SUBSET (1 .. len)
    BY <1>1 DEF Stored
  <2>2. IsFiniteSet(1 .. len)
    BY FS_Interval
  <2> QED BY ONLY <2>1, <2>2, FS_Subset
<1>3. PICK size \in Nat : size = Cardinality(Stored)
  BY <1>2, FS_CardinalityType
<1> DEFINE below(i) == {j \in Stored : j <= i}
<1>4. \A i : Place(i) = Cardinality(below(i)) /\ below(i) \in SUBSET Stored
  BY DEF Place
<1>5. \A i : IsFiniteSet(below(i)) /\ Place(i) \in Nat /\ Place(i) <= size
  <2>1. ASSUME NEW i
        PROVE  IsFiniteSet(below(i)) /\ Place(i) \in Nat /\ Place(i) <= size
    <3>1. PICK T \in SUBSET Stored : T = below(i)
      BY <1>4
    <3>2. IsFiniteSet(T) /\ Cardinality(T) <= Cardinality(Stored)
      BY <1>2, <3>1, FS_Subset
    <3>3. Cardinality(T) \in Nat
      BY <3>2, FS_CardinalityType
    <3> QED BY <1>3, <1>4, <3>1, <3>2, <3>3
  <2> QED BY <2>1
<1>6. ASSUME NEW i \in Stored PROVE Place(i) \in 1 .. size
  <2>1. i \in below(i)
    <3>1. i \in 1 .. len
      BY <1>2
    <3>2. i <= i
      BY <3>1
    <3> QED BY <3>2
  <2>2. PICK T : T = below(i)
    OBVIOUS
  <2>3. i \in T /\ IsFiniteSet(T) /\ Place(i) = Cardinality(T)
    <3> HIDE DEF below
    <3> QED BY <1>4, <1>5, <2>1, <2>2
  <2>4. Cardinality(T) # 0
    BY <2>3, FS_EmptySet
  <2>5. Place(i) \in Nat /\ Place(i) <= size
    BY <1>5
  <2> QED BY ONLY <2>3, <2>4, <2>5, size \in Nat
<1>7. ASSUME NEW i \in Stored, NEW k \in Stored, i < k PROVE Place(i) < Place(k)
  <2>1. PICK T, U : T = below(i) /\ U = below(k)
    OBVIOUS
  <2>2. i \in Int /\ k \in Int /\ \A j \in Stored : j \in Int
    BY <1>2
  <2>3. T \in SUBSET U
    <3>1. ASSUME NEW j \in T PROVE j \in U
      <4>1. j \in Stored /\ j <= i /\ j \in Int
        BY <2>1, <2>2, <3>1
      <4>2. j <= k
        BY <1>7, <2>2, <4>1
      <4> QED BY <2>1, <4>1, <4>2
    <3> QED BY <3>1
  <2>4. k \in U /\ k \notin T
    BY <1>7, <2>1, <2>2
  <2>5. IsFiniteSet(U)
    BY <1>5, <2>1
  <2>6. Cardinality(T) <= Cardinality(U) /\ (Cardinality(U) = Cardinality(T) => U = T)
    BY ONLY <2>3, <2>5, FS_Subset
  <2>7. Place(i) = Cardinality(T) /\ Place(k) = Cardinality(U)
    BY <1>4, <2>1
  <2> HIDE DEF below
  <2> QED BY <1>5, <2>4, <2>6, <2>7
<1>8. ASSUME NEW n \in 1 .. size PROVE \E i \in Stored : Place(i) = n
  <2> DEFINE place == [i \in Stored |-> Place(i)]
  <2>1. place \in [Stored -> 1 .. size]
    BY <1>6
  <2>2. \A i, k \in Stored : place[i] = place[k] => i = k
    <3>1. ASSUME NEW i \in Stored, NEW k \in Stored, place[i] = place[k] PROVE i = k
      <4>1. i \in Int /\ k \in Int /\ Place(i) \in Nat /\ Place(k) \in Nat /\ Place(i) = Place(k)
        <5>1. place[i] = Place(i) /\ place[k] = Place(k)
          OBVIOUS
        <5>2. i \in Int /\ k \in Int
          BY <1>2
        <5>3. Place(i) \in 1 .. size /\ Place(k) \in 1 .. size
          BY <1>6
        <5>4. \A m \in 1 .. size : m \in Nat
          OBVIOUS
        <5> HIDE DEF place, below
        <5> QED BY <3>1, <5>1, <5>2, <5>3, <5>4
      <4>2. ~ i < k /\ ~ k < i
        BY <1>7, <4>1
      <4> QED BY <4>1, <4>2
    <3> QED BY <3>1
  <2>3. DOMAIN place = Stored
    OBVIOUS
  <2> HIDE DEF place
  <2>4. place \in Injection(Stored, 1 .. size)
    BY <2>1, <2>2, <2>3 DEF Injection, IsInjective
  <2>5. IsFiniteSet(1 .. size) /\ Cardinality(1 .. size) = size
    <3>1. 1 \in Int /\ size \in Int /\ (1 > size => size = 0) /\ size - 1 + 1 = size
      OBVIOUS
    <3> QED BY <3>1, FS_Interval
  <2>6. Cardinality(Stored) = Cardinality(1 .. size) <=> place \in Surjection(Stored, 1 .. size)
    BY ONLY <2>4, <2>5, FS_Injection
  <2>7. place \in Surjection(Stored, 1 .. size)
    BY <1>3, <2>5, <2>6
  <2>8. PICK i \in Stored : place[i] = n
    BY <2>7 DEF Surjection
  <2> QED BY <2>8 DEF place
<1> QED BY <1>3, <1>6, <1>7, <1>8

LEMMA RowsAre ==
  ASSUME answers \in Seq(Reply)
  PROVE  Rows \in Seq(Row) /\ \E at : AreOf(Rows, answers, at)
<1>1. PICK size \in Nat : size = Cardinality(Stored)
  BY PlacesAre
<1>2. /\ \A i \in Stored : Place(i) \in 1 .. size
      /\ \A i, k \in Stored : i < k => Place(i) < Place(k)
      /\ \A n \in 1 .. size : \E i \in Stored : Place(i) = n
  BY <1>1, PlacesAre
<1> DEFINE at == [n \in 1 .. size |-> CHOOSE i \in Stored : Place(i) = n]
<1>3. \A n \in 1 .. size : at[n] \in Stored /\ Place(at[n]) = n
  BY <1>2
<1>4. \A i \in Stored : i \in DOMAIN answers /\ answers[i].stored /\ answers[i].status = "kept"
  BY DEF Stored, Kept
<1>5. \A i \in Stored : i \in Int
  <2>1. DOMAIN answers = 1 .. Len(answers)
    OBVIOUS
  <2> QED BY <1>4, <2>1
<1>6. PICK R : R = Rows
  OBVIOUS
<1>7. R = [n \in 1 .. size |-> RowOf(answers[at[n]])]
  BY <1>1, <1>6 DEF Rows
<1>8. DOMAIN at = 1 .. size
  OBVIOUS
<1> HIDE DEF at
<1>9. ASSUME NEW n \in 1 .. size
      PROVE  /\ R[n] \in Row
             /\ R[n].ticker = answers[at[n]].ticker /\ R[n].captured = answers[at[n]].at
             /\ R[n].book = answers[at[n]].book
  <2>1. PICK a \in Reply : a = answers[at[n]]
    BY <1>3, <1>4
  <2>2. R[n] = [ticker |-> a.ticker, captured |-> a.at, book |-> a.book]
    BY <1>7, <2>1 DEF RowOf
  <2>3. a.ticker \in Ticker /\ a.at \in Nat /\ a.book \in Shown
    BY DEF Reply
  <2> QED BY <2>1, <2>2, <2>3 DEF Row
<1>10. DOMAIN R = 1 .. size /\ R \in Seq(Row)
  <2>1. R \in [1 .. size -> Row]
    BY <1>7, <1>9
  <2> QED BY <2>1
<1>11. at \in [DOMAIN R -> DOMAIN answers]
  <2>1. at \in [1 .. size -> DOMAIN answers]
    BY <1>3, <1>4, <1>8 DEF at
  <2> QED BY <1>10, <2>1
<1>12. ASSUME NEW m \in 1 .. size, NEW n \in 1 .. size, m < n PROVE at[m] < at[n]
  <2>1. at[m] \in Stored /\ at[n] \in Stored /\ Place(at[m]) = m /\ Place(at[n]) = n
    BY <1>3
  <2>2. at[n] < at[m] => Place(at[n]) < Place(at[m])
    BY <1>2, <2>1
  <2>3. at[n] # at[m] /\ ~ at[n] < at[m]
    BY <1>12, <2>1, <2>2
  <2> QED BY <1>5, <2>1, <2>3
<1>13. ASSUME NEW i \in DOMAIN answers, answers[i].stored, answers[i].status = "kept"
       PROVE  \E n \in 1 .. size : at[n] = i
  <2>1. i \in Stored
    BY <1>13 DEF Stored, Kept
  <2>2. PICK n \in 1 .. size : n = Place(i)
    BY <1>2, <2>1
  <2>3. at[n] \in Stored /\ Place(at[n]) = Place(i)
    BY <1>3, <2>2
  <2>4. ~ at[n] < i /\ ~ i < at[n]
    <3>1. Place(i) \in Int
      BY <1>2, <2>1
    <3> QED BY <1>2, <2>1, <2>3, <3>1
  <2>5. at[n] = i
    BY <1>5, <2>1, <2>3, <2>4
  <2> QED BY <2>5
<1>14. AreOf(R, answers, at)
  BY <1>3, <1>4, <1>9, <1>10, <1>11, <1>12, <1>13 DEF AreOf
<1> QED BY <1>6, <1>10, <1>14

-----------------------------------------------------------------------------
(* What a basket is priced at, and what was seen.                           *)

\* The poller of answer k had stored its book before answer i, and saw it all along.
Earlier(S, k, i) ==
  \E j \in DOMAIN S : /\ S[j].status = "kept" /\ S[j].ticker = S[k].ticker
                      /\ j < i /\ S[j].stored
                      /\ Same(S, j, k) /\ Steady(S, j, k) /\ S[j].book = S[k].book

\* Rows are in the order of the answers they are of, and of their times.
LEMMA RowsInOrder ==
  ASSUME NEW R \in Seq(Row), NEW S, NEW time, Tells(S, time), NEW at, AreOf(R, S, at),
         NEW m \in DOMAIN R, NEW n \in DOMAIN R
  PROVE  /\ m \in Nat /\ n \in Nat /\ at[m] \in Int /\ at[n] \in Int
         /\ m <= n <=> at[m] <= at[n]
         /\ m <= n => R[m].captured <= R[n].captured
         /\ R[m].captured \in Nat /\ R[n].captured \in Nat
<1>1. S \in Seq(Reply) /\ InTime(S, time)
  BY DEF Tells
<1>2. PICK size \in Nat, len \in Nat : DOMAIN R = 1 .. size /\ DOMAIN S = 1 .. len
  BY <1>1
<1>3. m \in Nat /\ n \in Nat /\ at[m] \in DOMAIN S /\ at[n] \in DOMAIN S
      /\ at[m] \in Int /\ at[n] \in Int
  BY <1>2 DEF AreOf
<1>4. (m < n => at[m] < at[n]) /\ (n < m => at[n] < at[m])
  BY DEF AreOf
<1>5. m <= n <=> at[m] <= at[n]
  BY <1>3, <1>4
<1>6. R[m].captured = S[at[m]].at /\ R[n].captured = S[at[n]].at
  BY DEF AreOf
<1>7. m <= n => R[m].captured <= R[n].captured
  BY <1>1, <1>3, <1>5, <1>6 DEF InTime
<1>8. R[m].captured \in Nat /\ R[n].captured \in Nat
  <2>1. R[m] \in Row /\ R[n] \in Row
    OBVIOUS
  <2> QED BY <2>1 DEF Row
<1> QED BY <1>3, <1>5, <1>7, <1>8

\* No usable answer is stored and kept between the one a quote is of and the pricing.
LEMMA QuoteIsLast ==
  ASSUME NEW R \in Seq(Row), NEW S, NEW time, Tells(S, time), NEW at, AreOf(R, S, at),
         NEW m \in DOMAIN R, NEW t, NEW j, Quotes(R, t, j, m),
         NEW k \in DOMAIN S, S[k].stored, S[k].status = "kept", S[k].ticker = t,
         S[k].book.complete, S[k].at < R[m].captured
  PROVE  k <= at[j]
<1>1. PICK size \in Nat, len \in Nat : DOMAIN R = 1 .. size /\ DOMAIN S = 1 .. len
  BY DEF Tells
<1>2. j \in DOMAIN R /\ j <= m
  BY <1>1 DEF Quotes
<1>3. PICK n \in DOMAIN R : at[n] = k
  BY DEF AreOf
<1>4. R[n].ticker = t /\ R[n].book.complete /\ R[n].captured = S[k].at
  BY <1>3 DEF AreOf
<1>5. /\ m \in Nat /\ n \in Nat /\ (m <= n => R[m].captured <= R[n].captured)
      /\ R[m].captured \in Nat /\ R[n].captured \in Nat
  BY RowsInOrder
<1>6. ~ m <= n
  BY <1>4, <1>5
<1>7. n \in 1 .. m
  BY <1>1, <1>5, <1>6
<1>8. n <= j
  BY <1>4, <1>7 DEF Quotes
<1>9. n <= j <=> at[n] <= at[j]
  BY <1>2, RowsInOrder
<1> QED BY <1>3, <1>8, <1>9

\* A usable answer after the one a quote is of, and before the pricing, is the quote still,
\* or a book its poller had stored before.
LEMMA QuoteStands ==
  ASSUME NEW R \in Seq(Row), NEW S, NEW time, Tells(S, time), NEW at, AreOf(R, S, at),
         NEW m \in DOMAIN R, NEW t, NEW j, Quotes(R, t, j, m)
  PROVE  \E i \in DOMAIN S :
           /\ S[i].status = "kept" /\ S[i].ticker = t /\ S[i].at <= R[m].captured
           /\ S[i].at = R[j].captured /\ S[i].book = R[j].book
           /\ \A k \in DOMAIN S : S[k].status = "kept" /\ S[k].ticker = t /\ i < k
                /\ S[k].at < R[m].captured /\ S[k].book.complete =>
                S[k].book = S[i].book \/ Earlier(S, k, i)
<1>1. PICK size \in Nat, len \in Nat : DOMAIN R = 1 .. size /\ DOMAIN S = 1 .. len
  BY DEF Tells
<1>2. j \in DOMAIN R /\ j <= m /\ R[j].ticker = t
  BY <1>1 DEF Quotes
<1>3. PICK i \in DOMAIN S : i = at[j]
  BY <1>2 DEF AreOf
<1>4. S[i].status = "kept" /\ S[i].ticker = t /\ S[i].at = R[j].captured /\ S[i].book = R[j].book
  BY <1>2, <1>3 DEF AreOf
<1>5. R[j].captured <= R[m].captured
  BY <1>2, RowsInOrder
<1>6. ASSUME NEW k \in DOMAIN S, S[k].stored, S[k].status = "kept", S[k].ticker = t,
             S[k].book.complete, S[k].at < R[m].captured
      PROVE  k <= i
  BY <1>3, <1>6, QuoteIsLast
<1>7. ASSUME NEW k \in DOMAIN S, S[k].status = "kept", S[k].ticker = t, i < k,
             S[k].at < R[m].captured, S[k].book.complete
      PROVE  S[k].book = S[i].book \/ Earlier(S, k, i)
  <2>1. i \in Int /\ k \in Int /\ ~ S[k].stored
    <3>1. i \in Int /\ k \in Int /\ ~ k <= i
      BY <1>1, <1>7
    <3> QED BY <1>6, <1>7, <3>1
  <2>2. PICK f : IsFound(S, f, k)
    BY <2>1 DEF Tells
  <2>3. /\ f \in DOMAIN S /\ f < k /\ S[f].stored /\ S[f].status = "kept"
        /\ Same(S, f, k) /\ Steady(S, f, k) /\ S[f].book = S[k].book
    BY <1>7, <2>2 DEF IsFound
  <2>4. S[f].ticker = t /\ S[f].book.complete
    BY <1>7, <2>3 DEF Same
  <2>5. S[f].at < R[m].captured
    <3>1. S[f].at <= S[k].at
      BY <1>1, <2>3 DEF Tells, InTime
    <3>2. S[f].at \in Nat /\ S[k].at \in Nat /\ R[m].captured \in Nat
      <4>1. S[f] \in Reply /\ S[k] \in Reply /\ R[m] \in Row
        BY <2>3 DEF Tells
      <4> QED BY <4>1 DEF Reply, Row
    <3> QED BY <1>7, <3>1, <3>2
  <2>6. f <= i
    BY <1>6, <2>3, <2>4, <2>5
  <2>7. CASE f = i
    BY <2>3, <2>7
  <2>8. CASE f # i
    <3>1. f < i
      BY <1>1, <2>3, <2>6, <2>8
    <3> QED BY <1>7, <2>3, <2>4, <3>1 DEF Earlier
  <2> QED BY <2>7, <2>8
<1> QED BY <1>4, <1>5, <1>7

\* A leg that is not stale was answered within the age allowed, or in a poll that was.
Fresh(S, P, t, moment) ==
  \E i \in DOMAIN S :
    /\ S[i].status = "kept" /\ S[i].ticker = t
    /\ \/ S[i].at <= moment /\ moment - S[i].at <= MaxLegAge
       \/ \E q \in DOMAIN P : /\ P[q].started <= S[i].at /\ S[i].at <= P[q].completed
                              /\ P[q].completed <= moment /\ moment - P[q].completed <= MaxLegAge

LEMMA LegAnswered ==
  ASSUME NEW S, NEW P \in Seq(Poll), \A q \in DOMAIN P : SawIn(S, P[q]),
         NEW t, NEW moment \in Nat, NEW from \in Nat, from <= moment,
         ~ moment - LastConfirmed(P, t, moment, from) > MaxLegAge,
         NEW first \in DOMAIN S, S[first].status = "kept", S[first].ticker = t,
         S[first].at = from
  PROVE  Fresh(S, P, t, moment)
<1>1. MaxLegAge \in Nat
  BY ArchiveConstants
<1>2. PICK c : c = LastConfirmed(P, t, moment, from)
  OBVIOUS
<1>3. \/ c = from
      \/ \E q \in DOMAIN P : t \in P[q].confirmed /\ P[q].completed <= moment /\ c = P[q].completed
  BY <1>2, ConfirmationIs
<1>4. ~ moment - c > MaxLegAge
  BY <1>2
<1>5. CASE c = from
  <2>1. moment - from <= MaxLegAge
    BY <1>1, <1>4, <1>5
  <2> QED BY <2>1 DEF Fresh
<1>6. CASE \E q \in DOMAIN P : /\ t \in P[q].confirmed /\ P[q].completed <= moment
                               /\ c = P[q].completed
  <2>1. PICK q \in DOMAIN P : /\ t \in P[q].confirmed /\ P[q].completed <= moment
                              /\ c = P[q].completed
    BY <1>6
  <2>2. PICK k \in DOMAIN S : /\ S[k].status = "kept" /\ S[k].ticker = t
                              /\ P[q].started <= S[k].at /\ S[k].at <= P[q].completed
    BY <2>1 DEF SawIn
  <2>3. P[q].completed \in Nat
    <3>1. P[q] \in Poll
      OBVIOUS
    <3> QED BY <3>1 DEF Poll
  <2>4. moment - P[q].completed <= MaxLegAge
    BY <1>1, <1>4, <2>1, <2>3
  <2> QED BY <2>1, <2>2, <2>4 DEF Fresh
<1> QED BY <1>3, <1>5, <1>6

LEMMA SeenIs ==
  ASSUME NEW S, S = answers
  PROVE  /\ \A t, i : i \in SeenOf(t) <=> i \in DOMAIN S /\ S[i].status = "kept" /\ S[i].ticker = t
         /\ \A i, k : SameStream(i, k) <=> Same(S, i, k)
         /\ \A i, k : NothingElse(i, k) <=> Steady(S, i, k)
<1>1. \A t, i : i \in SeenOf(t) <=> i \in DOMAIN S /\ S[i].status = "kept" /\ S[i].ticker = t
  BY DEF SeenOf, Kept
<1>2. \A i, k : SameStream(i, k) <=> Same(S, i, k)
  BY DEF SameStream, Same
<1>3. \A i, k : NothingElse(i, k) <=> Steady(S, i, k)
  BY DEF NothingElse, Steady, SameStream, Same
<1> QED BY <1>1, <1>2, <1>3

\* What is seen of a leg that is priced at q, at a moment.
PricedSo(S, t, ask, moment) ==
  \E i \in DOMAIN S :
    /\ S[i].status = "kept" /\ S[i].ticker = t /\ S[i].at <= moment
    /\ Offers(S[i]) /\ BestYesAsk(S[i].book).ask = ask
    /\ \A k \in DOMAIN S : S[k].status = "kept" /\ S[k].ticker = t /\ i < k
         /\ S[k].at < moment /\ S[k].book.complete =>
         S[k].book = S[i].book \/ Earlier(S, k, i)

\* A basket is priced at what its legs were seen to offer, and every leg was answered within
\* the age allowed or in a poll that was, though only changes are stored, whoever stores
\* them (baskets.py:409-457, service.py:227-262): whatever a poller saw since is the same
\* book, or one it had stored before; whatever cycles failed or were lost.
THEOREM PricedAsSeen == ArchiveSpec => []QuoteIsWhatWasSeen
<1>1. ASSUME HistoryInv PROVE QuoteIsWhatWasSeen
  <2>1. PICK S \in Seq(Reply), P \in Seq(Poll) : S = answers /\ P = polls
    BY <1>1 DEF HistoryInv, CycleType, Tells
  <2>2. Tells(S, now) /\ \A q \in DOMAIN P : SawIn(S, P[q])
    BY <1>1, <2>1 DEF HistoryInv
  <2>3. PICK R \in Seq(Row) : R = Rows /\ \E at : AreOf(R, S, at)
    BY <2>1, RowsAre
  <2>4. PICK at : AreOf(R, S, at)
    BY <2>3
  <2>5. DOMAIN R = 1 .. Len(R) /\ Len(R) \in Nat
    BY <2>3
  <2>6. PICK priced : priced = BasketScan(R, P, MaxLegAge).priced
    OBVIOUS
  <2>7. ScanIs(R, P, BasketScan(R, P, MaxLegAge), Len(R))
    BY <2>5, ScanHolds
  <2>8. ASSUME NEW p \in ToSet(priced), NEW t \in DOMAIN p.ask
        PROVE  PricedSo(S, t, p.ask[t], p.at) /\ Fresh(S, P, t, p.at)
    <3>1. PICK q \in DOMAIN priced : p = priced[q]
      BY DEF ToSet
    <3>2. PICK m \in DOMAIN R : PricedAt(R, P, p, m)
      BY <2>5, <2>6, <2>7, <3>1 DEF ScanIs
    <3>3. PICK j : /\ Quotes(R, t, j, m)
                   /\ p.ask[t] = BestYesAsk(R[j].book).ask
                   /\ ~ R[m].captured - LastConfirmed(P, t, R[m].captured, R[j].captured) > MaxLegAge
      BY <2>8, <3>2 DEF PricedAt
    <3>4. p.at = R[m].captured
      BY <3>2 DEF PricedAt
    <3>5. PICK i \in DOMAIN S :
           /\ S[i].status = "kept" /\ S[i].ticker = t /\ S[i].at <= R[m].captured
           /\ S[i].at = R[j].captured /\ S[i].book = R[j].book
           /\ \A k \in DOMAIN S : S[k].status = "kept" /\ S[k].ticker = t /\ i < k
                /\ S[k].at < R[m].captured /\ S[k].book.complete =>
                S[k].book = S[i].book \/ Earlier(S, k, i)
      BY <2>2, <2>4, <3>3, QuoteStands
    <3>6. R[j].book.complete /\ DOMAIN R[j].book.no # {}
      BY <3>3 DEF Quotes
    <3>7. Offers(S[i]) /\ BestYesAsk(S[i].book).ask = p.ask[t]
      BY <3>3, <3>5, <3>6 DEF Offers
    <3>8. PricedSo(S, t, p.ask[t], p.at)
      BY <3>4, <3>5, <3>7 DEF PricedSo
    <3>9. PICK moment \in Nat, from \in Nat : moment = R[m].captured /\ from = R[j].captured
      <4>1. j \in DOMAIN R
        BY <2>5, <3>3 DEF Quotes
      <4>2. R[m] \in Row /\ R[j] \in Row
        BY <4>1
      <4> QED BY <4>2 DEF Row
    <3>10. /\ from <= moment /\ ~ moment - LastConfirmed(P, t, moment, from) > MaxLegAge
           /\ S[i].at = from
      BY <3>3, <3>5, <3>9
    <3>11. Fresh(S, P, t, moment)
      BY <2>2, <3>5, <3>10, LegAnswered
    <3> QED BY <3>4, <3>8, <3>9, <3>11
  <2>9. /\ \A t, i : i \in SeenOf(t) <=> i \in DOMAIN S /\ S[i].status = "kept" /\ S[i].ticker = t
        /\ \A i, k : SameStream(i, k) <=> Same(S, i, k)
        /\ \A i, k : NothingElse(i, k) <=> Steady(S, i, k)
    BY <2>1, SeenIs
  <2>10. \A k, i : Earlier(S, k, i) => StoredBefore(k, i)
    BY <2>1, <2>9 DEF Earlier, StoredBefore
  <2>11. ASSUME NEW p \in ToSet(priced), NEW t \in DOMAIN p.ask
         PROVE  /\ \E i \in SeenOf(t) :
                     /\ answers[i].at <= p.at
                     /\ Offers(answers[i]) /\ BestYesAsk(answers[i].book).ask = p.ask[t]
                     /\ \A k \in SeenOf(t) :
                          i < k /\ answers[k].at < p.at /\ Usable(answers[k]) =>
                            answers[k].book = answers[i].book \/ StoredBefore(k, i)
                /\ \E i \in SeenOf(t) :
                     \/ answers[i].at <= p.at /\ p.at - answers[i].at <= MaxLegAge
                     \/ \E j \in DOMAIN polls :
                          /\ polls[j].started <= answers[i].at
                          /\ answers[i].at <= polls[j].completed
                          /\ polls[j].completed <= p.at /\ p.at - polls[j].completed <= MaxLegAge
    <3>1. PricedSo(S, t, p.ask[t], p.at) /\ Fresh(S, P, t, p.at)
      BY <2>8
    <3>2. PICK i \in DOMAIN S :
            /\ S[i].status = "kept" /\ S[i].ticker = t /\ S[i].at <= p.at
            /\ Offers(S[i]) /\ BestYesAsk(S[i].book).ask = p.ask[t]
            /\ \A k \in DOMAIN S : S[k].status = "kept" /\ S[k].ticker = t /\ i < k
                 /\ S[k].at < p.at /\ S[k].book.complete =>
                 S[k].book = S[i].book \/ Earlier(S, k, i)
      BY <3>1 DEF PricedSo
    <3>3. \A k \in SeenOf(t) : i < k /\ S[k].at < p.at /\ Usable(S[k]) =>
            S[k].book = S[i].book \/ StoredBefore(k, i)
      BY <2>9, <2>10, <3>2 DEF Usable
    <3>4. i \in SeenOf(t)
      BY <2>9, <3>2
    <3>5. \E k \in SeenOf(t) :
            \/ S[k].at <= p.at /\ p.at - S[k].at <= MaxLegAge
            \/ \E j \in DOMAIN P :
                 /\ P[j].started <= S[k].at /\ S[k].at <= P[j].completed
                 /\ P[j].completed <= p.at /\ p.at - P[j].completed <= MaxLegAge
      BY <2>9, <3>1 DEF Fresh
    <3> QED BY <2>1, <3>2, <3>3, <3>4, <3>5
  <2> QED BY <2>1, <2>3, <2>6, <2>11 DEF QuoteIsWhatWasSeen
<1> QED BY <1>1, HistoryHolds, PTL

-----------------------------------------------------------------------------
(* The maker scan: what fills a bid, and what was seen.                     *)

\* An order is of a row's moment, and is filled by what the rows after it offer.
IsOrder(R, o, k) ==
  \E m \in 1 .. k :
    /\ o.at = R[m].captured
    /\ o.filled = FillsBy(R, o.ticker, o.price, o.at, o.at + Horizon)

MakerFields == {"latest", "moments", "attempts"}

MakerIs(R, scan, k) ==
  /\ DOMAIN scan = MakerFields
  /\ \E X : scan.attempts \in Seq(X)
  /\ \A i \in DOMAIN scan.attempts : \A o \in scan.attempts[i] : IsOrder(R, o, k)

LEMMA OrdersAre ==
  ASSUME NEW R, NEW k \in Nat \ {0}, NEW quotes,
         NEW o \in Orders(R, quotes, R[k].captured, Horizon, Window)
  PROVE  IsOrder(R, o, k)
<1>1. PICK t \in DOMAIN quotes :
        o = [ticker |-> t, at |-> R[k].captured, price |-> ImprovedBid(quotes[t]),
             filled |-> FillsBy(R, t, ImprovedBid(quotes[t]), R[k].captured, R[k].captured + Horizon),
             after |-> MovedAgainst(R, t, ImprovedBid(quotes[t]), R[k].captured, Window)]
  BY DEF Orders
<1>2. /\ o.ticker = t /\ o.at = R[k].captured /\ o.price = ImprovedBid(quotes[t])
      /\ o.filled = FillsBy(R, t, ImprovedBid(quotes[t]), R[k].captured, R[k].captured + Horizon)
  BY <1>1
<1>3. o.filled = FillsBy(R, o.ticker, o.price, o.at, o.at + Horizon)
  BY <1>2
<1>4. k \in 1 .. k
  OBVIOUS
<1> QED BY <1>2, <1>3, <1>4 DEF IsOrder

\* A row leaves the attempts as they were, or adds the orders of its moment.
LEMMA MakerRowIs ==
  ASSUME NEW R, NEW P, NEW row, NEW scan, DOMAIN scan = MakerFields,
         NEW next, next = MakerRow(R, P, MaxLegAge, Horizon, Window, scan, row)
  PROVE  /\ DOMAIN next = MakerFields
         /\ \/ next.attempts = scan.attempts
            \/ \E quotes : next.attempts
                 = Append(scan.attempts, Orders(R, quotes, row.captured, Horizon, Window))
<1> DEFINE quote == [bid |-> Max(DOMAIN row.book.yes), ask |-> BestYesAsk(row.book).ask,
                     at |-> row.captured]
           latest == Put(scan.latest, row.ticker, quote)
           wanted == LegsAmong(R, CompleteRows(R), row.ticker)
           kept == [scan EXCEPT !.latest = latest]
           quotes == [t \in wanted |-> latest[t]]
           orders == Orders(R, quotes, row.captured, Horizon, Window)
           idle == \/ Cardinality(wanted) < 2
                   \/ ~ wanted \subseteq DOMAIN latest
                   \/ Stale(P, latest, wanted, row.captured, MaxLegAge)
           dear == BidCost(latest, wanted) >= Dollar
<1>1. next = IF ~ row.book.complete THEN scan
             ELSE IF DOMAIN row.book.yes = {} \/ DOMAIN row.book.no = {}
                  THEN [scan EXCEPT !.latest = Dropped(@, row.ticker)]
             ELSE IF idle THEN kept
             ELSE IF dear THEN [kept EXCEPT !.moments = @ + 1]
             ELSE [kept EXCEPT !.moments = @ + 1, !.attempts = Append(@, orders)]
  BY DEF MakerRow
<1> HIDE DEF idle, dear, orders, latest
<1>2. next.attempts = scan.attempts \/ next.attempts = Append(scan.attempts, orders)
  BY <1>1 DEF MakerFields
<1>3. DOMAIN next = MakerFields
  BY <1>1 DEF MakerFields
<1>4. CASE next.attempts = Append(scan.attempts, orders)
  <2>1. PICK kinds : kinds = quotes
    OBVIOUS
  <2>2. orders = Orders(R, kinds, row.captured, Horizon, Window)
    BY <2>1 DEF orders
  <2> QED BY <1>3, <1>4, <2>2
<1> QED BY <1>2, <1>3, <1>4

LEMMA MakerStep ==
  ASSUME NEW R, NEW P, NEW k \in Nat \ {0}, NEW scan, MakerIs(R, scan, k - 1),
         NEW next, next = MakerRow(R, P, MaxLegAge, Horizon, Window, scan, R[k])
  PROVE  MakerIs(R, next, k)
<1>1. DOMAIN scan = MakerFields
  BY DEF MakerIs
<1>2. /\ DOMAIN next = MakerFields
      /\ \/ next.attempts = scan.attempts
         \/ \E quotes : next.attempts
              = Append(scan.attempts, Orders(R, quotes, R[k].captured, Horizon, Window))
  BY <1>1, MakerRowIs
<1>3. \A i \in DOMAIN scan.attempts : \A o \in scan.attempts[i] : IsOrder(R, o, k)
  <2>1. \A m \in 1 .. (k - 1) : m \in 1 .. k
    OBVIOUS
  <2>2. \A o : IsOrder(R, o, k - 1) => IsOrder(R, o, k)
    BY <2>1 DEF IsOrder
  <2> QED BY <2>2 DEF MakerIs
<1>4. PICK X : scan.attempts \in Seq(X)
  BY DEF MakerIs
<1>5. CASE next.attempts = scan.attempts
  BY <1>2, <1>3, <1>4, <1>5 DEF MakerIs
<1>6. CASE \E quotes : next.attempts
             = Append(scan.attempts, Orders(R, quotes, R[k].captured, Horizon, Window))
  <2>1. PICK quotes : next.attempts
             = Append(scan.attempts, Orders(R, quotes, R[k].captured, Horizon, Window))
    BY <1>6
  <2>2. PICK orders : orders = Orders(R, quotes, R[k].captured, Horizon, Window)
    OBVIOUS
  <2>3. \A o \in orders : IsOrder(R, o, k)
    BY <2>2, OrdersAre
  <2>4. PICK attempts : attempts = next.attempts
    OBVIOUS
  <2>5. attempts = Append(scan.attempts, orders)
    BY <2>1, <2>2, <2>4
  <2>6. /\ attempts \in Seq(X \cup {orders})
        /\ \A i \in DOMAIN scan.attempts : attempts[i] = scan.attempts[i]
        /\ attempts[Len(scan.attempts) + 1] = orders
        /\ \A i \in DOMAIN attempts : i \in DOMAIN scan.attempts \/ i = Len(scan.attempts) + 1
    BY <1>4, <2>5, AppendAny
  <2>7. \A i \in DOMAIN attempts : \A o \in attempts[i] : IsOrder(R, o, k)
    BY <1>3, <2>3, <2>6
  <2> QED BY <1>2, <2>4, <2>6, <2>7 DEF MakerIs
<1> QED BY <1>2, <1>5, <1>6

LEMMA MakerHolds ==
  ASSUME NEW R, NEW P, Len(R) \in Nat, DOMAIN R = 1 .. Len(R)
  PROVE  MakerIs(R, MakerScan(R, P, MaxLegAge, Horizon, Window), Len(R))
<1>1. PICK run : IsReading("maker", R, P, run) /\ Folded("maker", R, P) = run[Len(R)]
  BY ReadingExists
<1>2. MakerScan(R, P, MaxLegAge, Horizon, Window) = Folded("maker", R, P)
  BY DEF MakerScan, Folded, Base, Step
<1> DEFINE Good == {i \in 0 .. Len(R) : MakerIs(R, run[i], i)}
<1>3. 0 \in Good
  <2>1. run[0] = NothingOffered
    BY <1>1 DEF IsReading, Base
  <2>2. MakerIs(R, NothingOffered, 0)
    <3>1. DOMAIN NothingOffered = MakerFields /\ NothingOffered.attempts = <<>>
      BY DEF NothingOffered, MakerFields
    <3>2. <<>> \in Seq({}) /\ DOMAIN <<>> = {}
      OBVIOUS
    <3> QED BY <3>1, <3>2 DEF MakerIs
  <2> QED BY <2>1, <2>2
<1>4. ASSUME NEW i \in 1 .. Len(R), i - 1 \in Good PROVE i \in Good
  <2>1. run[i] = MakerRow(R, P, MaxLegAge, Horizon, Window, run[i - 1], R[i])
    BY <1>1 DEF IsReading, Step
  <2>2. MakerIs(R, run[i - 1], i - 1) /\ i \in Nat \ {0} /\ i \in 0 .. Len(R)
    BY <1>4
  <2>3. MakerIs(R, run[i], i)
    BY <2>1, <2>2, MakerStep
  <2> QED BY <2>2, <2>3
<1>5. Good \in SUBSET (0 .. Len(R))
  OBVIOUS
<1> HIDE DEF Good
<1>6. Good = 0 .. Len(R)
  BY <1>3, <1>4, <1>5, ReadingKeeps
<1>7. Len(R) \in Good
  BY <1>6
<1>8. MakerIs(R, run[Len(R)], Len(R))
  BY <1>7 DEF Good
<1> QED BY <1>1, <1>2, <1>8


\* Answer k crosses a bid that rests from `start' to `deadline'; its poller had seen that
\* offer stand when the bid was placed, and nothing else since.
CrossesAt(S, k, t, price, start, deadline) ==
  /\ k \in DOMAIN S /\ S[k].status = "kept" /\ S[k].ticker = t
  /\ start < S[k].at /\ S[k].at <= deadline
  /\ Offers(S[k]) /\ BestYesAsk(S[k].book).ask <= price
StandsTo(S, k, t, price, start) ==
  \E i \in DOMAIN S : /\ S[i].status = "kept" /\ S[i].ticker = t /\ S[i].at <= start
                      /\ Offers(S[i]) /\ BestYesAsk(S[i].book).ask <= price
                      /\ Same(S, i, k) /\ Steady(S, i, k)

LEMMA OfferingIs ==
  ASSUME NEW R, NEW t, NEW r
  PROVE  r \in Offering(R, t) <=>
           r \in DOMAIN R /\ R[r].book.complete /\ R[r].ticker = t /\ DOMAIN R[r].book.no # {}
<1>1. r \in CompleteRows(R) <=> r \in DOMAIN R /\ R[r].book.complete
  BY DEF CompleteRows
<1>2. r \in Offering(R, t) <=>
        r \in CompleteRows(R) /\ R[r].ticker = t /\ DOMAIN R[r].book.no # {}
  BY DEF Offering
<1> QED BY <1>1, <1>2

LEMMA FillsCross ==
  ASSUME NEW R \in Seq(Row), NEW S, NEW at, AreOf(R, S, at),
         NEW t, NEW price, NEW start, NEW deadline, FillsBy(R, t, price, start, deadline)
  PROVE  \E k : CrossesAt(S, k, t, price, start, deadline)
<1>1. PICK r \in DOMAIN R : /\ R[r].book.complete /\ R[r].ticker = t /\ DOMAIN R[r].book.no # {}
                            /\ start < R[r].captured /\ R[r].captured <= deadline
                            /\ BestYesAsk(R[r].book).ask <= price
  <2>1. PICK r \in Offering(R, t) : /\ start < R[r].captured /\ R[r].captured <= deadline
                                    /\ BestYesAsk(R[r].book).ask <= price
    BY DEF FillsBy
  <2> QED BY <2>1, OfferingIs
<1>2. PICK k \in DOMAIN S : k = at[r]
  BY <1>1 DEF AreOf
<1>3. S[k].status = "kept" /\ S[k].ticker = t /\ S[k].at = R[r].captured /\ S[k].book = R[r].book
  BY <1>1, <1>2 DEF AreOf
<1>4. Offers(S[k]) /\ BestYesAsk(S[k].book).ask <= price
  BY <1>1, <1>3 DEF Offers
<1>5. CrossesAt(S, k, t, price, start, deadline)
  BY <1>1, <1>3, <1>4 DEF CrossesAt
<1> QED BY <1>5

\* The row of an answer that offers the price in time fills the bid.
LEMMA RowFills ==
  ASSUME NEW R \in Seq(Row), NEW S, NEW at, AreOf(R, S, at),
         NEW k \in DOMAIN S, S[k].stored, NEW t, NEW price, NEW start, NEW deadline,
         CrossesAt(S, k, t, price, start, deadline)
  PROVE  FillsBy(R, t, price, start, deadline)
<1>1. S[k].status = "kept" /\ S[k].ticker = t /\ start < S[k].at /\ S[k].at <= deadline
  BY DEF CrossesAt
<1>2. PICK r \in DOMAIN R : at[r] = k
  BY <1>1 DEF AreOf
<1>3. R[r].ticker = t /\ R[r].captured = S[k].at /\ R[r].book = S[k].book
  BY <1>1, <1>2 DEF AreOf
<1>4. R[r].book.complete /\ DOMAIN R[r].book.no # {} /\ BestYesAsk(R[r].book).ask <= price
  BY <1>3 DEF CrossesAt, Offers
<1>5. r \in Offering(R, t)
  BY <1>3, <1>4, OfferingIs
<1> QED BY <1>1, <1>3, <1>4, <1>5 DEF FillsBy

LEMMA CrossingFills ==
  ASSUME NEW R \in Seq(Row), NEW S, NEW time, Tells(S, time), NEW at, AreOf(R, S, at),
         NEW k, NEW t, NEW price, NEW start \in Nat, NEW deadline \in Nat,
         CrossesAt(S, k, t, price, start, deadline)
  PROVE  FillsBy(R, t, price, start, deadline) \/ StandsTo(S, k, t, price, start)
<1>1. /\ k \in DOMAIN S /\ S[k].status = "kept" /\ S[k].ticker = t
      /\ start < S[k].at /\ S[k].at <= deadline
      /\ Offers(S[k]) /\ BestYesAsk(S[k].book).ask <= price
  BY DEF CrossesAt
<1>2. CASE S[k].stored
  BY <1>1, <1>2, RowFills
<1>3. CASE ~ S[k].stored
  <2>1. PICK f : IsFound(S, f, k)
    BY <1>1, <1>3 DEF Tells
  <2>2. /\ f \in DOMAIN S /\ f < k /\ S[f].stored /\ S[f].status = "kept"
        /\ Same(S, f, k) /\ Steady(S, f, k) /\ S[f].book = S[k].book
    BY <1>1, <2>1 DEF IsFound
  <2>3. S[f].ticker = t /\ Offers(S[f]) /\ BestYesAsk(S[f].book).ask <= price
    BY <1>1, <2>2 DEF Same, Offers
  <2>4. S[f].at <= S[k].at /\ S[f].at \in Nat /\ S[k].at \in Nat
    <3>1. S[f] \in Reply /\ S[k] \in Reply /\ InTime(S, time) /\ DOMAIN S = 1 .. Len(S)
      BY <1>1, <2>2 DEF Tells
    <3> QED BY <1>1, <2>2, <3>1 DEF Reply, InTime
  <2>5. CASE start < S[f].at
    <3>1. S[f].at <= deadline
      BY <1>1, <2>4
    <3>2. CrossesAt(S, f, t, price, start, deadline)
      BY <2>2, <2>3, <2>5, <3>1 DEF CrossesAt
    <3> QED BY <2>2, <3>2, RowFills
  <2>6. CASE ~ start < S[f].at
    <3>1. S[f].at <= start
      BY <2>4, <2>6
    <3> QED BY <2>2, <2>3, <3>1 DEF StandsTo
  <2> QED BY <2>5, <2>6
<1> QED BY <1>2, <1>3

\* An archive of changes loses no crossing of a bid and invents none, whoever stores them
\* (maker.py:276-370): a bid is filled if and only if a poller saw the market come down to
\* it in time, short of offers that poller had seen stand at its price when it was placed.
THEOREM FillsAreSeen == ArchiveSpec => []FillsAreCrossings
<1>1. ASSUME HistoryInv PROVE FillsAreCrossings
  <2>1. PICK S \in Seq(Reply) : S = answers /\ Tells(S, now)
    BY <1>1 DEF HistoryInv, Tells
  <2>2. PICK R \in Seq(Row) : R = Rows /\ \E at : AreOf(R, S, at)
    BY <2>1, RowsAre
  <2>3. PICK at : AreOf(R, S, at)
    BY <2>2
  <2>4. DOMAIN R = 1 .. Len(R) /\ Len(R) \in Nat
    BY <2>2
  <2>5. PICK attempts : attempts = MakerScan(R, polls, MaxLegAge, Horizon, Window).attempts
    OBVIOUS
  <2>6. MakerIs(R, MakerScan(R, polls, MaxLegAge, Horizon, Window), Len(R))
    BY <2>4, MakerHolds
  <2>7. ASSUME NEW o \in UNION ToSet(attempts)
        PROVE  /\ o.filled => \E k : CrossesAt(S, k, o.ticker, o.price, o.at, o.at + Horizon)
               /\ \A k : CrossesAt(S, k, o.ticker, o.price, o.at, o.at + Horizon) =>
                    o.filled \/ StandsTo(S, k, o.ticker, o.price, o.at)
    <3>1. PICK i \in DOMAIN attempts : o \in attempts[i]
      BY DEF ToSet
    <3>2. IsOrder(R, o, Len(R))
      BY <2>5, <2>6, <3>1 DEF MakerIs
    <3>3. PICK m \in DOMAIN R :
            /\ o.at = R[m].captured
            /\ o.filled = FillsBy(R, o.ticker, o.price, o.at, o.at + Horizon)
      BY <2>4, <3>2 DEF IsOrder
    <3>4. o.at \in Nat /\ o.at + Horizon \in Nat
      <4>1. R[m] \in Row
        OBVIOUS
      <4>2. o.at \in Nat /\ Horizon \in Nat
        BY <3>3, <4>1, ArchiveConstants DEF Row
      <4> QED BY <4>2
    <3>5. FillsBy(R, o.ticker, o.price, o.at, o.at + Horizon) =>
            \E k : CrossesAt(S, k, o.ticker, o.price, o.at, o.at + Horizon)
      BY <2>3, FillsCross
    <3>6. ASSUME NEW k, CrossesAt(S, k, o.ticker, o.price, o.at, o.at + Horizon)
          PROVE  \/ FillsBy(R, o.ticker, o.price, o.at, o.at + Horizon)
                 \/ StandsTo(S, k, o.ticker, o.price, o.at)
      BY <2>1, <2>3, <3>4, <3>6, CrossingFills
    <3> QED BY <3>3, <3>5, <3>6
  <2> DEFINE meets(i, o) == Offers(answers[i]) /\ BestYesAsk(answers[i].book).ask <= o.price
             crossed(o) == {i \in SeenOf(o.ticker) :
                              /\ o.at < answers[i].at /\ answers[i].at <= o.at + Horizon
                              /\ meets(i, o)}
             standing(i, o) == \E j \in SeenOf(o.ticker) :
                                 /\ answers[j].at <= o.at /\ meets(j, o)
                                 /\ SameStream(j, i) /\ NothingElse(j, i)
  <2>8. /\ \A t, i : i \in SeenOf(t) <=> i \in DOMAIN S /\ S[i].status = "kept" /\ S[i].ticker = t
        /\ \A i, k : SameStream(i, k) <=> Same(S, i, k)
        /\ \A i, k : NothingElse(i, k) <=> Steady(S, i, k)
    BY <2>1, SeenIs
  <2>9. \A o, k : k \in crossed(o) <=> CrossesAt(S, k, o.ticker, o.price, o.at, o.at + Horizon)
    BY <2>1, <2>8 DEF CrossesAt
  <2>10. \A o, k : StandsTo(S, k, o.ticker, o.price, o.at) => standing(k, o)
    BY <2>1, <2>8 DEF StandsTo
  <2>11. \A o \in UNION ToSet(attempts) :
           /\ o.filled => crossed(o) # {}
           /\ \A i \in crossed(o) : o.filled \/ standing(i, o)
    <3> HIDE DEF crossed, standing
    <3> QED BY <2>7, <2>9, <2>10
  <2> QED BY <2>2, <2>5, <2>11 DEF FillsAreCrossings
<1> QED BY <1>1, HistoryHolds, PTL

-----------------------------------------------------------------------------
(* What a pricing is worth.                                                 *)

LEMMA SumOfIs ==
  ASSUME NEW S, IsFiniteSet(S), NEW w \in [S -> Nat]
  PROVE  SumOf(w, S) = Total(w) /\ SumOf(w, S) \in Nat
<1> DEFINE it == CHOOSE f : Weighs(w, S, f)
<1>1. SumOf(w, S) = it[S]
  BY DEF SumOf, MapThenSumSet, MapThenFoldSet, Weighs
<1>2. Weighs(w, S, it)
  <2>1. \E f : Weighs(w, S, f)
    BY WeighsTotal
  <2> QED BY <2>1
<1> HIDE DEF it
<1>3. it[S] = Total(w)
  BY <1>2, WeighsTotal
<1> QED BY <1>1, <1>3, TotalType

LEMMA FeeIsNatural ==
  ASSUME NEW ticker, NEW cost \in Nat, NEW contracts \in Nat, cost <= contracts * Dollar
  PROVE  Fee(RuleFor(ticker), cost, contracts) \in Nat
<1>1. CASE contracts = 0
  BY <1>1 DEF Fee
<1>2. CASE contracts # 0
  <2>1. Cent \in Nat \ {0} /\ Dollar \in Nat \ {0}
    BY EconomicsConstants, DollarType
  <2> DEFINE mult == RuleFor(ticker).multiplier
             num == 7 * mult * cost * (contracts * Dollar - cost)
             den == 2 * contracts * Dollar * Dollar
  <2>2. mult \in Nat
    BY DEF RuleFor, GeneralFee, IndexFee
  <2>3. num \in Nat
    <3> HIDE DEF mult
    <3>1. contracts * Dollar \in Nat
      BY <2>1
    <3>2. contracts * Dollar - cost \in Nat
      BY <3>1
    <3>3. 7 * mult * cost \in Nat
      BY <2>2
    <3> QED BY <3>2, <3>3
  <2>4. den \in Nat \ {0}
    <3>1. 2 * contracts \in Nat \ {0}
      BY <1>2
    <3>2. 2 * contracts * Dollar \in Nat \ {0}
      BY <2>1, <3>1
    <3> QED BY <2>1, <3>2
  <2> HIDE DEF num, den
  <2>5. PICK c \in Int : c = CeilDiv(num, den)
    BY <2>3, <2>4, CeilDivIs
  <2>6. num <= den * c
    BY <2>3, <2>4, <2>5, CeilDivIs
  <2>7. c >= 0
    <3>1. ASSUME c < 0 PROVE FALSE
      <4>1. PICK d \in Nat : d = den /\ d >= 1
        BY <2>4
      <4>2. PICK e \in Nat : e = - c /\ e >= 1
        BY <3>1
      <4>3. d * e >= 1
        BY <4>1, <4>2
      <4>4. den * c = - (d * e)
        BY <4>1, <4>2
      <4> QED BY <2>3, <2>6, <4>3, <4>4
    <3> QED BY <3>1
  <2>8. c * Cent \in Nat
    BY <2>1, <2>7
  <2> QED BY <1>2, <2>5, <2>8 DEF Fee, num, den, mult
<1> QED BY <1>1, <1>2

LEMMA ShownIs ==
  ASSUME NEW book \in Shown
  PROVE  book.complete \in BOOLEAN /\ IsBids(book.yes) /\ IsBids(book.no)
<1>1. PICK t \in Ticker : book \in Payloads[t]
  BY DEF Shown
<1> QED BY <1>1, ArchiveConstants

LEMMA BestAsk ==
  ASSUME NEW book \in Shown, DOMAIN book.no # {}
  PROVE  /\ BestYesAsk(book).ask \in 1 .. Dollar - 1 /\ BestYesAsk(book).size \in Nat
         /\ Max(DOMAIN book.no) \in DOMAIN book.no
         /\ \A y \in DOMAIN book.no : Max(DOMAIN book.no) >= y
<1>1. PICK bids : bids = book.no
  OBVIOUS
<1>2. IsFiniteSet(DOMAIN bids) /\ DOMAIN bids \in SUBSET (1 .. Dollar - 1) /\ DOMAIN bids # {}
      /\ \A x \in DOMAIN bids : bids[x] \in Nat \ {0}
  BY <1>1, ShownIs DEF IsBids
<1>3. Dollar \in Nat
  BY DollarType
<1>4. DOMAIN bids \in SUBSET Int
  BY <1>2, <1>3
<1>5. Max(DOMAIN bids) \in DOMAIN bids /\ \A y \in DOMAIN bids : Max(DOMAIN bids) >= y
  BY <1>2, <1>4, MaxOfIntegers
<1>6. PICK x \in DOMAIN bids : x = Max(DOMAIN bids)
  BY <1>5
<1>7. BestYesAsk(book).ask = Dollar - x /\ BestYesAsk(book).size = bids[x]
  BY <1>1, <1>6 DEF BestYesAsk
<1>8. x \in 1 .. Dollar - 1 /\ bids[x] \in Nat
  BY <1>2, <1>6
<1>9. Dollar - x \in 1 .. Dollar - 1
  BY <1>3, <1>8
<1> QED BY <1>1, <1>5, <1>7, <1>8, <1>9

LEMMA LegsFinite ==
  ASSUME NEW R \in Seq(Row), NEW t PROVE IsFiniteSet(LegsOf(R, t)) /\ LegsOf(R, t) \subseteq Ticker
<1>1. LegsOf(R, t) \in SUBSET Ticker
  <2>1. \A i \in DOMAIN R : R[i].ticker \in Ticker
    <3>1. \A i \in DOMAIN R : R[i] \in Row
      OBVIOUS
    <3> QED BY <3>1 DEF Row
  <2> QED BY <2>1 DEF LegsOf, LegsAmong
<1>2. IsFiniteSet(Ticker)
  <2>1. LegOrder \in Surjection(1 .. Len(LegOrder), Ticker) /\ Len(LegOrder) \in Nat
    <3>1. /\ Len(LegOrder) \in Nat /\ LegOrder \in [1 .. Len(LegOrder) -> Ticker]
      <4>1. LegOrder \in Seq(DOMAIN EventOf)
        BY ArchiveConstants
      <4> QED BY <4>1, LegOrderIs
    <3>2. \A x \in Ticker : \E i \in 1 .. Len(LegOrder) : LegOrder[i] = x
      BY LegOrderIs DEF Ticker, ToSet
    <3> QED BY <3>1, <3>2 DEF Surjection
  <2>2. IsFiniteSet(1 .. Len(LegOrder))
    BY <2>1, FS_Interval
  <2> QED BY <2>1, <2>2, FS_Surjection
<1> QED BY <1>1, <1>2, FS_Subset

\* The pricing of a row, its amounts.
LEMMA PricingAmounts ==
  ASSUME NEW R \in Seq(Row), NEW k \in DOMAIN R, NEW latest, LatestIs(R, latest, k),
         NEW wanted, wanted = LegsOf(R, R[k].ticker), wanted \subseteq DOMAIN latest,
         ~ Cardinality(wanted) < 2,
         NEW p, p = PricingOf(R[k], latest, wanted)
  PROVE  /\ p.ask \in [wanted -> 1 .. Dollar - 1] /\ p.cost = SumOf(p.ask, wanted)
         /\ p.cost \in Nat /\ NetDollars(p) \in Int
<1>1. DOMAIN R = 1 .. Len(R) /\ Len(R) \in Nat /\ Dollar \in Nat \ {0}
  BY DollarType
<1>2. IsFiniteSet(wanted)
  BY LegsFinite
<1>3. ASSUME NEW t \in wanted
      PROVE  latest[t].ask \in 1 .. Dollar - 1 /\ latest[t].size \in Nat
  <2>1. PICK j : Quotes(R, t, j, k) /\ latest[t] = QuoteOf(R[j])
    BY <1>3 DEF LatestIs
  <2>2. j \in DOMAIN R /\ DOMAIN R[j].book.no # {}
    BY <1>1, <2>1 DEF Quotes
  <2>3. R[j] \in Row
    BY <2>2
  <2>4. R[j].book \in Shown
    BY <2>3 DEF Row
  <2> QED BY <2>1, <2>2, <2>4, BestAsk DEF QuoteOf
<1>4. PICK ask : ask = [t \in wanted |-> latest[t].ask]
  OBVIOUS
<1>5. ask \in [wanted -> 1 .. Dollar - 1] /\ ask \in [wanted -> Nat]
  BY <1>3, <1>4
<1> DEFINE sizes == {latest[t].size : t \in wanted}
<1>6. PICK size \in Nat : size = Min(sizes)
  <2>1. sizes \in SUBSET Nat
    BY <1>3
  <2>2. sizes # {}
    <3>1. ASSUME wanted = {} PROVE FALSE
      <4>1. Cardinality(wanted) = 0
        BY <3>1, FS_EmptySet
      <4>2. ~ 0 < 2
        BY <4>1
      <4> QED BY <4>2
    <3> QED BY <3>1
  <2>3. IsFiniteSet(sizes)
    <3> DEFINE of == [t \in wanted |-> latest[t].size]
    <3>1. of \in Surjection(wanted, sizes)
      BY DEF Surjection
    <3> HIDE DEF of, sizes
    <3> QED BY <1>2, <3>1, FS_Surjection
  <2> HIDE DEF sizes
  <2>4. sizes \in SUBSET Int
    BY <2>1
  <2> QED BY <2>1, <2>2, <2>3, <2>4, MinOfIntegers
<1> DEFINE fees == [t \in wanted |-> Fee(RuleFor(t), ask[t] * size, size)]
<1>7. fees \in [wanted -> Nat]
  <2> SUFFICES ASSUME NEW t \in wanted PROVE Fee(RuleFor(t), ask[t] * size, size) \in Nat
    OBVIOUS
  <2>1. PICK a \in Nat : a = ask[t] /\ a <= Dollar
    BY <1>1, <1>5
  <2>2. a * size \in Nat /\ a * size <= size * Dollar
    <3>1. a * size \in Nat
      OBVIOUS
    <3>2. (Dollar - a) * size \in Nat
      BY <1>1, <2>1
    <3>3. (Dollar - a) * size = size * Dollar - a * size
      BY <1>1
    <3>4. size * Dollar \in Nat
      BY <1>1
    <3> QED BY <3>1, <3>2, <3>3, <3>4
  <2>3. Fee(RuleFor(t), a * size, size) \in Nat
    BY <2>2, FeeIsNatural
  <2> QED BY <2>1, <2>3
<1>8. p.ask = ask /\ p.size = size /\ p.cost = SumOf(ask, wanted) /\ p.fee = SumOf(fees, wanted)
  BY <1>4, <1>6 DEF PricingOf, BasketFee
<1> HIDE DEF fees, sizes
<1>9. SumOf(ask, wanted) \in Nat /\ SumOf(fees, wanted) \in Nat
  BY <1>2, <1>5, <1>7, SumOfIs
<1>10. PICK c \in Nat, fee \in Nat : c = p.cost /\ fee = p.fee
  BY <1>8, <1>9
<1>11. NetDollars(p) \in Int
  <2>1. NetDollars(p) = (Dollar - c) * size - fee
    BY <1>8, <1>10 DEF NetDollars
  <2>2. Dollar - c \in Int
    BY <1>1
  <2>3. (Dollar - c) * size \in Int
    BY <2>2
  <2> QED BY <2>1, <2>3
<1> QED BY <1>5, <1>8, <1>10, <1>11

-----------------------------------------------------------------------------
(* Episodes.  Each spans its event's pricings from its first to its last:   *)
(* a stretch that begins and ends where a dear pricing breaks it off.       *)

EventsOf == {EventOf[t] : t \in DOMAIN EventOf}

EpisodeFields == {"event", "first", "last", "observations", "bestNet", "bestCost", "size"}

Within(priced, r) == {i \in r[1] .. r[2] : priced[i].event = priced[r[1]].event}
Nets(priced, r) == {NetDollars(priced[i]) : i \in Within(priced, r)}

IsOfSpan(priced, episode, r) ==
  /\ DOMAIN episode = EpisodeFields
  /\ episode.event = priced[r[1]].event
  /\ episode.first = priced[r[1]].at /\ episode.last = priced[r[2]].at
  /\ episode.observations = Cardinality(Within(priced, r))
  /\ IsGreatest(episode.bestNet, Nets(priced, r))

\* A dear pricing of the event from x to y.
Broken(priced, e, x, y) ==
  \E j \in DOMAIN priced : x <= j /\ j <= y /\ priced[j].event = e /\ ~ Cheap(priced[j])

\* What lies outside the span is broken off from it.
Fenced(priced, r) ==
  \A i \in DOMAIN priced : priced[i].event = priced[r[1]].event =>
    /\ i < r[1] => Broken(priced, priced[r[1]].event, i, r[1])
    /\ i > r[2] => Broken(priced, priced[r[1]].event, r[2], i)

Worth(priced) ==
  /\ \E X : priced \in Seq(X)
  /\ \A i \in DOMAIN priced : NetDollars(priced[i]) \in Int /\ priced[i].event \in EventsOf

SpansAre(priced, episodes, spans) ==
  /\ DOMAIN spans = DOMAIN episodes
  /\ \A i \in DOMAIN episodes : /\ spans[i] \in Stretches(priced) /\ Fenced(priced, spans[i])
                                /\ IsOfSpan(priced, episodes[i], spans[i])
  /\ \A i, j \in DOMAIN episodes : spans[i] = spans[j] => i = j
  /\ \A k \in DOMAIN priced : Cheap(priced[k]) =>
       \E i \in DOMAIN episodes : /\ episodes[i].event = priced[k].event
                                  /\ spans[i][1] <= k /\ k <= spans[i][2]

\* Which episode of an event may still grow: none of its pricings comes after, and every
\* other episode of it is broken off.
OpenIs(priced, episodes, open, spans) ==
  /\ DOMAIN open = EventsOf
  /\ \A e \in EventsOf : open[e] # 0 =>
       /\ open[e] \in DOMAIN episodes /\ episodes[open[e]].event = e
       /\ \A k \in DOMAIN priced : k > spans[open[e]][2] => priced[k].event # e
  /\ \A e \in EventsOf : open[e] = 0 =>
       \A k \in DOMAIN priced : priced[k].event = e => Broken(priced, e, k, Len(priced))
  /\ \A i \in DOMAIN episodes :
       \/ open[episodes[i].event] = i
       \/ Broken(priced, episodes[i].event, spans[i][2], Len(priced))

EpisodesAre(priced, episodes, open) ==
  /\ Worth(priced)
  /\ \E Y : episodes \in Seq(Y)
  /\ \E spans : SpansAre(priced, episodes, spans) /\ OpenIs(priced, episodes, open, spans)

\* The pricings with one more.
IsGrown(priced, p, grown, n) ==
  /\ Worth(priced) /\ NetDollars(p) \in Int /\ p.event \in EventsOf
  /\ n \in Nat /\ n = Len(priced) /\ DOMAIN priced = 1 .. n
  /\ grown = Append(priced, p) /\ DOMAIN grown = 1 .. n + 1 /\ Len(grown) = n + 1
  /\ grown[n + 1] = p /\ \A i \in 1 .. n : grown[i] = priced[i]

LEMMA GrownIs ==
  ASSUME NEW priced, Worth(priced), NEW p, NetDollars(p) \in Int, p.event \in EventsOf
  PROVE  IsGrown(priced, p, Append(priced, p), Len(priced)) /\ Worth(Append(priced, p))
<1>1. PICK X : priced \in Seq(X)
  BY DEF Worth
<1>2. PICK grown : grown = Append(priced, p)
  OBVIOUS
<1>3. PICK n : n = Len(priced)
  OBVIOUS
<1>4. /\ grown \in Seq(X \cup {p}) /\ n \in Nat /\ DOMAIN priced = 1 .. n
      /\ DOMAIN grown = 1 .. n + 1 /\ Len(grown) = n + 1
      /\ \A i \in DOMAIN priced : grown[i] = priced[i]
      /\ grown[n + 1] = p
      /\ \A i \in DOMAIN grown : i \in DOMAIN priced \/ i = n + 1
  BY <1>1, <1>2, <1>3, AppendAny
<1>5. IsGrown(priced, p, grown, n)
  BY <1>2, <1>3, <1>4 DEF IsGrown
<1>6. \A i \in DOMAIN grown : NetDollars(grown[i]) \in Int /\ grown[i].event \in EventsOf
  BY <1>4 DEF Worth
<1>7. Worth(grown)
  BY <1>4, <1>6 DEF Worth
<1> QED BY <1>2, <1>3, <1>5, <1>7

LEMMA BrokenGrows ==
  ASSUME NEW priced, NEW p, NEW grown, NEW n, IsGrown(priced, p, grown, n),
         NEW e, NEW x, NEW y, Broken(priced, e, x, y)
  PROVE  Broken(grown, e, x, y) /\ Broken(grown, e, x, n + 1)
<1>1. PICK j \in DOMAIN priced : x <= j /\ j <= y /\ priced[j].event = e /\ ~ Cheap(priced[j])
  BY DEF Broken
<1>2. j \in 1 .. n /\ n \in Nat /\ DOMAIN grown = 1 .. n + 1 /\ grown[j] = priced[j]
  BY DEF IsGrown
<1>3. j \in DOMAIN grown /\ j <= n + 1
  BY <1>2
<1> QED BY <1>1, <1>2, <1>3 DEF Broken

LEMMA BreaksOff ==
  ASSUME NEW priced, NEW p, NEW grown, NEW n, IsGrown(priced, p, grown, n),
         ~ Cheap(p), NEW x, x <= n + 1
  PROVE  Broken(grown, p.event, x, n + 1)
<1>1. n \in Nat /\ DOMAIN grown = 1 .. n + 1 /\ grown[n + 1] = p
  BY DEF IsGrown
<1>2. n + 1 \in DOMAIN grown /\ n + 1 <= n + 1
  BY <1>1
<1> QED BY <1>1, <1>2 DEF Broken

\* A stretch stays what it was.
LEMMA StretchGrows ==
  ASSUME NEW priced, NEW p, NEW grown, NEW n, IsGrown(priced, p, grown, n),
         NEW r, r \in Stretches(priced)
  PROVE  /\ r \in Stretches(grown)
         /\ r[1] \in 1 .. n /\ r[2] \in 1 .. n /\ r[1] <= r[2]
         /\ r[1] \in DOMAIN grown /\ grown[r[1]].event = priced[r[1]].event
         /\ Within(grown, r) = Within(priced, r)
         /\ \A episode : IsOfSpan(priced, episode, r) => IsOfSpan(grown, episode, r)
<1>1. /\ n \in Nat /\ DOMAIN priced = 1 .. n /\ DOMAIN grown = 1 .. n + 1
      /\ \A i \in 1 .. n : grown[i] = priced[i]
  BY DEF IsGrown
<1>2. /\ r \in (1 .. n) \X (1 .. n) /\ r[1] <= r[2] /\ priced[r[1]].event = priced[r[2]].event
      /\ \A i \in r[1] .. r[2] : priced[i].event = priced[r[1]].event => Cheap(priced[i])
  BY <1>1 DEF Stretches
<1>3. PICK a \in 1 .. n, b \in 1 .. n : r = <<a, b>> /\ a = r[1] /\ b = r[2]
  BY <1>2
<1>4. a \in DOMAIN grown /\ b \in DOMAIN grown /\ grown[a] = priced[a] /\ grown[b] = priced[b]
      /\ \A i \in a .. b : grown[i] = priced[i]
  BY <1>1
<1>5. r \in (DOMAIN grown) \X (DOMAIN grown)
  BY <1>3, <1>4
<1>6. r \in Stretches(grown)
  BY <1>2, <1>3, <1>4, <1>5 DEF Stretches
<1>7. Within(grown, r) = Within(priced, r)
  BY <1>3, <1>4 DEF Within
<1>8. Nets(grown, r) = Nets(priced, r)
  <2>1. \A i \in Within(priced, r) : NetDollars(grown[i]) = NetDollars(priced[i])
    BY <1>3, <1>4 DEF Within
  <2> QED BY <1>7, <2>1 DEF Nets
<1>9. ASSUME NEW episode, IsOfSpan(priced, episode, r) PROVE IsOfSpan(grown, episode, r)
  BY <1>3, <1>4, <1>7, <1>8, <1>9 DEF IsOfSpan
<1> QED BY <1>2, <1>3, <1>4, <1>6, <1>7, <1>9

\* And fenced, if the new pricing cannot be its own.
LEMMA FencedGrows ==
  ASSUME NEW priced, NEW p, NEW grown, NEW n, IsGrown(priced, p, grown, n),
         NEW r, r \in Stretches(priced), Fenced(priced, r),
         \/ p.event # priced[r[1]].event \/ ~ Cheap(p)
         \/ Broken(priced, priced[r[1]].event, r[2], n)
  PROVE  Fenced(grown, r)
<1>1. /\ n \in Nat /\ DOMAIN priced = 1 .. n /\ DOMAIN grown = 1 .. n + 1
      /\ grown[n + 1] = p /\ \A i \in 1 .. n : grown[i] = priced[i]
  BY DEF IsGrown
<1>2. r[1] \in 1 .. n /\ r[2] \in 1 .. n /\ grown[r[1]].event = priced[r[1]].event
  BY StretchGrows
<1>3. PICK e : e = priced[r[1]].event
  OBVIOUS
<1>4. PICK a \in Nat, b \in Nat : a = r[1] /\ b = r[2] /\ a <= n /\ b <= n
  BY <1>1, <1>2
<1>5. ASSUME NEW i \in DOMAIN grown, grown[i].event = e
      PROVE  (i < a => Broken(grown, e, i, a)) /\ (i > b => Broken(grown, e, b, i))
  <2>1. CASE i \in 1 .. n
    <3>1. priced[i].event = e /\ i \in DOMAIN priced /\ i \in Nat
      BY <1>1, <1>5, <2>1
    <3>2. (i < a => Broken(priced, e, i, a)) /\ (i > b => Broken(priced, e, b, i))
      BY <1>3, <1>4, <3>1 DEF Fenced
    <3> QED BY <1>4, <3>1, <3>2, BrokenGrows
  <2>2. CASE i = n + 1
    <3>1. p.event = e
      BY <1>1, <1>5, <2>2
    <3>2. ~ i < a
      BY <1>1, <1>4, <2>2
    <3>3. Broken(grown, e, b, n + 1)
      <4>1. ~ Cheap(p) \/ Broken(priced, e, b, n)
        BY <1>3, <1>4, <3>1
      <4>2. b <= n + 1
        BY <1>1, <1>4
      <4> QED BY <3>1, <4>1, <4>2, BrokenGrows, BreaksOff
    <3> QED BY <2>2, <3>2, <3>3
  <2> QED BY <1>1, <2>1, <2>2
<1> QED BY <1>2, <1>3, <1>4, <1>5 DEF Fenced

\* An episode that the new pricing is not of.
LEMMA SpanKept ==
  ASSUME NEW priced, NEW p, NEW grown, NEW n, IsGrown(priced, p, grown, n),
         NEW episodes, NEW spans, SpansAre(priced, episodes, spans), NEW i \in DOMAIN episodes,
         \/ p.event # episodes[i].event \/ ~ Cheap(p)
         \/ Broken(priced, episodes[i].event, spans[i][2], n)
  PROVE  /\ spans[i] \in Stretches(grown) /\ Fenced(grown, spans[i])
         /\ IsOfSpan(grown, episodes[i], spans[i])
         /\ spans[i][1] \in 1 .. n /\ spans[i][2] \in 1 .. n
<1>1. PICK r : r = spans[i]
  OBVIOUS
<1>2. r \in Stretches(priced) /\ Fenced(priced, r) /\ IsOfSpan(priced, episodes[i], r)
  BY <1>1 DEF SpansAre
<1>3. episodes[i].event = priced[r[1]].event
  BY <1>2 DEF IsOfSpan
<1>4. \/ p.event # priced[r[1]].event \/ ~ Cheap(p)
      \/ Broken(priced, priced[r[1]].event, r[2], n)
  BY <1>1, <1>3
<1>5. Fenced(grown, r)
  BY <1>2, <1>4, FencedGrows
<1>6. r \in Stretches(grown) /\ IsOfSpan(grown, episodes[i], r) /\ r[1] \in 1 .. n /\ r[2] \in 1 .. n
  BY <1>2, StretchGrows
<1> QED BY <1>1, <1>5, <1>6

\* A dear pricing ends its event's episode.
LEMMA DearKeeps ==
  ASSUME NEW priced, NEW p, NEW grown, NEW n, IsGrown(priced, p, grown, n),
         NEW episodes, NEW spans, SpansAre(priced, episodes, spans),
         NEW open, OpenIs(priced, episodes, open, spans),
         ~ Cheap(p), NEW left, left = [open EXCEPT ![p.event] = 0]
  PROVE  SpansAre(grown, episodes, spans) /\ OpenIs(grown, episodes, left, spans)
<1>1. /\ n \in Nat /\ n = Len(priced) /\ Len(grown) = n + 1
      /\ DOMAIN priced = 1 .. n /\ DOMAIN grown = 1 .. n + 1
      /\ grown[n + 1] = p /\ \A i \in 1 .. n : grown[i] = priced[i]
      /\ p.event \in EventsOf
  BY DEF IsGrown
<1>2. \A k \in DOMAIN grown : k \in 1 .. n \/ k = n + 1
  BY <1>1
<1>3. ASSUME NEW i \in DOMAIN episodes
      PROVE  /\ spans[i] \in Stretches(grown) /\ Fenced(grown, spans[i])
             /\ IsOfSpan(grown, episodes[i], spans[i])
             /\ spans[i][1] \in 1 .. n /\ spans[i][2] \in 1 .. n
  BY SpanKept
<1>4. SpansAre(grown, episodes, spans)
  <2>1. ASSUME NEW k \in DOMAIN grown, Cheap(grown[k])
        PROVE  \E i \in DOMAIN episodes : /\ episodes[i].event = grown[k].event
                                          /\ spans[i][1] <= k /\ k <= spans[i][2]
    <3>1. k \in 1 .. n /\ grown[k] = priced[k]
      BY <1>1, <1>2, <2>1
    <3> QED BY <1>1, <2>1, <3>1 DEF SpansAre
  <2> QED BY <1>3, <2>1 DEF SpansAre
<1>5. /\ DOMAIN left = EventsOf /\ left[p.event] = 0
      /\ \A e \in EventsOf : e # p.event => left[e] = open[e]
  BY <1>1 DEF OpenIs
<1>6. ASSUME NEW e \in EventsOf, left[e] # 0
      PROVE  /\ left[e] \in DOMAIN episodes /\ episodes[left[e]].event = e
             /\ \A k \in DOMAIN grown : k > spans[left[e]][2] => grown[k].event # e
  <2>1. e # p.event /\ left[e] = open[e] /\ open[e] # 0
    BY <1>5, <1>6
  <2>2. /\ open[e] \in DOMAIN episodes /\ episodes[open[e]].event = e
        /\ \A k \in DOMAIN priced : k > spans[open[e]][2] => priced[k].event # e
    BY <2>1 DEF OpenIs
  <2> QED BY <1>1, <1>2, <2>1, <2>2
<1>7. ASSUME NEW e \in EventsOf, left[e] = 0, NEW k \in DOMAIN grown, grown[k].event = e
      PROVE  Broken(grown, e, k, n + 1)
  <2>1. k \in Nat /\ k <= n + 1
    BY <1>1
  <2>2. CASE e = p.event
    BY <2>1, <2>2, BreaksOff
  <2>3. CASE e # p.event
    <3>1. open[e] = 0 /\ k \in DOMAIN priced /\ priced[k].event = e
      BY <1>1, <1>2, <1>5, <1>7, <2>3
    <3>2. Broken(priced, e, k, n)
      BY <1>1, <3>1 DEF OpenIs
    <3> QED BY <1>1, <2>1, <3>2, BrokenGrows
  <2> QED BY <2>2, <2>3
<1>8. ASSUME NEW i \in DOMAIN episodes
      PROVE  left[episodes[i].event] = i \/ Broken(grown, episodes[i].event, spans[i][2], n + 1)
  <2>1. PICK b \in Nat : b = spans[i][2] /\ b <= n + 1
    BY <1>1, <1>3
  <2>2. PICK e : e = episodes[i].event
    OBVIOUS
  <2>3. CASE e = p.event
    BY <2>1, <2>2, <2>3, BreaksOff
  <2>4. CASE e # p.event
    <3>1. open[e] = i \/ Broken(priced, e, b, n)
      BY <1>1, <2>1, <2>2 DEF OpenIs
    <3>2. Broken(priced, e, b, n) => Broken(grown, e, b, n + 1)
      BY BrokenGrows
    <3>3. e \in EventsOf
      <4>1. spans[i] \in Stretches(priced) /\ IsOfSpan(priced, episodes[i], spans[i])
        BY DEF SpansAre
      <4>2. spans[i][1] \in DOMAIN priced
        BY <1>1, <1>3
      <4> QED BY <2>2, <4>1, <4>2 DEF IsGrown, Worth, IsOfSpan
    <3> QED BY <1>5, <2>1, <2>2, <2>4, <3>1, <3>2, <3>3
  <2> QED BY <2>3, <2>4
<1>9. OpenIs(grown, episodes, left, spans)
  BY <1>1, <1>5, <1>6, <1>7, <1>8 DEF OpenIs
<1> QED BY <1>4, <1>9

\* A cheap one with no episode to extend opens one.
Opens(episodes, open, p, more, left) ==
  /\ \E Y : episodes \in Seq(Y)
  /\ Cheap(p) /\ open[p.event] = 0
  /\ more = Append(episodes, NewEpisode(p))
  /\ left = [open EXCEPT ![p.event] = Len(episodes) + 1]

LEMMA NewKeeps ==
  ASSUME NEW priced, NEW p, NEW grown, NEW n, IsGrown(priced, p, grown, n),
         NEW episodes, NEW spans, SpansAre(priced, episodes, spans),
         NEW open, OpenIs(priced, episodes, open, spans),
         NEW more, NEW left, Opens(episodes, open, p, more, left)
  PROVE  \E longer : SpansAre(grown, more, longer) /\ OpenIs(grown, more, left, longer)
<1>0. PICK Y : episodes \in Seq(Y)
  BY DEF Opens
<1> Cheap(p) /\ open[p.event] = 0 /\ more = Append(episodes, NewEpisode(p))
      /\ left = [open EXCEPT ![p.event] = Len(episodes) + 1]
  BY DEF Opens
<1>1. /\ n \in Nat /\ n = Len(priced) /\ Len(grown) = n + 1
      /\ DOMAIN priced = 1 .. n /\ DOMAIN grown = 1 .. n + 1
      /\ grown[n + 1] = p /\ \A i \in 1 .. n : grown[i] = priced[i]
      /\ p.event \in EventsOf /\ NetDollars(p) \in Int
  BY DEF IsGrown
<1>2. \A k \in DOMAIN grown : k \in 1 .. n \/ k = n + 1
  BY <1>1
<1>3. PICK m \in Nat : m = Len(episodes) /\ DOMAIN episodes = 1 .. m
  BY <1>0
<1>4. PICK fresh : fresh = NewEpisode(p)
  OBVIOUS
<1>5. /\ DOMAIN more = 1 .. m + 1 /\ more[m + 1] = fresh
      /\ \A i \in 1 .. m : more[i] = episodes[i]
  <2>1. /\ DOMAIN more = 1 .. Len(episodes) + 1 /\ more[Len(episodes) + 1] = fresh
        /\ \A i \in DOMAIN episodes : more[i] = episodes[i]
    BY <1>0, <1>4, AppendAny
  <2> QED BY <1>3, <2>1
<1>6. \A i \in DOMAIN more : i \in 1 .. m \/ i = m + 1
  BY <1>3, <1>5
<1>7. PICK longer : longer = [i \in 1 .. m + 1 |-> IF i = m + 1 THEN <<n + 1, n + 1>> ELSE spans[i]]
  OBVIOUS
<1>8. /\ DOMAIN longer = 1 .. m + 1 /\ longer[m + 1] = <<n + 1, n + 1>>
      /\ \A i \in 1 .. m : longer[i] = spans[i]
  BY <1>3, <1>7
<1>9. \A i \in 1 .. m : open[episodes[i].event] = i \/ Broken(priced, episodes[i].event, spans[i][2], n)
  BY <1>1, <1>3 DEF OpenIs
<1>10. ASSUME NEW i \in 1 .. m
       PROVE  /\ spans[i] \in Stretches(grown) /\ Fenced(grown, spans[i])
              /\ IsOfSpan(grown, episodes[i], spans[i])
              /\ spans[i][1] \in 1 .. n /\ spans[i][2] \in 1 .. n
  <2>1. p.event # episodes[i].event \/ Broken(priced, episodes[i].event, spans[i][2], n)
    <3>1. CASE p.event = episodes[i].event
      <4>1. open[episodes[i].event] # i
        BY <1>3, <3>1
      <4> QED BY <1>9, <4>1
    <3> QED BY <3>1
  <2>2. i \in DOMAIN episodes
    BY <1>3
  <2> QED BY <2>1, <2>2, SpanKept
<1>11. LET r == <<n + 1, n + 1>>
       IN  r \in Stretches(grown) /\ Fenced(grown, r) /\ IsOfSpan(grown, fresh, r)
  <2> DEFINE r == <<n + 1, n + 1>>
  <2>1. r[1] = n + 1 /\ r[2] = n + 1 /\ n + 1 \in DOMAIN grown /\ (n + 1) .. (n + 1) = {n + 1}
    BY <1>1
  <2>2. r \in (DOMAIN grown) \X (DOMAIN grown)
    BY <2>1
  <2>3. r \in Stretches(grown)
    BY <1>1, <2>1, <2>2 DEF Stretches
  <2>4. Fenced(grown, r)
    <3>1. ASSUME NEW i \in DOMAIN grown, grown[i].event = p.event
          PROVE  ~ i > n + 1 /\ (i < n + 1 => Broken(grown, p.event, i, n + 1))
      <4>1. i \in Nat /\ ~ i > n + 1
        BY <1>1
      <4>2. ASSUME i < n + 1 PROVE Broken(grown, p.event, i, n + 1)
        <5>1. i \in DOMAIN priced /\ priced[i].event = p.event
          BY <1>1, <1>2, <3>1, <4>1, <4>2
        <5>2. Broken(priced, p.event, i, n)
          BY <1>1, <5>1 DEF OpenIs
        <5> QED BY <1>1, <4>1, <5>2, BrokenGrows
      <4> QED BY <4>1, <4>2
    <3> QED BY <1>1, <2>1, <3>1 DEF Fenced
  <2>5. Within(grown, r) = {n + 1}
    BY <2>1 DEF Within
  <2>6. Nets(grown, r) = {NetDollars(p)}
    BY <1>1, <2>5 DEF Nets
  <2>7. Cardinality({n + 1}) = 1
    BY FS_Singleton
  <2>8. /\ DOMAIN fresh = EpisodeFields /\ fresh.event = p.event /\ fresh.first = p.at
        /\ fresh.last = p.at /\ fresh.observations = 1 /\ fresh.bestNet = NetDollars(p)
    BY <1>4 DEF NewEpisode, EpisodeFields
  <2>9. IsGreatest(fresh.bestNet, Nets(grown, r))
    <3>1. PICK v \in Int : v = NetDollars(p)
      BY <1>1
    <3>2. IsGreatest(v, {v})
      BY DEF IsGreatest
    <3> QED BY <2>6, <2>8, <3>1, <3>2
  <2>10. IsOfSpan(grown, fresh, r)
    BY <1>1, <2>1, <2>5, <2>7, <2>8, <2>9 DEF IsOfSpan
  <2> QED BY <2>3, <2>4, <2>10
<1>12. SpansAre(grown, more, longer)
  <2>1. DOMAIN longer = DOMAIN more
    BY <1>5, <1>8
  <2>2. ASSUME NEW i \in DOMAIN more
        PROVE  /\ longer[i] \in Stretches(grown) /\ Fenced(grown, longer[i])
               /\ IsOfSpan(grown, more[i], longer[i])
    <3>1. CASE i \in 1 .. m
      BY <1>5, <1>8, <1>10, <3>1
    <3>2. CASE i = m + 1
      BY <1>5, <1>8, <1>11, <3>2
    <3> QED BY <1>6, <3>1, <3>2
  <2>3. ASSUME NEW i \in DOMAIN more, NEW j \in DOMAIN more, longer[i] = longer[j] PROVE i = j
    <3>1. ASSUME NEW k \in 1 .. m PROVE longer[k] # longer[m + 1]
      <4>1. longer[k][2] \in 1 .. n /\ longer[m + 1][2] = n + 1
        BY <1>8, <1>10
      <4> QED BY <1>1, <4>1
    <3>2. CASE i \in 1 .. m /\ j \in 1 .. m
      <4>1. spans[i] = spans[j] /\ i \in DOMAIN episodes /\ j \in DOMAIN episodes
        BY <1>3, <1>8, <2>3, <3>2
      <4> QED BY <4>1 DEF SpansAre
    <3> QED BY <1>6, <2>3, <3>1, <3>2
  <2>4. ASSUME NEW k \in DOMAIN grown, Cheap(grown[k])
        PROVE  \E i \in DOMAIN more : /\ more[i].event = grown[k].event
                                      /\ longer[i][1] <= k /\ k <= longer[i][2]
    <3>1. CASE k \in 1 .. n
      <4>1. PICK i \in DOMAIN episodes : /\ episodes[i].event = priced[k].event
                                         /\ spans[i][1] <= k /\ k <= spans[i][2]
        BY <1>1, <2>4, <3>1 DEF SpansAre
      <4>2. i \in 1 .. m /\ i \in DOMAIN more
        BY <1>3, <1>5
      <4> QED BY <1>1, <1>5, <1>8, <3>1, <4>1, <4>2
    <3>2. CASE k = n + 1
      <4>1. m + 1 \in DOMAIN more /\ more[m + 1] = fresh /\ fresh.event = p.event
        BY <1>3, <1>4, <1>5 DEF NewEpisode
      <4>2. longer[m + 1][1] = n + 1 /\ longer[m + 1][2] = n + 1
        BY <1>8
      <4> QED BY SMTT(30), <1>1, <3>2, <4>1, <4>2
    <3> QED BY <1>2, <3>1, <3>2
  <2> QED BY <2>1, <2>2, <2>3, <2>4 DEF SpansAre
<1>13. /\ DOMAIN left = EventsOf /\ left[p.event] = m + 1
       /\ \A e \in EventsOf : e # p.event => left[e] = open[e]
  BY <1>1, <1>3 DEF OpenIs
<1>14. fresh.event = p.event
  BY <1>4 DEF NewEpisode
<1>15. ASSUME NEW e \in EventsOf, left[e] # 0
       PROVE  /\ left[e] \in DOMAIN more /\ more[left[e]].event = e
              /\ \A k \in DOMAIN grown : k > longer[left[e]][2] => grown[k].event # e
  <2>1. CASE e = p.event
    <3>1. left[e] = m + 1 /\ m + 1 \in DOMAIN more /\ more[m + 1].event = e
      BY <1>3, <1>5, <1>13, <1>14, <2>1
    <3>2. longer[m + 1][2] = n + 1 /\ \A k \in DOMAIN grown : ~ k > n + 1
      BY <1>1, <1>8
    <3> QED BY <3>1, <3>2
  <2>2. CASE e # p.event
    <3>1. left[e] = open[e] /\ open[e] # 0
      BY <1>13, <1>15, <2>2
    <3>2. /\ open[e] \in DOMAIN episodes /\ episodes[open[e]].event = e
          /\ \A k \in DOMAIN priced : k > spans[open[e]][2] => priced[k].event # e
      BY <3>1 DEF OpenIs
    <3>3. open[e] \in 1 .. m /\ open[e] \in DOMAIN more
      BY <1>3, <1>5, <3>2
    <3>4. more[open[e]].event = e /\ longer[open[e]] = spans[open[e]]
      BY <1>5, <1>8, <3>2, <3>3
    <3> QED BY <1>1, <1>2, <2>2, <3>1, <3>2, <3>3, <3>4
  <2> QED BY <2>1, <2>2
<1>16. ASSUME NEW e \in EventsOf, left[e] = 0, NEW k \in DOMAIN grown, grown[k].event = e
       PROVE  Broken(grown, e, k, n + 1)
  <2>1. m + 1 # 0
    OBVIOUS
  <2>2. e # p.event /\ open[e] = 0
    BY <1>13, <1>16, <2>1
  <2>3. k \in DOMAIN priced /\ priced[k].event = e /\ k \in Nat
    BY <1>1, <1>2, <1>16, <2>2
  <2>4. Broken(priced, e, k, n)
    BY <1>1, <2>2, <2>3 DEF OpenIs
  <2> QED BY <1>1, <2>3, <2>4, BrokenGrows
<1>17. ASSUME NEW i \in DOMAIN more
       PROVE  left[more[i].event] = i \/ Broken(grown, more[i].event, longer[i][2], n + 1)
  <2>1. CASE i = m + 1
    BY <1>5, <1>13, <1>14, <2>1
  <2>2. CASE i \in 1 .. m
    <3>1. PICK b \in Nat : b = spans[i][2]
      BY <1>10, <2>2
    <3>2. PICK e : e = episodes[i].event
      OBVIOUS
    <3>3. more[i].event = e /\ longer[i][2] = b
      BY <1>5, <1>8, <2>2, <3>1, <3>2
    <3>4. open[e] = i \/ Broken(priced, e, b, n)
      BY <1>9, <2>2, <3>1, <3>2
    <3>5. Broken(priced, e, b, n) => Broken(grown, e, b, n + 1)
      BY BrokenGrows
    <3>6. e # p.event \/ open[e] # i
      BY <1>3, <2>2
    <3>7. e \in EventsOf
      <4>1. IsOfSpan(priced, episodes[i], spans[i]) /\ spans[i][1] \in DOMAIN priced
        BY <1>1, <1>3, <1>10, <2>2 DEF SpansAre
      <4> QED BY <3>2, <4>1 DEF IsGrown, Worth, IsOfSpan
    <3> QED BY <1>13, <3>3, <3>4, <3>5, <3>6, <3>7
  <2> QED BY <1>6, <2>1, <2>2
<1>18. OpenIs(grown, more, left, longer)
  <2>1. \A e \in EventsOf : left[e] = 0 =>
          \A k \in DOMAIN grown : grown[k].event = e => Broken(grown, e, k, Len(grown))
    BY <1>1, <1>16
  <2>2. \A i \in DOMAIN more :
          left[more[i].event] = i \/ Broken(grown, more[i].event, longer[i][2], Len(grown))
    BY <1>1, <1>17
  <2>3. DOMAIN left = EventsOf
    BY <1>13
  <2> QED BY <1>15, <2>1, <2>2, <2>3 DEF OpenIs
<1> QED BY <1>12, <1>18

LEMMA ExtendedIs ==
  ASSUME NEW episode, DOMAIN episode = EpisodeFields, episode.bestNet \in Int,
         NEW p, NetDollars(p) \in Int
  PROVE  /\ DOMAIN Extended(episode, p) = EpisodeFields
         /\ Extended(episode, p).event = episode.event
         /\ Extended(episode, p).first = episode.first
         /\ Extended(episode, p).last = p.at
         /\ Extended(episode, p).observations = episode.observations + 1
         /\ Extended(episode, p).bestNet \in {episode.bestNet, NetDollars(p)}
         /\ Extended(episode, p).bestNet >= episode.bestNet
         /\ Extended(episode, p).bestNet >= NetDollars(p)
<1>1. PICK worth \in Int, best \in Int : worth = NetDollars(p) /\ best = episode.bestNet
  OBVIOUS
<1>2. PICK longer : longer = [episode EXCEPT !.last = p.at, !.observations = @ + 1]
  OBVIOUS
<1>3. /\ DOMAIN longer = EpisodeFields /\ longer.event = episode.event
      /\ longer.first = episode.first /\ longer.last = p.at
      /\ longer.observations = episode.observations + 1 /\ longer.bestNet = best
  BY <1>1, <1>2 DEF EpisodeFields
<1>4. CASE worth > best
  <2>1. Extended(episode, p)
          = [longer EXCEPT !.bestNet = worth, !.bestCost = p.cost, !.size = p.size]
    BY <1>1, <1>2, <1>4 DEF Extended
  <2> QED BY <1>1, <1>3, <1>4, <2>1 DEF EpisodeFields
<1>5. CASE ~ worth > best
  <2>1. Extended(episode, p) = longer
    BY <1>1, <1>2, <1>5 DEF Extended
  <2> QED BY <1>1, <1>3, <1>5, <2>1
<1> QED BY <1>4, <1>5

\* A stretch nothing of the event came after, with the new pricing.
LEMMA StretchExtends ==
  ASSUME NEW priced, NEW p, NEW grown, NEW n, IsGrown(priced, p, grown, n), Cheap(p),
         NEW r, r \in Stretches(priced), Fenced(priced, r), priced[r[1]].event = p.event,
         \A k \in DOMAIN priced : k > r[2] => priced[k].event # p.event,
         NEW episode, IsOfSpan(priced, episode, r)
  PROVE  LET s == <<r[1], n + 1>>
         IN  /\ s \in Stretches(grown) /\ Fenced(grown, s)
             /\ IsOfSpan(grown, Extended(episode, p), s)
<1>1. /\ n \in Nat /\ DOMAIN priced = 1 .. n /\ DOMAIN grown = 1 .. n + 1
      /\ grown[n + 1] = p /\ NetDollars(p) \in Int
      /\ \A i \in 1 .. n : grown[i] = priced[i] /\ NetDollars(priced[i]) \in Int
  BY DEF IsGrown, Worth
<1>2. /\ r \in (1 .. n) \X (1 .. n) /\ r[1] <= r[2]
      /\ \A i \in r[1] .. r[2] : priced[i].event = priced[r[1]].event => Cheap(priced[i])
  BY <1>1 DEF Stretches
<1>3. PICK a \in 1 .. n, b \in 1 .. n : r = <<a, b>> /\ a = r[1] /\ b = r[2] /\ a <= b
  BY <1>2
<1>4. PICK s : s = <<a, n + 1>>
  OBVIOUS
<1>5. s[1] = a /\ s[2] = n + 1 /\ a \in DOMAIN grown /\ n + 1 \in DOMAIN grown /\ a <= n + 1
      /\ grown[a] = priced[a] /\ priced[a].event = p.event
  BY <1>1, <1>3, <1>4
<1>6. ASSUME NEW i \in a .. n + 1, grown[i].event = p.event
      PROVE  i = n + 1 \/ (i \in a .. b /\ grown[i] = priced[i] /\ priced[i].event = p.event)
  <2>1. CASE i = n + 1
    BY <2>1
  <2>2. CASE i # n + 1
    <3>1. i \in 1 .. n /\ grown[i] = priced[i] /\ i \in DOMAIN priced
      BY <1>1, <1>3, <2>2
    <3>2. ~ i > b
      BY <1>3, <1>6, <3>1
    <3>3. i \in a .. b
      BY <1>3, <3>1, <3>2
    <3> QED BY <1>6, <3>1, <3>3
  <2> QED BY <2>1, <2>2
<1>7. s \in Stretches(grown)
  <2>1. s \in (DOMAIN grown) \X (DOMAIN grown)
    BY <1>4, <1>5
  <2>2. \A i \in a .. n + 1 : grown[i].event = p.event => Cheap(grown[i])
    BY <1>1, <1>2, <1>3, <1>5, <1>6
  <2>3. grown[s[1]].event = p.event /\ grown[s[2]].event = p.event
    BY <1>1, <1>5
  <2> QED BY <1>5, <2>1, <2>2, <2>3 DEF Stretches
<1>8. Fenced(grown, s)
  <2>1. ASSUME NEW i \in DOMAIN grown, grown[i].event = p.event
        PROVE  ~ i > n + 1 /\ (i < a => Broken(grown, p.event, i, a))
    <3>1. ~ i > n + 1
      BY <1>1
    <3>2. ASSUME i < a PROVE Broken(grown, p.event, i, a)
      <4>1. i \in DOMAIN priced /\ priced[i].event = p.event
        BY <1>1, <1>3, <2>1, <3>2
      <4>2. Broken(priced, p.event, i, a)
        BY <1>3, <1>5, <3>2, <4>1 DEF Fenced
      <4> QED BY <4>2, BrokenGrows
    <3> QED BY <3>1, <3>2
  <2> QED BY <1>5, <2>1 DEF Fenced
<1>9. Within(grown, s) = Within(priced, r) \cup {n + 1}
  <2>1. ASSUME NEW i PROVE i \in Within(grown, s) <=> i \in Within(priced, r) \cup {n + 1}
    <3>1. i \in Within(grown, s) <=> i \in a .. n + 1 /\ grown[i].event = p.event
      BY <1>5 DEF Within
    <3>2. i \in Within(priced, r) <=> i \in a .. b /\ priced[i].event = p.event
      BY <1>3, <1>5 DEF Within
    <3>3. i \in a .. b => i \in a .. n + 1 /\ grown[i] = priced[i]
      BY <1>1, <1>3
    <3>4. n + 1 \in a .. n + 1 /\ grown[n + 1].event = p.event
      BY <1>1, <1>5
    <3> QED BY <1>6, <3>1, <3>2, <3>3, <3>4
  <2> QED BY <2>1
<1>10. Cardinality(Within(grown, s)) = Cardinality(Within(priced, r)) + 1
  <2>1. Within(priced, r) \in SUBSET (a .. b)
    BY <1>3 DEF Within
  <2>2. IsFiniteSet(a .. b)
    <3>1. a \in Int /\ b \in Int
      BY <1>1
    <3> QED BY <3>1, FS_Interval
  <2>3. IsFiniteSet(Within(priced, r))
    BY <2>1, <2>2, FS_Subset
  <2>4. n + 1 \notin Within(priced, r)
    BY SMTT(30), <1>1, <1>3, <2>1
  <2>5. Cardinality(Within(priced, r) \cup {n + 1}) = Cardinality(Within(priced, r)) + 1
    BY <2>3, <2>4, FS_AddElement
  <2> QED BY <1>9, <2>5
<1>11. Nets(grown, s) = Nets(priced, r) \cup {NetDollars(p)}
  <2>1. \A i \in Within(priced, r) : grown[i] = priced[i]
    BY <1>1, <1>3 DEF Within
  <2> QED BY <1>1, <1>9, <2>1 DEF Nets
<1>12. Nets(priced, r) \in SUBSET Int
  BY <1>1, <1>3 DEF Nets, Within
<1>13. PICK best \in Int : best = episode.bestNet /\ IsGreatest(best, Nets(priced, r))
  <2>1. IsGreatest(episode.bestNet, Nets(priced, r))
    BY DEF IsOfSpan
  <2> QED BY <1>12, <2>1 DEF IsGreatest
<1>14. PICK worth \in Int : worth = NetDollars(p)
  BY <1>1
<1>15. PICK longer : longer = Extended(episode, p)
  OBVIOUS
<1>16. /\ DOMAIN longer = EpisodeFields /\ longer.event = episode.event
       /\ longer.first = episode.first /\ longer.last = p.at
       /\ longer.observations = episode.observations + 1
       /\ longer.bestNet \in {best, worth} /\ longer.bestNet >= best /\ longer.bestNet >= worth
  <2>1. DOMAIN episode = EpisodeFields /\ episode.bestNet \in Int /\ NetDollars(p) \in Int
    BY <1>13, <1>14 DEF IsOfSpan
  <2> QED BY <1>13, <1>14, <1>15, <2>1, ExtendedIs
<1>17. IsGreatest(longer.bestNet, Nets(grown, s))
  <2>1. PICK v \in Int : v = longer.bestNet /\ v \in {best, worth} /\ v >= best /\ v >= worth
    BY <1>16
  <2>2. best \in Nets(priced, r) /\ \A y \in Nets(priced, r) : best >= y
    BY <1>13 DEF IsGreatest
  <2>3. v \in Nets(priced, r) \cup {worth}
    BY <2>1, <2>2
  <2>4. \A y \in Nets(priced, r) \cup {worth} : v >= y
    BY <1>12, <2>1, <2>2
  <2> QED BY <1>11, <1>14, <2>1, <2>3, <2>4 DEF IsGreatest
<1>18. /\ episode.event = priced[a].event /\ episode.first = priced[a].at
       /\ episode.observations = Cardinality(Within(priced, r))
  BY <1>3 DEF IsOfSpan
<1>19. IsOfSpan(grown, longer, s)
  BY <1>1, <1>5, <1>10, <1>16, <1>17, <1>18 DEF IsOfSpan
<1> QED BY <1>3, <1>4, <1>7, <1>8, <1>15, <1>19

\* A cheap pricing extends its event's open episode.
LEMMA ExtendKeeps ==
  ASSUME NEW priced, NEW p, NEW grown, NEW n, IsGrown(priced, p, grown, n),
         NEW episodes, NEW Y, episodes \in Seq(Y), NEW spans, SpansAre(priced, episodes, spans),
         NEW open, OpenIs(priced, episodes, open, spans),
         Cheap(p), NEW o, o = open[p.event], o # 0,
         NEW more, more = [episodes EXCEPT ![o] = Extended(@, p)]
  PROVE  \E longer : SpansAre(grown, more, longer) /\ OpenIs(grown, more, open, longer)
<1>1. /\ n \in Nat /\ n = Len(priced) /\ Len(grown) = n + 1
      /\ DOMAIN priced = 1 .. n /\ DOMAIN grown = 1 .. n + 1
      /\ grown[n + 1] = p /\ \A i \in 1 .. n : grown[i] = priced[i]
      /\ p.event \in EventsOf /\ NetDollars(p) \in Int
  BY DEF IsGrown
<1>2. \A k \in DOMAIN grown : k \in 1 .. n \/ k = n + 1
  BY <1>1
<1>3. /\ o \in DOMAIN episodes /\ episodes[o].event = p.event
      /\ \A k \in DOMAIN priced : k > spans[o][2] => priced[k].event # p.event
  BY <1>1 DEF OpenIs
<1>4. /\ spans[o] \in Stretches(priced) /\ Fenced(priced, spans[o])
      /\ IsOfSpan(priced, episodes[o], spans[o])
  BY <1>3 DEF SpansAre
<1>5. priced[spans[o][1]].event = p.event
  BY <1>3, <1>4 DEF IsOfSpan
<1>6. PICK s : s = <<spans[o][1], n + 1>>
  OBVIOUS
<1>7. s \in Stretches(grown) /\ Fenced(grown, s) /\ IsOfSpan(grown, Extended(episodes[o], p), s)
  <2>1. PICK r, episode : r = spans[o] /\ episode = episodes[o]
    OBVIOUS
  <2> QED BY <1>3, <1>4, <1>5, <1>6, <2>1, StretchExtends
<1>8. spans[o][1] \in 1 .. n /\ spans[o][2] \in 1 .. n
  BY <1>4, StretchGrows
<1>9. /\ DOMAIN more = DOMAIN episodes /\ more[o] = Extended(episodes[o], p)
      /\ \A i \in DOMAIN episodes : i # o => more[i] = episodes[i]
  BY <1>3
<1>10. PICK longer : longer = [spans EXCEPT ![o] = s]
  OBVIOUS
<1>11. /\ DOMAIN longer = DOMAIN episodes /\ longer[o] = s
       /\ \A i \in DOMAIN episodes : i # o => longer[i] = spans[i]
  BY <1>3, <1>10 DEF SpansAre
<1>12. \A i \in DOMAIN episodes : more[i].event = episodes[i].event
  <2>1. more[o].event = episodes[o].event
    <3>1. Extended(episodes[o], p).event = grown[s[1]].event /\ s[1] = spans[o][1]
      BY <1>6, <1>7 DEF IsOfSpan
    <3>2. grown[s[1]].event = p.event
      BY <1>1, <1>5, <1>8, <3>1
    <3> QED BY <1>3, <1>9, <3>1, <3>2
  <2> QED BY <1>9, <2>1
<1>13. \A i \in DOMAIN episodes :
         \/ open[episodes[i].event] = i
         \/ Broken(priced, episodes[i].event, spans[i][2], n)
  BY <1>1 DEF OpenIs
<1>14. ASSUME NEW i \in DOMAIN episodes, i # o
       PROVE  /\ spans[i] \in Stretches(grown) /\ Fenced(grown, spans[i])
              /\ IsOfSpan(grown, episodes[i], spans[i])
              /\ spans[i][1] \in 1 .. n /\ spans[i][2] \in 1 .. n
  <2>1. p.event # episodes[i].event \/ Broken(priced, episodes[i].event, spans[i][2], n)
    <3>1. CASE p.event = episodes[i].event
      <4>1. open[episodes[i].event] # i
        BY <1>14, <3>1
      <4> QED BY <1>13, <4>1
    <3> QED BY <3>1
  <2> QED BY <2>1, SpanKept
<1>15. SpansAre(grown, more, longer)
  <2>1. DOMAIN longer = DOMAIN more
    BY <1>9, <1>11
  <2>2. ASSUME NEW i \in DOMAIN more
        PROVE  /\ longer[i] \in Stretches(grown) /\ Fenced(grown, longer[i])
               /\ IsOfSpan(grown, more[i], longer[i])
    <3>1. CASE i = o
      BY <1>7, <1>9, <1>11, <3>1
    <3>2. CASE i # o
      BY <1>9, <1>11, <1>14, <3>2
    <3> QED BY <3>1, <3>2
  <2>3. ASSUME NEW i \in DOMAIN more, NEW j \in DOMAIN more, longer[i] = longer[j] PROVE i = j
    <3>1. ASSUME NEW k \in DOMAIN episodes, k # o PROVE longer[k] # longer[o]
      <4>1. longer[k][2] \in 1 .. n /\ longer[o][2] = n + 1
        BY <1>6, <1>11, <1>14, <3>1
      <4> QED BY <1>1, <4>1
    <3>2. CASE i # o /\ j # o
      <4>1. spans[i] = spans[j] /\ i \in DOMAIN episodes /\ j \in DOMAIN episodes
        BY <1>9, <1>11, <2>3, <3>2
      <4> QED BY <4>1 DEF SpansAre
    <3>3. i \in DOMAIN episodes /\ j \in DOMAIN episodes
      BY <1>9
    <3> QED BY <2>3, <3>1, <3>2, <3>3
  <2>4. ASSUME NEW k \in DOMAIN grown, Cheap(grown[k])
        PROVE  \E i \in DOMAIN more : /\ more[i].event = grown[k].event
                                      /\ longer[i][1] <= k /\ k <= longer[i][2]
    <3>1. longer[o][1] = spans[o][1] /\ longer[o][2] = n + 1
      BY <1>6, <1>11
    <3>2. CASE k \in 1 .. n
      <4>1. PICK i \in DOMAIN episodes : /\ episodes[i].event = priced[k].event
                                         /\ spans[i][1] <= k /\ k <= spans[i][2]
        BY <1>1, <2>4, <3>2 DEF SpansAre
      <4>2. longer[i][1] <= k /\ k <= longer[i][2]
        <5>1. CASE i = o
          BY <1>1, <3>1, <3>2, <4>1, <5>1
        <5>2. CASE i # o
          BY <1>11, <4>1, <5>2
        <5> QED BY <5>1, <5>2
      <4> QED BY <1>1, <1>9, <1>12, <3>2, <4>1, <4>2
    <3>3. CASE k = n + 1
      <4>1. more[o].event = grown[k].event /\ o \in DOMAIN more
        BY <1>1, <1>3, <1>9, <1>12, <3>3
      <4>2. longer[o][1] <= k /\ k <= longer[o][2]
        BY <1>1, <1>8, <3>1, <3>3
      <4> QED BY <4>1, <4>2
    <3> QED BY <1>2, <3>2, <3>3
  <2> QED BY <2>1, <2>2, <2>3, <2>4 DEF SpansAre
<1>16. ASSUME NEW e \in EventsOf, open[e] # 0
       PROVE  /\ open[e] \in DOMAIN more /\ more[open[e]].event = e
              /\ \A k \in DOMAIN grown : k > longer[open[e]][2] => grown[k].event # e
  <2>1. /\ open[e] \in DOMAIN episodes /\ episodes[open[e]].event = e
        /\ \A k \in DOMAIN priced : k > spans[open[e]][2] => priced[k].event # e
    BY <1>16 DEF OpenIs
  <2>2. open[e] \in DOMAIN more /\ more[open[e]].event = e
    BY <1>9, <1>12, <2>1
  <2>3. CASE e = p.event
    <3>1. longer[open[e]][2] = n + 1 /\ \A k \in DOMAIN grown : ~ k > n + 1
      BY <1>1, <1>6, <1>11, <2>3
    <3> QED BY <2>2, <3>1
  <2>4. CASE e # p.event
    <3>1. open[e] # o
      BY <1>3, <2>1, <2>4
    <3>2. longer[open[e]] = spans[open[e]]
      BY <1>11, <2>1, <3>1
    <3> QED BY <1>1, <1>2, <2>1, <2>2, <2>4, <3>2
  <2> QED BY <2>3, <2>4
<1>17. ASSUME NEW e \in EventsOf, open[e] = 0, NEW k \in DOMAIN grown, grown[k].event = e
       PROVE  Broken(grown, e, k, n + 1)
  <2>1. e # p.event
    BY <1>17
  <2>2. k \in DOMAIN priced /\ priced[k].event = e
    BY <1>1, <1>2, <1>17, <2>1
  <2>3. Broken(priced, e, k, n)
    BY <1>1, <1>17, <2>2 DEF OpenIs
  <2> QED BY <2>3, BrokenGrows
<1>18. ASSUME NEW i \in DOMAIN more
       PROVE  open[more[i].event] = i \/ Broken(grown, more[i].event, longer[i][2], n + 1)
  <2>1. more[i].event = episodes[i].event /\ i \in DOMAIN episodes
    BY <1>9, <1>12
  <2>2. CASE i = o
    BY <1>3, <2>1, <2>2
  <2>3. CASE i # o
    <3>1. longer[i] = spans[i]
      BY <1>11, <2>1, <2>3
    <3>2. \/ open[episodes[i].event] = i
          \/ Broken(priced, episodes[i].event, spans[i][2], n)
      BY <1>13, <2>1
    <3> QED BY <2>1, <3>1, <3>2, BrokenGrows
  <2> QED BY <2>2, <2>3
<1>19. OpenIs(grown, more, open, longer)
  <2>1. \A e \in EventsOf : open[e] = 0 =>
          \A k \in DOMAIN grown : grown[k].event = e => Broken(grown, e, k, Len(grown))
    BY <1>1, <1>17
  <2>2. \A i \in DOMAIN more :
          open[more[i].event] = i \/ Broken(grown, more[i].event, longer[i][2], Len(grown))
    BY <1>1, <1>18
  <2>3. DOMAIN open = EventsOf
    BY DEF OpenIs
  <2> QED BY <1>16, <2>1, <2>2, <2>3 DEF OpenIs
<1> QED BY <1>15, <1>19

LEMMA ReplacedAny ==
  ASSUME NEW Y, NEW s \in Seq(Y), NEW i, NEW v
  PROVE  [s EXCEPT ![i] = v] \in Seq(Y \cup {v})
<1>1. PICK n \in Nat : n = Len(s) /\ DOMAIN s = 1 .. n
  OBVIOUS
<1>2. \A j \in 1 .. n : [s EXCEPT ![i] = v][j] \in Y \cup {v}
  BY <1>1
<1>3. [s EXCEPT ![i] = v] \in [1 .. n -> Y \cup {v}]
  BY <1>1, <1>2
<1> QED BY <1>3

\* A pricing that is booked keeps the episodes right.
LEMMA BookedKeepsEpisodes ==
  ASSUME NEW scan, DOMAIN scan = ScanFields,
         EpisodesAre(scan.priced, scan.episodes, scan.open),
         NEW p, NetDollars(p) \in Int, p.event \in EventsOf,
         NEW next, next = Booked(scan, p)
  PROVE  EpisodesAre(next.priced, next.episodes, next.open)
<1>1. PICK priced, episodes, open :
        priced = scan.priced /\ episodes = scan.episodes /\ open = scan.open
  OBVIOUS
<1>2. PICK spans : SpansAre(priced, episodes, spans) /\ OpenIs(priced, episodes, open, spans)
  BY <1>1 DEF EpisodesAre
<1>3. PICK Y : episodes \in Seq(Y)
  BY <1>1 DEF EpisodesAre
<1>4. Worth(priced)
  BY <1>1 DEF EpisodesAre
<1>5. PICK grown, n : grown = Append(priced, p) /\ n = Len(priced)
  OBVIOUS
<1>6. IsGrown(priced, p, grown, n) /\ Worth(grown)
  BY <1>4, <1>5, GrownIs
<1>7. next.priced = grown
  BY <1>1, <1>5, BookedKeeps
<1>8. PICK more, left : more = next.episodes /\ left = next.open
  OBVIOUS
<1>9. CASE ~ Cheap(p)
  <2>1. more = episodes /\ left = [open EXCEPT ![p.event] = 0]
    <3>1. next.episodes = scan.episodes /\ next.open = [scan.open EXCEPT ![p.event] = 0]
      BY <1>9, DearBooked
    <3> QED BY <1>1, <1>8, <3>1
  <2>2. SpansAre(grown, episodes, spans) /\ OpenIs(grown, episodes, left, spans)
    BY ZenonT(30), <1>2, <1>6, <1>9, <2>1, DearKeeps
  <2> QED BY <1>3, <1>6, <1>7, <1>8, <2>1, <2>2 DEF EpisodesAre
<1>10. CASE Cheap(p) /\ open[p.event] = 0
  <2>1. more = Append(episodes, NewEpisode(p)) /\ left = [open EXCEPT ![p.event] = Len(episodes) + 1]
    <3>1. Cheap(p) /\ scan.open[p.event] = 0
      BY <1>1, <1>10
    <3>2. /\ next.episodes = Append(scan.episodes, NewEpisode(p))
          /\ next.open = [scan.open EXCEPT ![p.event] = Len(scan.episodes) + 1]
      BY <3>1, CheapOpens
    <3> QED BY <1>1, <1>8, <3>2
  <2>2. \E longer : SpansAre(grown, more, longer) /\ OpenIs(grown, more, left, longer)
    <3>1. Opens(episodes, open, p, more, left)
      BY <1>3, <1>10, <2>1 DEF Opens
    <3> QED BY <1>2, <1>6, <3>1, NewKeeps
  <2>3. more \in Seq(Y \cup {NewEpisode(p)})
    BY <1>3, <2>1, AppendAny
  <2> QED BY <1>6, <1>7, <1>8, <2>2, <2>3 DEF EpisodesAre
<1>11. CASE Cheap(p) /\ open[p.event] # 0
  <2>1. PICK o : o = open[p.event]
    OBVIOUS
  <2>2. more = [episodes EXCEPT ![o] = Extended(@, p)] /\ left = open
    <3>1. Cheap(p) /\ scan.open[p.event] # 0
      BY <1>1, <1>11
    <3>2. /\ next.episodes = [scan.episodes EXCEPT ![scan.open[p.event]] = Extended(@, p)]
          /\ next.open = scan.open
      BY <3>1, CheapExtends
    <3> QED BY <1>1, <1>8, <2>1, <3>2
  <2>3. \E longer : SpansAre(grown, more, longer) /\ OpenIs(grown, more, open, longer)
    BY <1>2, <1>3, <1>6, <1>11, <2>1, <2>2, ExtendKeeps
  <2>4. more \in Seq(Y \cup {Extended(episodes[o], p)})
    <3>1. PICK longer : longer = Extended(episodes[o], p)
      OBVIOUS
    <3>2. more = [episodes EXCEPT ![o] = longer]
      BY <2>2, <3>1
    <3>3. [episodes EXCEPT ![o] = longer] \in Seq(Y \cup {longer})
      BY <1>3, ReplacedAny
    <3> QED BY <3>1, <3>2, <3>3
  <2> QED BY <1>6, <1>7, <1>8, <2>2, <2>3, <2>4 DEF EpisodesAre
<1> QED BY <1>1, <1>9, <1>10, <1>11

EpisodeScanIs(R, P, scan, k) ==
  ScanIs(R, P, scan, k) /\ EpisodesAre(scan.priced, scan.episodes, scan.open)

LEMMA EpisodeStep ==
  ASSUME NEW R \in Seq(Row), NEW P, NEW k \in DOMAIN R, NEW scan, EpisodeScanIs(R, P, scan, k - 1),
         NEW next, next = ScanRow(R, P, MaxLegAge, scan, R[k])
  PROVE  EpisodeScanIs(R, P, next, k)
<1>1. k \in Nat \ {0} /\ R[k] \in Row
  OBVIOUS
<1>2. ScanIs(R, P, scan, k - 1) /\ DOMAIN scan = ScanFields /\ LatestIs(R, scan.latest, k - 1)
  BY DEF EpisodeScanIs, ScanIs
<1>3. ScanIs(R, P, next, k)
  BY <1>1, <1>2, ScanStep
<1>4. Skips(R, scan, R[k], next) \/ Prices(R, P, scan, R[k], next)
  BY <1>2, ScanRowIs
<1>5. CASE Skips(R, scan, R[k], next)
  <2>1. next.priced = scan.priced /\ next.episodes = scan.episodes /\ next.open = scan.open
    BY <1>5 DEF Skips
  <2> QED BY <1>3, <2>1 DEF EpisodeScanIs
<1>6. CASE Prices(R, P, scan, R[k], next)
  <2>1. PICK latest : latest = Put(scan.latest, R[k].ticker, QuoteOf(R[k]))
    OBVIOUS
  <2>2. PICK wanted : wanted = LegsOf(R, R[k].ticker)
    OBVIOUS
  <2>3. PICK p : p = PricingOf(R[k], latest, wanted)
    OBVIOUS
  <2>4. PICK kept : kept = [scan EXCEPT !.latest = latest]
    OBVIOUS
  <2>5. /\ R[k].book.complete /\ DOMAIN R[k].book.no # {}
        /\ wanted \subseteq DOMAIN latest /\ ~ Cardinality(wanted) < 2
        /\ next = Booked(kept, p)
    BY <1>6, <2>1, <2>2, <2>3, <2>4 DEF Prices
  <2>6. /\ DOMAIN kept = ScanFields /\ kept.priced = scan.priced
        /\ kept.episodes = scan.episodes /\ kept.open = scan.open
    BY <1>2, <2>4 DEF ScanFields
  <2>7. LatestIs(R, latest, k)
    BY <1>1, <1>2, <2>1, <2>5, LatestKept
  <2>8. NetDollars(p) \in Int
    BY <2>2, <2>3, <2>5, <2>7, PricingAmounts
  <2>9. p.event \in EventsOf
    <3>1. p.event = EventOf[R[k].ticker]
      BY <2>3 DEF PricingOf
    <3>2. R[k].ticker \in Ticker
      BY <1>1 DEF Row
    <3>3. \A t \in Ticker : t \in DOMAIN EventOf
      <4>1. LegOrder \in Seq(DOMAIN EventOf)
        BY ArchiveConstants
      <4>2. \A i \in DOMAIN LegOrder : LegOrder[i] \in DOMAIN EventOf
        BY <4>1
      <4> QED BY <4>2 DEF Ticker, ToSet
    <3> QED BY <3>1, <3>2, <3>3 DEF EventsOf
  <2>10. EpisodesAre(kept.priced, kept.episodes, kept.open)
    BY <2>6 DEF EpisodeScanIs
  <2>11. EpisodesAre(next.priced, next.episodes, next.open)
    BY <2>5, <2>6, <2>8, <2>9, <2>10, BookedKeepsEpisodes
  <2> QED BY <1>3, <2>11 DEF EpisodeScanIs
<1> QED BY <1>4, <1>5, <1>6

LEMMA EpisodeScanHolds ==
  ASSUME NEW R \in Seq(Row), NEW P
  PROVE  EpisodeScanIs(R, P, BasketScan(R, P, MaxLegAge), Len(R))
<1>1. Len(R) \in Nat /\ DOMAIN R = 1 .. Len(R)
  OBVIOUS
<1>2. PICK run : IsReading("baskets", R, P, run) /\ Folded("baskets", R, P) = run[Len(R)]
  BY <1>1, ReadingExists
<1>3. BasketScan(R, P, MaxLegAge) = Folded("baskets", R, P)
  BY DEF BasketScan, Folded, Base, Step
<1> DEFINE Good == {i \in 0 .. Len(R) : EpisodeScanIs(R, P, run[i], i)}
<1>4. 0 \in Good
  <2>1. run[0] = NothingScanned
    BY <1>2 DEF IsReading, Base
  <2>2. ScanIs(R, P, NothingScanned, 0)
    <3>1. ScanIs(R, P, run[0], 0)
      BY <2>1, NothingScannedIs
    <3> QED BY <2>1, <3>1
  <2>3. EpisodesAre(<<>>, <<>>, [e \in EventsOf |-> 0])
    <3>1. Worth(<<>>)
      <4>1. <<>> \in Seq({}) /\ DOMAIN <<>> = {}
        OBVIOUS
      <4> QED BY <4>1 DEF Worth
    <3>2. SpansAre(<<>>, <<>>, <<>>)
      BY DEF SpansAre
    <3>3. OpenIs(<<>>, <<>>, [e \in EventsOf |-> 0], <<>>)
      BY DEF OpenIs
    <3>4. <<>> \in Seq({})
      OBVIOUS
    <3> QED BY <3>1, <3>2, <3>3, <3>4 DEF EpisodesAre
  <2>4. /\ NothingScanned.priced = <<>> /\ NothingScanned.episodes = <<>>
        /\ NothingScanned.open = [e \in EventsOf |-> 0]
    BY DEF NothingScanned, EventsOf
  <2>5. EpisodeScanIs(R, P, NothingScanned, 0)
    BY <2>2, <2>3, <2>4 DEF EpisodeScanIs
  <2> QED BY <2>1, <2>5
<1>5. ASSUME NEW i \in 1 .. Len(R), i - 1 \in Good PROVE i \in Good
  <2>1. run[i] = ScanRow(R, P, MaxLegAge, run[i - 1], R[i])
    BY <1>2 DEF IsReading, Step
  <2>2. EpisodeScanIs(R, P, run[i - 1], i - 1) /\ i \in DOMAIN R /\ i \in 0 .. Len(R)
    BY <1>1, <1>5
  <2>3. EpisodeScanIs(R, P, run[i], i)
    BY <2>1, <2>2, EpisodeStep
  <2> QED BY <2>2, <2>3
<1>6. Good \in SUBSET (0 .. Len(R))
  OBVIOUS
<1> HIDE DEF Good
<1>7. Good = 0 .. Len(R)
  BY <1>1, <1>4, <1>5, <1>6, ReadingKeeps
<1>8. Len(R) \in Good
  BY <1>1, <1>7
<1>9. EpisodeScanIs(R, P, run[Len(R)], Len(R))
  BY <1>8 DEF Good
<1> QED BY <1>2, <1>3, <1>9

\* The spans are the runs.
LEMMA SpansAreRuns ==
  ASSUME NEW priced, Worth(priced), NEW episodes, NEW spans, SpansAre(priced, episodes, spans)
  PROVE  Runs(priced) = {spans[i] : i \in DOMAIN episodes}
<1>1. PICK n \in Nat : DOMAIN priced = 1 .. n
  BY DEF Worth
<1>2. ASSUME NEW i \in DOMAIN episodes
      PROVE  /\ spans[i] \in Stretches(priced) /\ Fenced(priced, spans[i])
             /\ episodes[i].event = priced[spans[i][1]].event
  BY DEF SpansAre, IsOfSpan
<1>3. ASSUME NEW r \in Stretches(priced)
      PROVE  /\ r[1] \in 1 .. n /\ r[2] \in 1 .. n /\ r[1] <= r[2] /\ r = <<r[1], r[2]>>
             /\ priced[r[2]].event = priced[r[1]].event
             /\ \A j \in 1 .. n : r[1] <= j /\ j <= r[2] /\ priced[j].event = priced[r[1]].event
                  => Cheap(priced[j])
  <2>1. /\ r \in (1 .. n) \X (1 .. n) /\ r[1] <= r[2] /\ priced[r[1]].event = priced[r[2]].event
        /\ \A i \in r[1] .. r[2] : priced[i].event = priced[r[1]].event => Cheap(priced[i])
    BY <1>1 DEF Stretches
  <2>2. PICK a \in 1 .. n, b \in 1 .. n : r = <<a, b>> /\ a = r[1] /\ b = r[2]
    BY <2>1
  <2>3. \A j \in 1 .. n : a <= j /\ j <= b => j \in a .. b
    BY <2>2
  <2> QED BY <2>1, <2>2, <2>3
\* A stretch of the event that shares a pricing with a span lies within it.
<1>4. ASSUME NEW i \in DOMAIN episodes, NEW r \in Stretches(priced),
             priced[r[1]].event = episodes[i].event,
             NEW x \in 1 .. n, r[1] <= x, x <= r[2], spans[i][1] <= x, x <= spans[i][2]
      PROVE  spans[i][1] <= r[1] /\ r[2] <= spans[i][2]
  <2>1. PICK a \in 1 .. n, b \in 1 .. n : a = r[1] /\ b = r[2]
    BY <1>3
  <2>2. PICK c \in 1 .. n, d \in 1 .. n : c = spans[i][1] /\ d = spans[i][2]
    BY <1>2, <1>3
  <2>3. PICK e : e = episodes[i].event
    OBVIOUS
  <2>4. priced[a].event = e /\ priced[b].event = e /\ priced[c].event = e
    BY <1>2, <1>3, <1>4, <2>1, <2>2, <2>3
  <2>5. \A j \in 1 .. n : a <= j /\ j <= b /\ priced[j].event = e => Cheap(priced[j])
    BY <1>3, <2>1, <2>4
  <2>6. /\ a < c => Broken(priced, e, a, c)
        /\ b > d => Broken(priced, e, d, b)
    BY <1>1, <1>2, <2>2, <2>4 DEF Fenced
  <2>7. a <= x /\ x <= b /\ c <= x /\ x <= d
    BY <1>4, <2>1, <2>2
  <2>8. ~ Broken(priced, e, a, c)
    <3>1. ASSUME NEW j \in 1 .. n, a <= j, j <= c PROVE a <= j /\ j <= b
      BY <2>7, <3>1
    <3> QED BY <1>1, <2>5, <3>1 DEF Broken
  <2>9. ~ Broken(priced, e, d, b)
    <3>1. ASSUME NEW j \in 1 .. n, d <= j, j <= b PROVE a <= j /\ j <= b
      BY <2>7, <3>1
    <3> QED BY <1>1, <2>5, <3>1 DEF Broken
  <2>10. ~ a < c /\ ~ b > d
    BY <2>6, <2>8, <2>9
  <2>11. c <= a /\ b <= d
    BY <2>10
  <2> QED BY <2>1, <2>2, <2>11
<1>5. ASSUME NEW i \in DOMAIN episodes PROVE spans[i] \in Runs(priced)
  <2>1. PICK r : r = spans[i]
    OBVIOUS
  <2>2. r \in Stretches(priced) /\ r[1] \in 1 .. n /\ r[1] <= r[2]
    BY <1>2, <1>3, <2>1
  <2>3. ASSUME NEW s \in Stretches(priced), s[1] <= r[1], r[2] <= s[2],
               priced[s[1]].event = priced[r[1]].event
        PROVE  s = r
    <3>1. priced[s[1]].event = episodes[i].event
      BY <1>2, <2>1, <2>3
    <3>2. PICK a \in 1 .. n, b \in 1 .. n : a = r[1] /\ b = r[2] /\ a <= b /\ r = <<a, b>>
      BY <1>3, <2>2
    <3>3. PICK c \in 1 .. n, d \in 1 .. n : c = s[1] /\ d = s[2] /\ s = <<c, d>>
      BY <1>3
    <3>4. a <= d
      BY <2>3, <3>2, <3>3
    <3>5. spans[i][1] <= s[1] /\ s[2] <= spans[i][2]
      BY <1>4, <2>1, <2>2, <2>3, <3>1, <3>2, <3>3, <3>4
    <3>6. a = c /\ b = d
      BY <2>1, <2>3, <3>2, <3>3, <3>5
    <3> QED BY <3>2, <3>3, <3>6
  <2> QED BY <2>1, <2>2, <2>3 DEF Runs
<1>6. ASSUME NEW r \in Runs(priced) PROVE \E i \in DOMAIN episodes : r = spans[i]
  <2>1. /\ r \in Stretches(priced)
        /\ \A s \in Stretches(priced) :
             s[1] <= r[1] /\ r[2] <= s[2] /\ priced[s[1]].event = priced[r[1]].event => s = r
    BY DEF Runs
  <2>2. r[1] \in 1 .. n /\ r[1] <= r[2] /\ Cheap(priced[r[1]])
    BY <1>3, <2>1
  <2>3. PICK i \in DOMAIN episodes : /\ episodes[i].event = priced[r[1]].event
                                     /\ spans[i][1] <= r[1] /\ r[1] <= spans[i][2]
    BY <1>1, <2>2 DEF SpansAre
  <2>4. spans[i][1] <= r[1] /\ r[2] <= spans[i][2]
    BY <1>4, <2>1, <2>2, <2>3
  <2>5. spans[i] = r
    BY <1>2, <2>1, <2>3, <2>4
  <2> QED BY <2>5
<1> QED BY <1>5, <1>6

RunsToldBy(priced, episodes) ==
  LET asRun(k) == [event |-> k.event, first |-> k.first, last |-> k.last,
                   observations |-> k.observations, bestNet |-> k.bestNet]
  IN  /\ {asRun(episodes[i]) : i \in DOMAIN episodes} =
           {[event |-> priced[r[1]].event, first |-> priced[r[1]].at,
             last |-> priced[r[2]].at, observations |-> Cardinality(Within(priced, r)),
             bestNet |-> Max(Nets(priced, r))] : r \in Runs(priced)}
      /\ Len(episodes) = Cardinality(Runs(priced))

\* An event's episodes are the runs of its pricings below a dollar, each from its first
\* pricing to its last and with the best net it had (baskets.py:440-482).
THEOREM EpisodesAreTheRuns == ArchiveSpec => []EpisodesAreRuns
<1>1. ASSUME HistoryInv PROVE EpisodesAreRuns
  <2>1. PICK R \in Seq(Row) : R = Rows
    BY <1>1, RowsAre DEF HistoryInv, Tells
  <2>2. PICK scan : scan = BasketScan(R, polls, MaxLegAge)
    OBVIOUS
  <2>3. PICK priced, episodes : priced = scan.priced /\ episodes = scan.episodes
    OBVIOUS
  <2>4. EpisodesAre(priced, episodes, scan.open)
    BY <2>1, <2>2, <2>3, EpisodeScanHolds DEF EpisodeScanIs
  <2>5. PICK spans : SpansAre(priced, episodes, spans)
    BY <2>4 DEF EpisodesAre
  <2>6. Worth(priced) /\ \E Y : episodes \in Seq(Y)
    BY <2>4 DEF EpisodesAre
  <2>7. Runs(priced) = {spans[i] : i \in DOMAIN episodes}
    BY <2>5, <2>6, SpansAreRuns
  <2>8. Len(episodes) \in Nat /\ DOMAIN episodes = 1 .. Len(episodes)
    BY <2>6
  <2>9. Len(episodes) = Cardinality(Runs(priced))
    <3>1. /\ DOMAIN spans = DOMAIN episodes
          /\ \A i, j \in DOMAIN episodes : spans[i] = spans[j] => i = j
      BY <2>5 DEF SpansAre
    <3> DEFINE index == [i \in 1 .. Len(episodes) |-> spans[i]]
    <3>2. index \in [1 .. Len(episodes) -> Runs(priced)]
      BY <2>7, <2>8
    <3>3. index \in Injection(1 .. Len(episodes), Runs(priced))
      <4>1. \A i, j \in 1 .. Len(episodes) : index[i] = index[j] => i = j
        BY <2>8, <3>1
      <4>2. DOMAIN index = 1 .. Len(episodes)
        OBVIOUS
      <4> HIDE DEF index
      <4> QED BY <3>2, <4>1, <4>2 DEF Injection, IsInjective
    <3>4. index \in Surjection(1 .. Len(episodes), Runs(priced))
      <4>1. \A r \in Runs(priced) : \E i \in 1 .. Len(episodes) : index[i] = r
        BY <2>7, <2>8
      <4> HIDE DEF index
      <4> QED BY <3>2, <4>1 DEF Surjection
    <3>5. ExistsBijection(1 .. Len(episodes), Runs(priced))
      <4> HIDE DEF index
      <4> QED BY <3>3, <3>4 DEF ExistsBijection, Bijection
    <3>6. PICK m \in Nat : m = Len(episodes)
      BY <2>8
    <3>7. IsFiniteSet(1 .. m) /\ Cardinality(1 .. m) = m
      <4>1. 1 \in Int /\ m \in Int /\ (1 > m => m = 0) /\ m - 1 + 1 = m
        OBVIOUS
      <4> QED BY <4>1, FS_Interval
    <3> QED BY <3>5, <3>6, <3>7, FS_Bijection
  <2> DEFINE asRun(k) == [event |-> k.event, first |-> k.first, last |-> k.last,
                          observations |-> k.observations, bestNet |-> k.bestNet]
             told(r) == [event |-> priced[r[1]].event, first |-> priced[r[1]].at,
                         last |-> priced[r[2]].at, observations |-> Cardinality(Within(priced, r)),
                         bestNet |-> Max(Nets(priced, r))]
  <2>10. ASSUME NEW i \in DOMAIN episodes PROVE asRun(episodes[i]) = told(spans[i])
    <3>1. PICK r : r = spans[i]
      OBVIOUS
    <3>2. IsOfSpan(priced, episodes[i], r) /\ r \in Stretches(priced)
      BY <2>5, <3>1 DEF SpansAre
    <3>3. Nets(priced, r) \in SUBSET Int
      <4>1. \A j \in Within(priced, r) : j \in DOMAIN priced
        <5>1. PICK n \in Nat : DOMAIN priced = 1 .. n
          BY <2>6 DEF Worth
        <5>2. r[1] \in 1 .. n /\ r[2] \in 1 .. n
          BY <3>2, <5>1 DEF Stretches
        <5> QED BY <5>1, <5>2 DEF Within
      <4> QED BY <2>6, <4>1 DEF Nets, Worth
    <3>4. Max(Nets(priced, r)) = episodes[i].bestNet
      BY <3>2, <3>3, GreatestIsMax DEF IsOfSpan
    <3> QED BY <3>1, <3>2, <3>4 DEF IsOfSpan
  <2>11. {asRun(episodes[i]) : i \in DOMAIN episodes} = {told(r) : r \in Runs(priced)}
    <3>1. PICK lists, spanned, runs : /\ lists = DOMAIN episodes /\ runs = Runs(priced)
                                      /\ spanned = {spans[i] : i \in lists}
      OBVIOUS
    <3> HIDE DEF asRun, told
    <3>2. \A i \in lists : spans[i] \in runs /\ asRun(episodes[i]) = told(spans[i])
      BY <2>7, <2>10, <3>1
    <3>3. \A r \in runs : \E i \in lists : r = spans[i]
      BY <2>7, <3>1
    <3>4. {asRun(episodes[i]) : i \in lists} = {told(r) : r \in runs}
      BY <3>2, <3>3
    <3> QED BY <3>1, <3>4
  <2>12. RunsToldBy(priced, episodes)
    BY <2>9, <2>11 DEF RunsToldBy
  <2>13. RunsToldBy(BasketScan(Rows, polls, MaxLegAge).priced, BasketScan(Rows, polls, MaxLegAge).episodes)
    BY <2>1, <2>2, <2>3, <2>12
  <2> QED BY <2>13 DEF EpisodesAreRuns, RunsToldBy, Within, Nets
<1> QED BY <1>1, HistoryHolds, PTL

-----------------------------------------------------------------------------
(* The funnel: what it accepts, the scan has priced below a dollar.         *)

\* Markets in order are all of them, each once.
LEMMA InOrderIs ==
  ASSUME NEW wanted, wanted \subseteq Ticker
  PROVE  \E n \in Nat : Enumerates(InOrder(LegOrder, wanted), n, wanted)
<1> DEFINE at == {i \in DOMAIN LegOrder : LegOrder[i] \in wanted}
           place == CHOOSE s \in [1 .. Cardinality(at) -> at] :
                      \A i, j \in DOMAIN s : i < j => s[i] < s[j]
           R == {p \in Int \X Int : p[1] < p[2]}
           n == Cardinality(at)
<1>1. InOrder(LegOrder, wanted) = [i \in DOMAIN place |-> LegOrder[place[i]]]
  BY DEF InOrder
<1>2. /\ \A i \in at : LegOrder[i] \in wanted
      /\ \A t \in wanted : \E i \in at : LegOrder[i] = t
      /\ \A i, j \in at : LegOrder[i] = LegOrder[j] => i = j
  <2>1. \A t \in wanted : \E i \in DOMAIN LegOrder : LegOrder[i] = t
    BY DEF Ticker, ToSet
  <2>2. \A i, j \in DOMAIN LegOrder : LegOrder[i] = LegOrder[j] => i = j
    BY ArchiveConstants DEF IsInjective
  <2> QED BY <2>1, <2>2
<1>3. at \subseteq Int /\ IsFiniteSet(at)
  <2>1. at \in SUBSET (1 .. Len(LegOrder)) /\ Len(LegOrder) \in Nat
    BY LegOrderIs
  <2>2. IsFiniteSet(1 .. Len(LegOrder))
    BY <2>1, FS_Interval
  <2>3. IsFiniteSet(at)
    <3> HIDE DEF at
    <3> QED BY <2>1, <2>2, FS_Subset
  <2> QED BY <2>1, <2>3
<1> HIDE DEF at
<1>4. IsTotal(R, at) /\ IsTransitive(R, at)
  <2>1. \A x, y \in Int : <<x, y>> \in R <=> x < y
    OBVIOUS
  <2> HIDE DEF R
  <2> QED BY <1>3, <2>1 DEF IsTotal, IsTransitive
<1>5. \E s \in [1 .. Cardinality(at) -> at] : \A i, j \in DOMAIN s : i < j => s[i] < s[j]
  <2>1. PICK s : Lists(s, R, at)
    <3> HIDE DEF R
    <3> QED BY <1>3, <1>4, ListExists
  <2> QED BY <2>1 DEF Lists
<1>6. place \in [1 .. n -> at] /\ \A i, j \in DOMAIN place : i < j => place[i] < place[j]
  BY <1>5
<1>7. n \in Nat
  BY <1>3, FS_CardinalityType
<1> HIDE DEF place
<1>8. ASSUME NEW i \in 1 .. n, NEW j \in 1 .. n, place[i] = place[j] PROVE i = j
  <2>1. PICK x \in Int : x = place[i] /\ x = place[j]
    BY <1>3, <1>6, <1>8
  <2>2. ~ x < x
    OBVIOUS
  <2>3. ~ i < j /\ ~ j < i
    BY <1>6, <2>1, <2>2
  <2> QED BY <1>7, <2>3
<1>9. \A p \in at : \E i \in 1 .. n : place[i] = p
  <2>1. place \in Injection(1 .. n, at)
    BY <1>6, <1>8 DEF Injection, IsInjective
  <2>2. Cardinality(1 .. n) = n
    BY <1>7, FS_Interval
  <2>3. PICK T : T = 1 .. n
    OBVIOUS
  <2>4. place \in Surjection(T, at)
    <3>1. place \in Injection(T, at) /\ Cardinality(T) = Cardinality(at)
      BY <2>1, <2>2, <2>3
    <3> QED BY <1>3, <3>1, FS_Injection
  <2> QED BY <2>3, <2>4 DEF Surjection
<1>10. PICK o : o = [i \in 1 .. n |-> LegOrder[place[i]]]
  OBVIOUS
<1>11. Enumerates(o, n, wanted)
  <2>1. o \in [1 .. n -> wanted]
    BY <1>2, <1>6, <1>10
  <2>2. ASSUME NEW i \in 1 .. n, NEW j \in 1 .. n, i < j PROVE o[i] # o[j]
    <3>1. i # j
      BY <1>7, <2>2
    <3>2. place[i] # place[j] /\ place[i] \in at /\ place[j] \in at
      BY <1>6, <1>8, <3>1
    <3> QED BY <1>2, <1>10, <3>2
  <2>3. ASSUME NEW t \in wanted PROVE \E i \in 1 .. n : o[i] = t
    <3>1. PICK p \in at : LegOrder[p] = t
      BY <1>2
    <3>2. PICK i \in 1 .. n : place[i] = p
      BY <1>9
    <3> QED BY <1>10, <3>1, <3>2
  <2> QED BY <2>1, <2>2, <2>3 DEF Enumerates
<1>12. InOrder(LegOrder, wanted) = o
  BY <1>1, <1>6, <1>10
<1> QED BY <1>7, <1>11, <1>12

\* A leg of a basket of YES that passes the gates: its offer, and what it is quoted at.
LEMMA YesLeg ==
  ASSUME NEW r, IsRequest(r), r.quantity # 0, NEW t,
         NEW leg, leg = [ticker |-> t, side |-> "yes"], LegReason(r, leg) = "none"
  PROVE  LET best == Dollar - BestPrice(r.books[t].no)
         IN  /\ t \in DOMAIN r.books /\ ~ r.ages[t] > r.maxAge /\ DOMAIN r.books[t].no # {}
             /\ best \in Nat /\ r.quantity * best <= QuoteLeg(r, leg).cost
             /\ QuoteLeg(r, leg).cost \in Nat /\ QuoteLeg(r, leg).fee \in Nat
<1>1. leg.ticker = t /\ leg.side = "yes"
  OBVIOUS
<1>2. t \in DOMAIN r.books /\ ~ r.ages[t] > r.maxAge
  BY <1>1 DEF LegReason
<1>3. PICK bids : bids = r.books[leg.ticker][Opposite(leg.side)] /\ bids = r.books[t].no
  BY <1>1 DEF Opposite
<1>4. PICK best, cost, full, q :
        /\ best = Dollar - BestPrice(bids) /\ cost = QuoteLeg(r, leg).cost
        /\ full = LegCost(r, leg) /\ q = r.quantity
  OBVIOUS
<1>5. q \in Nat
  BY <1>4 DEF IsRequest
<1>6. /\ DOMAIN bids # {} /\ best \in Nat /\ full \in Nat /\ cost \in Nat
      /\ full <= cost /\ cost <= q * Dollar /\ q * best <= full
  BY <1>3, <1>4, LegIs
<1>7. PICK x \in Nat : x = q * best
  BY <1>5, <1>6
<1>8. x <= cost
  BY <1>6, <1>7
<1>9. QuoteLeg(r, leg).fee \in Nat
  <2>1. QuoteLeg(r, leg).fee = Fee(RuleFor(t), QuoteLeg(r, leg).cost, r.quantity)
    BY <1>1 DEF QuoteLeg
  <2>2. Fee(RuleFor(t), cost, q) \in Nat
    BY <1>5, <1>6, FeeIsNatural
  <2> QED BY <1>4, <2>1, <2>2
<1> QED BY <1>2, <1>3, <1>4, <1>6, <1>7, <1>8, <1>9

\* A basket of YES on all the markets there are books of.
IsBasket(r, o, n) ==
  /\ IsRequest(r) /\ r.reserve = 0
  /\ IsFiniteSet(DOMAIN r.books) /\ Enumerates(o, n, DOMAIN r.books)
  /\ r.legs = [i \in 1 .. n |-> [ticker |-> o[i], side |-> "yes"]]

\* One that is accepted takes offers that are fresh and together below a dollar.
LEMMA AcceptedBasket ==
  ASSUME NEW r, NEW o, NEW n \in Nat, IsBasket(r, o, n), EvaluateBasket(r).accepted
  PROVE  /\ \A t \in DOMAIN r.books : ~ r.ages[t] > r.maxAge /\ DOMAIN r.books[t].no # {}
         /\ BestOffer(r.books) \in [DOMAIN r.books -> Nat]
         /\ Total(BestOffer(r.books)) \in Nat /\ Total(BestOffer(r.books)) < Dollar
<1> DEFINE S == DOMAIN r.books
           w == BestOffer(r.books)
           q == r.quantity
           C == [i \in 1 .. n |-> QuoteLeg(r, r.legs[i]).cost]
           F == [i \in 1 .. n |-> QuoteLeg(r, r.legs[i]).fee]
           b == [i \in 1 .. n |-> w[o[i]]]
           qb == [i \in 1 .. n |-> q * b[i]]
<1>1. /\ IsRequest(r) /\ IsFiniteSet(S) /\ Enumerates(o, n, S)
      /\ DOMAIN r.legs = 1 .. n /\ \A i \in 1 .. n : r.legs[i] = [ticker |-> o[i], side |-> "yes"]
  BY DEF IsBasket
<1>2. PICK payout, reserves, e :
        /\ payout = QuantizeProceeds(Dollar * r.quantity)
        /\ reserves = QuantizeCost(r.reserve * r.quantity) /\ e = EvaluateBasket(r)
  OBVIOUS
<1>3. ~ r.quantity <= 0 /\ e = Qualify(r, payout, reserves) /\ e.accepted
  BY <1>2 DEF EvaluateBasket, Rejected
<1>4. q \in Nat \ {0} /\ Dollar \in Nat \ {0} /\ Dollar * q \in Int
  <2>1. q \in Nat /\ Dollar \in Nat \ {0}
    BY <1>1, DollarType DEF IsRequest
  <2> QED BY <1>3, <2>1
<1>5. payout \in Int /\ payout <= Dollar * q
  BY <1>2, <1>4, ProceedsRoundDown
<1>6. reserves \in Int /\ reserves >= 0
  <2>1. r.reserve * r.quantity = 0
    BY <1>4 DEF IsBasket
  <2>2. 0 \in Int
    OBVIOUS
  <2> QED BY <1>2, <2>1, <2>2, CostRoundsUp
<1>7. /\ \A i \in DOMAIN r.legs : LegReason(r, r.legs[i]) = "none"
      /\ e.acquisition = QuantizeCost(SumOver([k \in DOMAIN r.legs |-> QuoteLeg(r, r.legs[k]).cost]))
      /\ e.fees = SumOver([k \in DOMAIN r.legs |-> QuoteLeg(r, r.legs[k]).fee])
      /\ e.acquisition \in Int /\ e.fees \in Int
      /\ e.payout = payout /\ e.reserves = reserves
      /\ NetEdge(e) > 0
  <2>1. IsRequest(r) /\ r.quantity # 0 /\ payout \in Int /\ reserves \in Int
    BY <1>1, <1>4, <1>5, <1>6
  <2>2. e = Qualify(r, payout, reserves) /\ e.accepted
    BY <1>3
  <2>3. /\ \A i \in DOMAIN r.legs : LegReason(r, r.legs[i]) = "none"
        /\ e.legs = [i \in DOMAIN r.legs |-> QuoteLeg(r, r.legs[i])]
        /\ e.acquisition = QuantizeCost(SumOver([k \in DOMAIN r.legs |-> QuoteLeg(r, r.legs[k]).cost]))
        /\ e.fees = SumOver([k \in DOMAIN r.legs |-> QuoteLeg(r, r.legs[k]).fee])
        /\ e.acquisition \in Int /\ e.fees \in Int
        /\ e.payout = payout /\ e.reserves = reserves
        /\ NetEdge(e) > 0
    BY ONLY <2>1, <2>2, Qualified
  <2> QED BY <2>3
<1>8. ASSUME NEW i \in 1 .. n
      PROVE  /\ o[i] \in S /\ ~ r.ages[o[i]] > r.maxAge /\ DOMAIN r.books[o[i]].no # {}
             /\ w[o[i]] \in Nat /\ w[o[i]] = Dollar - BestPrice(r.books[o[i]].no)
             /\ q * w[o[i]] <= C[i] /\ C[i] \in Nat /\ F[i] \in Nat
  <2>1. PICK t, leg, x, y : /\ t = o[i] /\ leg = r.legs[i]
                            /\ x = QuoteLeg(r, leg).cost /\ y = QuoteLeg(r, leg).fee
    OBVIOUS
  <2>2. PICK best : best = Dollar - BestPrice(r.books[t].no)
    OBVIOUS
  <2>3. t \in DOMAIN r.books
    BY <1>1, <2>1 DEF Enumerates
  <2>4. leg = [ticker |-> t, side |-> "yes"] /\ LegReason(r, leg) = "none"
    BY <1>1, <1>7, <2>1
  <2>5. /\ ~ r.ages[t] > r.maxAge /\ DOMAIN r.books[t].no # {}
        /\ best \in Nat /\ q * best <= x /\ x \in Nat /\ y \in Nat
    <3>1. r.quantity # 0
      BY <1>4
    <3> QED BY <1>1, <2>1, <2>2, <2>4, <3>1, YesLeg
  <2>6. w[t] = best
    BY <2>2, <2>3 DEF BestOffer
  <2>7. C[i] = x /\ F[i] = y
    BY <2>1
  <2> HIDE DEF w, C, F, q
  <2> QED BY <2>1, <2>2, <2>3, <2>5, <2>6, <2>7
<1>9. \A t \in S : \E i \in 1 .. n : o[i] = t
  BY <1>1 DEF Enumerates
<1>10. \A t \in S : /\ ~ r.ages[t] > r.maxAge /\ DOMAIN r.books[t].no # {}
                    /\ Dollar - BestPrice(r.books[t].no) \in Nat
  <2> HIDE DEF w, C, F, q, S
  <2> QED BY <1>8, <1>9
<1>11. w \in [S -> Nat]
  BY <1>10 DEF BestOffer
<1>12. /\ C \in [1 .. n -> Int] /\ F \in [1 .. n -> Int] /\ \A i \in 1 .. n : F[i] >= 0
       /\ b \in [1 .. n -> Int] /\ qb \in [1 .. n -> Int]
       /\ \A i \in 1 .. n : b[i] = w[o[i]] /\ qb[i] = q * b[i]
  <2>1. ASSUME NEW i \in 1 .. n
        PROVE  C[i] \in Int /\ F[i] \in Int /\ F[i] >= 0 /\ w[o[i]] \in Int /\ q * w[o[i]] \in Int
    <3>1. PICK x \in Nat : x = w[o[i]]
      BY <1>8
    <3>2. PICK y \in Nat, z \in Nat : y = C[i] /\ z = F[i]
      BY <1>8
    <3> HIDE DEF C, F, w, q
    <3> QED BY <1>4, <3>1, <3>2
  <2>2. DOMAIN C = 1 .. n /\ DOMAIN F = 1 .. n
    OBVIOUS
  <2>3. C = [i \in 1 .. n |-> C[i]] /\ F = [i \in 1 .. n |-> F[i]]
    OBVIOUS
  <2> HIDE DEF C, F, w, q
  <2> QED BY <2>1, <2>3
<1>13. \A i \in 1 .. n : qb[i] <= C[i]
  <2> SUFFICES ASSUME NEW i \in 1 .. n PROVE qb[i] <= C[i]
    OBVIOUS
  <2>1. q * w[o[i]] <= C[i]
    BY <1>8
  <2> HIDE DEF C, w, q, b, qb
  <2>2. qb[i] = q * w[o[i]]
    BY <1>12
  <2> QED BY <2>1, <2>2
<1>14. /\ C = [k \in DOMAIN r.legs |-> QuoteLeg(r, r.legs[k]).cost]
       /\ F = [k \in DOMAIN r.legs |-> QuoteLeg(r, r.legs[k]).fee]
  BY <1>1
<1>15. NetEdge(e) > 0 /\ NetEdge(e) = e.payout - (e.acquisition + e.fees + e.reserves)
       /\ e.acquisition = QuantizeCost(SumOver(C)) /\ e.fees = SumOver(F)
  BY <1>7, <1>14 DEF NetEdge
<1> HIDE DEF C, F, w, q, b, qb, S
<1>16. SumOver(b) = Total(w) /\ Total(w) \in Nat
  <2>1. PICK run \in [0 .. n -> Int] : /\ run[0] = 0 /\ (\A i \in 1 .. n : run[i] = run[i - 1] + b[i])
                                       /\ SumOver(b) = run[n]
    BY <1>12, SumRuns
  <2>2. AddsUp(run, n, w, o)
    BY <1>12, <2>1 DEF AddsUp
  <2>3. n \in Nat
    OBVIOUS
  <2>4. run[n] = Total(w)
    BY ONLY <1>1, <1>11, <2>2, <2>3, TotalListed
  <2>5. Total(w) \in Nat
    BY ONLY <1>1, <1>11, TotalType
  <2> QED BY <2>1, <2>4, <2>5
<1>17. SumOver(qb) \in Int /\ SumOver(qb) = q * Total(w)
  <2>1. /\ n \in Nat /\ b \in [1 .. n -> Int] /\ qb \in [1 .. n -> Int] /\ q \in Int
        /\ \A i \in 1 .. n : qb[i] = q * b[i]
    BY <1>4, <1>12
  <2>2. SumOver(qb) \in Int /\ SumOver(qb) = q * SumOver(b)
    BY ONLY <2>1, SumScaled
  <2> QED BY <1>16, <2>2
<1>18. SumOver(C) \in Int /\ SumOver(qb) <= SumOver(C)
  BY <1>12, <1>13, SumMonotone
<1>19. SumOver(F) \in Int /\ SumOver(F) >= 0
  <2> DEFINE none == [i \in 1 .. n |-> 0]
  <2>1. none \in [1 .. n -> Int] /\ \A i \in 1 .. n : none[i] <= F[i] /\ none[i] = none[i] + none[i]
    BY <1>12
  <2> HIDE DEF none
  <2>2. SumOver(none) \in Int /\ SumOver(none) = SumOver(none) + SumOver(none)
    <3>1. n \in Nat /\ none \in [1 .. n -> Int] /\ \A i \in 1 .. n : none[i] = none[i] + none[i]
      BY <2>1
    <3> QED BY ONLY <3>1, SumAdds
  <2>3. SumOver(F) \in Int /\ SumOver(none) <= SumOver(F)
    <3>1. /\ n \in Nat /\ none \in [1 .. n -> Int] /\ F \in [1 .. n -> Int]
          /\ \A i \in 1 .. n : none[i] <= F[i]
      BY <1>12, <2>1
    <3> QED BY ONLY <3>1, SumMonotone
  <2>4. PICK x \in Int, y \in Int : x = SumOver(none) /\ y = SumOver(F)
    BY <2>2, <2>3
  <2>5. x = x + x /\ x <= y
    BY <2>2, <2>3, <2>4
  <2>6. y >= 0
    BY <2>5
  <2> QED BY <2>4, <2>6
<1>20. PICK c, x, f, p, s \in Int : /\ c = SumOver(C) /\ x = QuantizeCost(c) /\ x >= c
                                    /\ f = SumOver(F) /\ p = payout /\ s = reserves
  BY <1>5, <1>6, <1>18, <1>19, CostRoundsUp
<1>21. p - (x + f + s) > 0 /\ f >= 0 /\ s >= 0
  BY <1>6, <1>7, <1>15, <1>19, <1>20
<1>22. c < Dollar * q
  <2>1. PICK d \in Int : d = Dollar * q
    BY <1>4
  <2>2. p <= d
    BY <1>5, <1>20, <2>1
  <2>3. c < d
    BY <1>20, <1>21, <2>2
  <2> QED BY <2>1, <2>3
<1>23. PICK t \in Nat, k \in Nat : t = Total(w) /\ k = q /\ k # 0
  BY <1>4, <1>16
<1>24. k * t < Dollar * k
  <2>1. PICK y \in Int : y = SumOver(qb)
    BY <1>17
  <2>2. y = k * t /\ y <= c
    BY <1>17, <1>18, <1>20, <2>1, <1>23
  <2>3. c < Dollar * k
    BY <1>22, <1>23
  <2>4. PICK d \in Int : d = Dollar * k
    BY <1>4, <1>23
  <2>5. y < d
    BY <2>2, <2>3, <2>4
  <2> QED BY <2>2, <2>4, <2>5
<1>25. t < Dollar
  <2>1. SUFFICES ASSUME Dollar <= t PROVE FALSE
    BY <1>4
  <2>2. PICK d \in Nat : d = Dollar
    BY <1>4
  <2>3. PICK m \in Nat : t = d + m
    <3>1. t - d \in Nat /\ t = d + (t - d)
      BY <2>1, <2>2
    <3> QED BY <3>1
  <2>4. k * t = d * k + m * k /\ m * k \in Nat /\ d * k \in Nat
    BY <2>3
  <2> QED BY <1>24, <2>2, <2>4
<1> QED BY <1>10, <1>11, <1>16, <1>23, <1>25 DEF S, w

-----------------------------------------------------------------------------
(* What the scan prices: every row whose event has fresh offers for all of  *)
(* its legs.                                                                *)

\* The offers a row finds, each the last usable of its leg, and none of them too old.
IsOffer(R, P, ask, m) ==
  \A t \in DOMAIN ask : \E j :
    /\ Quotes(R, t, j, m)
    /\ ask[t] = BestYesAsk(R[j].book).ask
    /\ ~ R[m].captured - LastConfirmed(P, t, R[m].captured, R[j].captured) > MaxLegAge

\* Row m completes such offers for all the legs of its event.
IsPriceable(R, P, ask, m) ==
  /\ R[m].book.complete
  /\ ask \in [LegsOf(R, R[m].ticker) -> Nat] /\ ~ Cardinality(LegsOf(R, R[m].ticker)) < 2
  /\ IsOffer(R, P, ask, m)

IsPriced(R, p, ask, m) ==
  p.at = R[m].captured /\ p.ask = ask /\ p.cost = SumOf(ask, DOMAIN ask)

\* The legs quoted after k rows are those last seen to offer, and each is quoted as it was.
QuotesAre(R, latest, k) ==
  LatestIs(R, latest, k) /\ \A t, j : Quotes(R, t, j, k) => t \in DOMAIN latest

ScanTells(R, P, scan, k) ==
  /\ DOMAIN scan = ScanFields
  /\ QuotesAre(R, scan.latest, k)
  /\ \E X : scan.priced \in Seq(X)
  /\ \A m \in 1 .. k : \A ask : IsPriceable(R, P, ask, m) =>
       \E i \in DOMAIN scan.priced : IsPriced(R, scan.priced[i], ask, m)

\* Only one row is the last.
LEMMA OneQuote ==
  ASSUME NEW R, NEW k \in Nat, NEW t, NEW i, Quotes(R, t, i, k), NEW j, Quotes(R, t, j, k)
  PROVE  i = j
<1>1. i \in 1 .. k /\ j \in 1 .. k /\ i <= j /\ j <= i
  BY DEF Quotes
<1> QED BY <1>1

\* A row leaves the last of the other markets as they were.
LEMMA QuotesBefore ==
  ASSUME NEW R, NEW k \in Nat \ {0}, NEW t, NEW j, Quotes(R, t, j, k),
         R[k].ticker # t \/ ~ R[k].book.complete
  PROVE  Quotes(R, t, j, k - 1)
<1>1. j \in 1 .. k /\ R[j].ticker = t /\ R[j].book.complete /\ DOMAIN R[j].book.no # {}
  BY DEF Quotes
<1>2. j # k
  BY <1>1
<1>3. j \in 1 .. (k - 1)
  BY <1>1, <1>2
<1>4. \A i \in 1 .. (k - 1) : i \in 1 .. k
  OBVIOUS
<1> QED BY <1>1, <1>3, <1>4 DEF Quotes

\* A usable row is the last of its market.
LEMMA OwnQuote ==
  ASSUME NEW R, NEW k \in Nat \ {0}, NEW j, Quotes(R, R[k].ticker, j, k), R[k].book.complete
  PROVE  j = k
<1>1. k \in 1 .. k
  OBVIOUS
<1>2. j \in 1 .. k /\ k <= j
  BY <1>1 DEF Quotes
<1> QED BY <1>2

LEMMA QuotesKept ==
  ASSUME NEW R, NEW latest, NEW k \in Nat \ {0}, QuotesAre(R, latest, k - 1)
  PROVE  /\ ~ R[k].book.complete => QuotesAre(R, latest, k)
         /\ R[k].book.complete /\ DOMAIN R[k].book.no = {} =>
              QuotesAre(R, Dropped(latest, R[k].ticker), k)
         /\ R[k].book.complete /\ DOMAIN R[k].book.no # {} =>
              QuotesAre(R, Put(latest, R[k].ticker, QuoteOf(R[k])), k)
<1>1. LatestIs(R, latest, k - 1) /\ \A t, j : Quotes(R, t, j, k - 1) => t \in DOMAIN latest
  BY DEF QuotesAre
<1>2. PICK row : row = R[k]
  OBVIOUS
<1>3. CASE ~ row.book.complete
  <2>1. LatestIs(R, latest, k)
    BY <1>1, <1>2, <1>3, LatestKept
  <2>2. \A t, j : Quotes(R, t, j, k) => t \in DOMAIN latest
    BY <1>1, <1>2, <1>3, QuotesBefore
  <2> QED BY <1>2, <1>3, <2>1, <2>2 DEF QuotesAre
<1>4. CASE row.book.complete /\ DOMAIN row.book.no = {}
  <2>1. PICK dropped : dropped = Dropped(latest, row.ticker)
    OBVIOUS
  <2>2. LatestIs(R, dropped, k)
    BY <1>1, <1>2, <2>1, LatestKept
  <2>3. ASSUME NEW t, NEW j, Quotes(R, t, j, k) PROVE t \in DOMAIN dropped
    <3>1. CASE t = row.ticker
      <4>1. j = k
        BY <1>2, <1>4, <2>3, <3>1, OwnQuote
      <4> QED BY <1>2, <1>4, <2>3, <4>1 DEF Quotes
    <3>2. CASE t # row.ticker
      <4>1. Quotes(R, t, j, k - 1)
        BY <1>2, <2>3, <3>2, QuotesBefore
      <4> QED BY <1>1, <2>1, <3>2, <4>1 DEF Dropped
    <3> QED BY <3>1, <3>2
  <2>4. QuotesAre(R, dropped, k)
    BY <2>2, <2>3 DEF QuotesAre
  <2> QED BY <1>2, <1>4, <2>1, <2>4
<1>5. CASE row.book.complete /\ DOMAIN row.book.no # {}
  <2>1. PICK put : put = Put(latest, row.ticker, QuoteOf(row))
    OBVIOUS
  <2>2. LatestIs(R, put, k)
    BY <1>1, <1>2, <1>5, <2>1, LatestKept
  <2>3. ASSUME NEW t, NEW j, Quotes(R, t, j, k) PROVE t \in DOMAIN put
    <3>1. DOMAIN put = DOMAIN latest \cup {row.ticker}
      BY <2>1 DEF Put
    <3>2. CASE t = row.ticker
      BY <3>1, <3>2
    <3>3. CASE t # row.ticker
      <4>1. Quotes(R, t, j, k - 1)
        BY <1>2, <2>3, <3>3, QuotesBefore
      <4> QED BY <1>1, <3>1, <4>1
    <3> QED BY <3>2, <3>3
  <2>4. QuotesAre(R, put, k)
    BY <2>2, <2>3 DEF QuotesAre
  <2> QED BY <1>2, <1>5, <2>1, <2>4
<1> QED BY <1>2, <1>3, <1>4, <1>5

\* What one row, for which there are offers, makes of the scan.
Gains(R, before, after, ask, m) ==
  \E p : after = Append(before, p) /\ IsPriced(R, p, ask, m)

LEMMA PriceableIsPriced ==
  ASSUME NEW R, NEW P, NEW k \in DOMAIN R, k \in Nat \ {0},
         NEW scan, ScanTells(R, P, scan, k - 1),
         NEW next, next = ScanRow(R, P, MaxLegAge, scan, R[k]),
         NEW ask, IsPriceable(R, P, ask, k)
  PROVE  Gains(R, scan.priced, next.priced, ask, k)
<1>1. PICK row, wanted : row = R[k] /\ wanted = LegsOf(R, row.ticker)
  OBVIOUS
<1>2. /\ row.book.complete /\ ~ Cardinality(wanted) < 2
      /\ ask \in [wanted -> Nat] /\ IsOffer(R, P, ask, k)
  BY <1>1 DEF IsPriceable
<1>3. PICK latest : latest = Put(scan.latest, row.ticker, QuoteOf(row))
  OBVIOUS
<1>4. PICK kept : kept = [scan EXCEPT !.latest = latest]
  OBVIOUS
<1>5. DOMAIN scan = ScanFields /\ QuotesAre(R, scan.latest, k - 1)
  BY DEF ScanTells
<1>6. DOMAIN kept = ScanFields /\ kept.priced = scan.priced
  BY <1>4, <1>5 DEF ScanFields
<1>7. DOMAIN row.book.no # {}
  <2>1. row.ticker \in wanted
    BY <1>1 DEF LegsOf, LegsAmong
  <2>2. PICK j : Quotes(R, row.ticker, j, k)
    BY <1>2, <2>1 DEF IsOffer
  <2>3. j = k
    BY <1>1, <1>2, <2>2, OwnQuote
  <2> QED BY <1>1, <2>2, <2>3 DEF Quotes
<1>8. QuotesAre(R, latest, k)
  BY <1>1, <1>2, <1>3, <1>5, <1>7, QuotesKept
<1>9. ASSUME NEW t \in wanted
      PROVE  /\ t \in DOMAIN latest /\ latest[t].ask = ask[t]
             /\ ~ row.captured - LastConfirmed(P, t, row.captured, latest[t].at) > MaxLegAge
  <2>1. PICK j : /\ Quotes(R, t, j, k)
                 /\ ask[t] = BestYesAsk(R[j].book).ask
                 /\ ~ R[k].captured - LastConfirmed(P, t, R[k].captured, R[j].captured) > MaxLegAge
    BY <1>2 DEF IsOffer
  <2>2. t \in DOMAIN latest
    BY <1>8, <2>1 DEF QuotesAre
  <2>3. PICK i : Quotes(R, t, i, k) /\ latest[t] = QuoteOf(R[i])
    BY <1>8, <2>2 DEF QuotesAre, LatestIs
  <2>4. i = j
    BY <2>1, <2>3, OneQuote
  <2>5. latest[t].ask = BestYesAsk(R[j].book).ask /\ latest[t].at = R[j].captured
    BY <2>3, <2>4 DEF QuoteOf
  <2> QED BY <1>1, <2>1, <2>2, <2>5
<1>10. wanted \subseteq DOMAIN latest
  BY <1>9
<1>11. ~ Stale(P, latest, wanted, row.captured, MaxLegAge)
  BY <1>9 DEF Stale
<1>12. PICK p : p = PricingOf(row, latest, wanted)
  OBVIOUS
<1>13. next = Booked(kept, p)
  BY <1>1, <1>2, <1>3, <1>4, <1>7, <1>10, <1>11, <1>12 DEF ScanRow
<1>14. next.priced = Append(scan.priced, p)
  <2>1. next.priced = Append(kept.priced, p)
    BY <1>6, <1>13, BookedKeeps
  <2> QED BY <1>6, <2>1
<1>15. PICK offers : offers = [t \in wanted |-> latest[t].ask]
  OBVIOUS
<1>16. offers = ask
  BY <1>2, <1>9, <1>15
<1>17. p.at = row.captured /\ p.ask = offers /\ p.cost = SumOf(offers, wanted)
  BY <1>12, <1>15 DEF PricingOf
<1>18. DOMAIN ask = wanted
  BY <1>2
<1>19. IsPriced(R, p, ask, k)
  BY <1>1, <1>16, <1>17, <1>18 DEF IsPriced
<1> QED BY <1>14, <1>19 DEF Gains

\* At most one more.
Continues(before, after) == after = before \/ \E p : after = Append(before, p)

\* A row leaves the quotes what they should be, and forgets no pricing.
LEMMA ScanRowKeeps ==
  ASSUME NEW R, NEW P, NEW k \in Nat \ {0}, NEW scan, ScanTells(R, P, scan, k - 1),
         NEW next, next = ScanRow(R, P, MaxLegAge, scan, R[k])
  PROVE  /\ DOMAIN next = ScanFields /\ QuotesAre(R, next.latest, k)
         /\ Continues(scan.priced, next.priced)
<1>1. PICK row, wanted : row = R[k] /\ wanted = LegsOf(R, row.ticker)
  OBVIOUS
<1>2. PICK latest : latest = Put(scan.latest, row.ticker, QuoteOf(row))
  OBVIOUS
<1>3. PICK kept : kept = [scan EXCEPT !.latest = latest]
  OBVIOUS
<1>4. DOMAIN scan = ScanFields /\ QuotesAre(R, scan.latest, k - 1)
  BY DEF ScanTells
<1>5. DOMAIN kept = ScanFields /\ kept.priced = scan.priced /\ kept.latest = latest
  BY <1>3, <1>4 DEF ScanFields
<1>6. CASE ~ row.book.complete
  <2>1. next = scan
    BY <1>1, <1>6 DEF ScanRow
  <2> QED BY <1>1, <1>4, <1>6, <2>1, QuotesKept DEF Continues
<1>7. CASE row.book.complete /\ DOMAIN row.book.no = {}
  <2>1. PICK dropped : dropped = Dropped(scan.latest, row.ticker)
    OBVIOUS
  <2>2. next = [scan EXCEPT !.latest = dropped]
    BY <1>1, <1>7, <2>1 DEF ScanRow
  <2>3. DOMAIN next = ScanFields /\ next.latest = dropped /\ next.priced = scan.priced
    BY <1>4, <2>2 DEF ScanFields
  <2>4. QuotesAre(R, dropped, k)
    BY <1>1, <1>4, <1>7, <2>1, QuotesKept
  <2> QED BY <2>3, <2>4 DEF Continues
<1>8. CASE row.book.complete /\ DOMAIN row.book.no # {}
  <2>1. QuotesAre(R, latest, k)
    BY <1>1, <1>2, <1>4, <1>8, QuotesKept
  <2>2. PICK p : p = PricingOf(row, latest, wanted)
    OBVIOUS
  <2>3. \/ next = kept
        \/ next = [kept EXCEPT !.skippedIncomplete = @ + 1]
        \/ next = [kept EXCEPT !.skippedStale = @ + 1]
        \/ next = Booked(kept, p)
    BY <1>1, <1>2, <1>3, <1>8, <2>2 DEF ScanRow
  <2>4. CASE next = kept
    BY <1>5, <2>1, <2>4 DEF Continues
  <2>5. CASE next = [kept EXCEPT !.skippedIncomplete = @ + 1]
    <3>1. DOMAIN next = ScanFields /\ next.latest = latest /\ next.priced = scan.priced
      BY <1>5, <2>5 DEF ScanFields
    <3> QED BY <2>1, <3>1 DEF Continues
  <2>6. CASE next = [kept EXCEPT !.skippedStale = @ + 1]
    <3>1. DOMAIN next = ScanFields /\ next.latest = latest /\ next.priced = scan.priced
      BY <1>5, <2>6 DEF ScanFields
    <3> QED BY <2>1, <3>1 DEF Continues
  <2>7. CASE next = Booked(kept, p)
    <3>1. /\ DOMAIN next = ScanFields /\ next.latest = kept.latest
          /\ next.priced = Append(kept.priced, p)
      BY <1>5, <2>7, BookedKeeps
    <3> QED BY <1>5, <2>1, <3>1 DEF Continues
  <2> QED BY <2>3, <2>4, <2>5, <2>6, <2>7
<1> QED BY <1>6, <1>7, <1>8

LEMMA ScanTellsStep ==
  ASSUME NEW R, NEW P, NEW k \in DOMAIN R, k \in Nat \ {0},
         NEW scan, ScanTells(R, P, scan, k - 1),
         NEW next, next = ScanRow(R, P, MaxLegAge, scan, R[k])
  PROVE  ScanTells(R, P, next, k)
<1>1. PICK before, after : before = scan.priced /\ after = next.priced
  OBVIOUS
<1>2. /\ DOMAIN next = ScanFields /\ QuotesAre(R, next.latest, k)
      /\ after = before \/ \E p : after = Append(before, p)
  <2>1. /\ DOMAIN next = ScanFields /\ QuotesAre(R, next.latest, k)
        /\ Continues(scan.priced, next.priced)
    <3>1. /\ k \in Nat \ {0} /\ ScanTells(R, P, scan, k - 1)
          /\ next = ScanRow(R, P, MaxLegAge, scan, R[k])
      OBVIOUS
    <3> QED BY ONLY <3>1, ScanRowKeeps
  <2> QED BY <1>1, <2>1 DEF Continues
<1>3. PICK X : before \in Seq(X)
  BY <1>1 DEF ScanTells
<1>4. /\ \E Y : after \in Seq(Y)
      /\ \A i \in DOMAIN before : i \in DOMAIN after /\ after[i] = before[i]
  <2>1. CASE after = before
    BY <1>3, <2>1
  <2>2. CASE \E p : after = Append(before, p)
    <3>1. PICK p : after = Append(before, p)
      BY <2>2
    <3>2. /\ Append(before, p) \in Seq(X \cup {p})
          /\ \A i \in DOMAIN before : /\ i \in DOMAIN Append(before, p)
                                      /\ Append(before, p)[i] = before[i]
      BY <1>3, AppendAny
    <3> QED BY <3>1, <3>2
  <2> QED BY <1>2, <2>1, <2>2
<1>5. ASSUME NEW m \in 1 .. k, NEW ask, IsPriceable(R, P, ask, m)
      PROVE  \E i \in DOMAIN after : IsPriced(R, after[i], ask, m)
  <2>1. CASE m = k
    <3>1. PICK p : after = Append(before, p) /\ IsPriced(R, p, ask, k)
      <4>1. IsPriceable(R, P, ask, k)
        BY <1>5, <2>1
      <4>2. Gains(R, scan.priced, next.priced, ask, k)
        <5>1. /\ k \in DOMAIN R /\ k \in Nat \ {0} /\ ScanTells(R, P, scan, k - 1)
              /\ next = ScanRow(R, P, MaxLegAge, scan, R[k])
          OBVIOUS
        <5> QED BY ONLY <4>1, <5>1, PriceableIsPriced
      <4> QED BY <1>1, <4>2 DEF Gains
    <3>2. Len(before) + 1 \in DOMAIN after /\ after[Len(before) + 1] = p
      <4>1. /\ DOMAIN Append(before, p) = 1 .. Len(before) + 1 /\ Len(before) \in Nat
            /\ Append(before, p)[Len(before) + 1] = p
        BY <1>3, AppendAny
      <4> QED BY <3>1, <4>1
    <3> QED BY <2>1, <3>1, <3>2
  <2>2. CASE m # k
    <3>1. m \in 1 .. (k - 1)
      BY <2>2
    <3>2. PICK i \in DOMAIN before : IsPriced(R, before[i], ask, m)
      BY <1>1, <1>5, <3>1 DEF ScanTells
    <3> QED BY <1>4, <3>2
  <2> QED BY <2>1, <2>2
<1> QED BY <1>1, <1>2, <1>4, <1>5 DEF ScanTells

LEMMA ScanTellsHolds ==
  ASSUME NEW R, NEW P, Len(R) \in Nat, DOMAIN R = 1 .. Len(R)
  PROVE  ScanTells(R, P, BasketScan(R, P, MaxLegAge), Len(R))
<1>1. PICK run : IsReading("baskets", R, P, run) /\ Folded("baskets", R, P) = run[Len(R)]
  BY ReadingExists
<1>2. BasketScan(R, P, MaxLegAge) = Folded("baskets", R, P)
  BY DEF BasketScan, Folded, Base, Step
<1> DEFINE Good == {i \in 0 .. Len(R) : ScanTells(R, P, run[i], i)}
<1>3. 0 \in Good
  <2>1. run[0] = NothingScanned
    BY <1>1 DEF IsReading, Base
  <2>2. ScanTells(R, P, NothingScanned, 0)
    <3>1. /\ DOMAIN NothingScanned = ScanFields /\ NothingScanned.priced = <<>>
          /\ NothingScanned.latest = Nobody
      BY DEF NothingScanned, ScanFields
    <3>2. QuotesAre(R, Nobody, 0)
      BY DEF QuotesAre, Quotes, LatestIs, Nobody
    <3>3. <<>> \in Seq({}) /\ 1 .. 0 = {}
      OBVIOUS
    <3> QED BY <3>1, <3>2, <3>3 DEF ScanTells
  <2> QED BY <2>1, <2>2
<1>4. ASSUME NEW i \in 1 .. Len(R), i - 1 \in Good PROVE i \in Good
  <2>1. run[i] = ScanRow(R, P, MaxLegAge, run[i - 1], R[i])
    BY <1>1 DEF IsReading, Step
  <2>2. ScanTells(R, P, run[i - 1], i - 1) /\ i \in Nat \ {0} /\ i \in 0 .. Len(R) /\ i \in DOMAIN R
    BY <1>4
  <2>3. ScanTells(R, P, run[i], i)
    BY <2>1, <2>2, ScanTellsStep
  <2> QED BY <2>2, <2>3
<1>5. Good \in SUBSET (0 .. Len(R))
  OBVIOUS
<1> HIDE DEF Good
<1>6. Good = 0 .. Len(R)
  BY <1>3, <1>4, <1>5, ReadingKeeps
<1>7. Len(R) \in Good
  BY <1>6
<1>8. ScanTells(R, P, run[Len(R)], Len(R))
  BY <1>7 DEF Good
<1> QED BY <1>1, <1>2, <1>8

-----------------------------------------------------------------------------
(* What the funnel accepts.                                                 *)

\* Of the first k rows, j is the last usable one of its market.
IsUsed(R, t, j, k) ==
  /\ j \in 1 .. k /\ R[j].ticker = t /\ R[j].book.complete
  /\ \A i \in 1 .. k : R[i].ticker = t /\ R[i].book.complete => i <= j

BooksAre(R, latest, k) ==
  \A t \in DOMAIN latest : \E j : /\ IsUsed(R, t, j, k)
                                  /\ latest[t] = [book |-> R[j].book, at |-> R[j].captured]

FunnelFields ==
  {"latest", "accepted", "rejected", "completed", "exposed", "gross", "realized", "unwound"}

\* A candidate accepted at a row takes the offers the row completes, together below a dollar.
IsTaken(R, P, a, k) ==
  \E m \in 1 .. k : \E ask :
    /\ IsPriceable(R, P, ask, m) /\ Total(ask) < Dollar
    /\ a.at = R[m].captured /\ a.legs = LegsOf(R, R[m].ticker)

FunnelIs(R, P, slice, k) ==
  /\ DOMAIN slice = FunnelFields
  /\ BooksAre(R, slice.latest, k)
  /\ \E X : slice.accepted \in Seq(X)
  /\ \A i \in DOMAIN slice.accepted : IsTaken(R, P, slice.accepted[i], k)

LEMMA BooksKept ==
  ASSUME NEW R, NEW latest, NEW k \in Nat \ {0}, BooksAre(R, latest, k - 1)
  PROVE  /\ ~ R[k].book.complete => BooksAre(R, latest, k)
         /\ R[k].book.complete =>
              BooksAre(R, Put(latest, R[k].ticker, [book |-> R[k].book, at |-> R[k].captured]), k)
<1>1. ASSUME NEW t, NEW j, IsUsed(R, t, j, k - 1), R[k].ticker # t \/ ~ R[k].book.complete
      PROVE  IsUsed(R, t, j, k)
  <2>1. \A i \in 1 .. k : i = k \/ i \in 1 .. (k - 1)
    OBVIOUS
  <2>2. j \in 1 .. k
    BY <1>1 DEF IsUsed
  <2>3. ASSUME NEW i \in 1 .. k, R[i].ticker = t, R[i].book.complete PROVE i <= j
    <3>1. i # k
      BY <1>1, <2>3
    <3> QED BY <1>1, <2>1, <2>3, <3>1 DEF IsUsed
  <2> QED BY <1>1, <2>2, <2>3 DEF IsUsed
<1>2. ~ R[k].book.complete => BooksAre(R, latest, k)
  BY <1>1 DEF BooksAre
<1>3. ASSUME R[k].book.complete
      PROVE  BooksAre(R, Put(latest, R[k].ticker, [book |-> R[k].book, at |-> R[k].captured]), k)
  <2>1. IsUsed(R, R[k].ticker, k, k)
    BY <1>3 DEF IsUsed
  <2>2. PICK entry : entry = [book |-> R[k].book, at |-> R[k].captured]
    OBVIOUS
  <2>3. PICK put : put = Put(latest, R[k].ticker, entry)
    OBVIOUS
  <2>4. /\ DOMAIN put = DOMAIN latest \cup {R[k].ticker} /\ put[R[k].ticker] = entry
        /\ \A t \in DOMAIN latest : t # R[k].ticker => put[t] = latest[t]
    BY <2>3 DEF Put
  <2>5. ASSUME NEW t \in DOMAIN put
        PROVE  \E j : IsUsed(R, t, j, k) /\ put[t] = [book |-> R[j].book, at |-> R[j].captured]
    <3>1. CASE t = R[k].ticker
      BY <2>1, <2>2, <2>4, <3>1
    <3>2. CASE t # R[k].ticker
      <4>1. t \in DOMAIN latest /\ put[t] = latest[t]
        BY <2>4, <3>2
      <4>2. PICK j : /\ IsUsed(R, t, j, k - 1)
                     /\ latest[t] = [book |-> R[j].book, at |-> R[j].captured]
        BY <4>1 DEF BooksAre
      <4> QED BY <1>1, <3>2, <4>1, <4>2
    <3> QED BY <3>1, <3>2
  <2> QED BY <2>2, <2>3, <2>5 DEF BooksAre
<1> QED BY <1>2, <1>3

\* What is asked of a basket at a row.
AskedAt(P, latest, wanted, at) == FunnelRequest(Settings, latest, wanted, P, at)

Accepts(R, P, slice, row, next) ==
  LET latest == Put(slice.latest, row.ticker, [book |-> row.book, at |-> row.captured])
      wanted == LegsOf(R, row.ticker)
  IN  /\ row.book.complete /\ ~ Cardinality(wanted) < 2 /\ wanted \subseteq DOMAIN latest
      /\ EvaluateBasket(AskedAt(P, latest, wanted, row.captured)).accepted
      /\ next.accepted = Append(slice.accepted, [at |-> row.captured, legs |-> wanted])

LEMMA TalliedIs ==
  ASSUME NEW slice, DOMAIN slice = FunnelFields, NEW outcome, NEW wanted, NEW drawn, NEW quantity,
         NEW next, next = Weighed(slice, outcome, wanted, drawn, quantity)
  PROVE  /\ DOMAIN next = FunnelFields /\ next.latest = slice.latest
         /\ outcome.accepted => next.accepted = Append(slice.accepted, wanted)
         /\ ~ outcome.accepted => next.accepted = slice.accepted
<1>1. CASE ~ outcome.accepted
  <2>1. next = [slice EXCEPT !.rejected = Append(@, outcome.reason)]
    BY <1>1 DEF Weighed
  <2> QED BY <1>1, <2>1 DEF FunnelFields
<1>2. CASE outcome.accepted
  <2>1. PICK with : with = [slice EXCEPT !.accepted = Append(@, wanted)]
    OBVIOUS
  <2>2. /\ DOMAIN with = FunnelFields /\ with.latest = slice.latest
        /\ with.accepted = Append(slice.accepted, wanted)
    BY <2>1 DEF FunnelFields
  <2>3. next = Tallied(with, outcome, drawn, quantity)
    BY <1>2, <2>1 DEF Weighed
  <2>4. PICK tried : tried = [with EXCEPT !.gross = @ + NetEdge(outcome)]
    OBVIOUS
  <2>5. DOMAIN tried = FunnelFields /\ tried.latest = with.latest /\ tried.accepted = with.accepted
    BY <2>2, <2>4 DEF FunnelFields
  <2>6. PICK cost : cost = SumOver([k \in DOMAIN drawn |-> drawn[k].cost])
    OBVIOUS
  <2> DEFINE done == [tried EXCEPT !.completed = @ + 1,
                        !.realized = @ + Dollar * quantity - cost - outcome.fees]
             short(x) == [tried EXCEPT !.exposed = @ + x, !.unwound = @ + UnwindLoss(cost),
                            !.realized = @ - UnwindLoss(cost)]
  <2>7. next = done \/ \E x : next = short(x)
    BY <2>3, <2>4, <2>6 DEF Tallied
  <2>8. DOMAIN done = FunnelFields /\ done.latest = tried.latest /\ done.accepted = tried.accepted
    BY <2>5 DEF FunnelFields
  <2>9. \A x : /\ DOMAIN short(x) = FunnelFields /\ short(x).latest = tried.latest
               /\ short(x).accepted = tried.accepted
    BY <2>5 DEF FunnelFields
  <2> HIDE DEF done, short
  <2> QED BY <1>2, <2>2, <2>5, <2>7, <2>8, <2>9
<1> QED BY <1>1, <1>2

LEMMA FunnelRowIs ==
  ASSUME NEW R, NEW P, NEW row, NEW slice, DOMAIN slice = FunnelFields,
         NEW next, next = FunnelRow(R, P, Settings, slice, row)
  PROVE  /\ DOMAIN next = FunnelFields
         /\ next.latest = IF row.book.complete
                          THEN Put(slice.latest, row.ticker, [book |-> row.book, at |-> row.captured])
                          ELSE slice.latest
         /\ next.accepted = slice.accepted \/ Accepts(R, P, slice, row, next)
<1>1. PICK latest :
        latest = Put(slice.latest, row.ticker, [book |-> row.book, at |-> row.captured])
  OBVIOUS
<1>2. PICK wanted : wanted = LegsOf(R, row.ticker)
  OBVIOUS
<1>3. PICK kept : kept = [slice EXCEPT !.latest = latest]
  OBVIOUS
<1>4. DOMAIN kept = FunnelFields /\ kept.latest = latest /\ kept.accepted = slice.accepted
  BY <1>3 DEF FunnelFields
<1>5. PICK outcome : outcome = EvaluateBasket(AskedAt(P, latest, wanted, row.captured))
  OBVIOUS
<1>6. PICK candidate : candidate = [at |-> row.captured, legs |-> wanted]
  OBVIOUS
<1>7. CASE ~ row.book.complete
  BY <1>7 DEF FunnelRow
<1>8. CASE row.book.complete /\ (Cardinality(wanted) < 2 \/ ~ wanted \subseteq DOMAIN latest)
  <2>1. next = kept
    BY <1>1, <1>2, <1>3, <1>8 DEF FunnelRow
  <2> QED BY <1>1, <1>4, <1>8, <2>1
<1>9. CASE row.book.complete /\ ~ Cardinality(wanted) < 2 /\ wanted \subseteq DOMAIN latest
  <2>1. \E drawn, quantity : next = Weighed(kept, outcome, candidate, drawn, quantity)
    <3>1. Settings.research = TRUE
      BY DEF Settings
    <3> QED BY <1>1, <1>2, <1>3, <1>5, <1>6, <1>9, <3>1 DEF FunnelRow, AskedAt
  <2>2. PICK drawn, quantity : next = Weighed(kept, outcome, candidate, drawn, quantity)
    BY <2>1
  <2>3. /\ DOMAIN next = FunnelFields /\ next.latest = kept.latest
        /\ outcome.accepted => next.accepted = Append(kept.accepted, candidate)
        /\ ~ outcome.accepted => next.accepted = kept.accepted
    BY <1>4, <2>2, TalliedIs
  <2>4. CASE outcome.accepted
    <3>1. Accepts(R, P, slice, row, next)
      BY <1>1, <1>2, <1>4, <1>5, <1>6, <1>9, <2>3, <2>4 DEF Accepts
    <3> QED BY <1>1, <1>4, <1>9, <2>3, <3>1
  <2>5. CASE ~ outcome.accepted
    BY <1>1, <1>4, <1>9, <2>3, <2>5
  <2> QED BY <2>4, <2>5
<1> QED BY <1>7, <1>8, <1>9

\* Of each leg a request has the book that was last usable, and how old it is.
AsksAt(R, P, r, wanted, k) ==
  /\ DOMAIN r.books = wanted /\ r.maxAge = MaxLegAge
  /\ \A t \in wanted : \E j :
       /\ IsUsed(R, t, j, k) /\ R[j].book \in Shown /\ r.books[t] = R[j].book
       /\ r.ages[t] = R[k].captured - LastConfirmed(P, t, R[k].captured, R[j].captured)

\* What is asked is a basket of YES on the legs, at books that were shown.
LEMMA AskedIsBasket ==
  ASSUME NEW R \in Seq(Row), NEW P, NEW k \in DOMAIN R, NEW latest, BooksAre(R, latest, k),
         NEW wanted, wanted = LegsOf(R, R[k].ticker), wanted \subseteq DOMAIN latest,
         NEW r, r = AskedAt(P, latest, wanted, R[k].captured)
  PROVE  (\E n \in Nat : IsBasket(r, InOrder(LegOrder, wanted), n)) /\ AsksAt(R, P, r, wanted, k)
<1>1. IsFiniteSet(wanted) /\ wanted \subseteq Ticker
  BY LegsFinite
<1>2. PICK o : o = InOrder(LegOrder, wanted)
  OBVIOUS
<1>3. PICK n \in Nat : Enumerates(o, n, wanted)
  BY <1>1, <1>2, InOrderIs
<1>4. PICK asked, given, ages :
        /\ asked = [i \in 1 .. n |-> [ticker |-> o[i], side |-> "yes"]]
        /\ given = [t \in wanted |-> latest[t].book]
        /\ ages = [t \in wanted |-> R[k].captured
                                      - LastConfirmed(P, t, R[k].captured, latest[t].at)]
  OBVIOUS
<1>5. /\ r.legs = asked /\ r.books = given /\ r.ages = ages /\ r.quantity = Quantity
      /\ r.reserve = 0 /\ r.minEdge = 0 /\ r.maxAge = MaxLegAge
  <2>1. DOMAIN o = 1 .. n
    BY <1>3 DEF Enumerates
  <2>2. Settings.legOrder = LegOrder /\ Settings.quantity = Quantity /\ Settings.threshold = MaxLegAge
    BY DEF Settings
  <2>3. r = [legs |-> asked, books |-> given, ages |-> ages, quantity |-> Quantity,
             reserve |-> 0, minEdge |-> 0, maxAge |-> MaxLegAge,
             verifiedFees |-> ~ Settings.research]
    BY <1>2, <1>4, <2>1, <2>2 DEF AskedAt, FunnelRequest
  <2> QED BY <2>3
<1>6. ASSUME NEW t \in wanted
      PROVE  \E j : /\ IsUsed(R, t, j, k) /\ R[j].book \in Shown /\ given[t] = R[j].book
                    /\ ages[t] = R[k].captured - LastConfirmed(P, t, R[k].captured, R[j].captured)
  <2>1. PICK j : IsUsed(R, t, j, k) /\ latest[t] = [book |-> R[j].book, at |-> R[j].captured]
    BY <1>6 DEF BooksAre
  <2>2. j \in DOMAIN R
    <3>1. j \in 1 .. k /\ DOMAIN R = 1 .. Len(R) /\ Len(R) \in Nat
      BY <2>1 DEF IsUsed
    <3> QED BY <3>1
  <2>3. R[j] \in Row
    BY <2>2
  <2>4. R[j].book \in Shown
    BY <2>3 DEF Row
  <2>5. latest[t].book = R[j].book /\ latest[t].at = R[j].captured
    BY <2>1
  <2>6. /\ given[t] = latest[t].book
        /\ ages[t] = R[k].captured - LastConfirmed(P, t, R[k].captured, latest[t].at)
    BY <1>4
  <2> QED BY <2>1, <2>4, <2>5, <2>6
<1>7. IsRequest(r)
  <2>1. DOMAIN asked = 1 .. n /\ Len(asked) = n
    BY <1>4
  <2>2. ASSUME NEW t \in DOMAIN given PROVE IsBook(given[t])
    <3>1. PICK book \in Shown : given[t] = book
      BY <1>4, <1>6, <2>2
    <3>2. IsBids(book.yes) /\ IsBids(book.no)
      BY ShownIs
    <3>3. IsBook(book)
      BY <3>2 DEF IsBook
    <3> QED BY <3>1, <3>3
  <2>3. Quantity \in Nat
    BY ArchiveConstants
  <2> QED BY <1>5, <2>1, <2>2, <2>3 DEF IsRequest
<1>8. IsBasket(r, o, n)
  <2>1. DOMAIN given = wanted
    BY <1>4
  <2> QED BY <1>1, <1>3, <1>4, <1>5, <1>7, <2>1 DEF IsBasket
<1>9. DOMAIN r.books = wanted
  BY <1>4, <1>5
<1>10. \A t \in wanted : \E j :
         /\ IsUsed(R, t, j, k) /\ R[j].book \in Shown /\ r.books[t] = R[j].book
         /\ r.ages[t] = R[k].captured - LastConfirmed(P, t, R[k].captured, R[j].captured)
  BY <1>5, <1>6
<1> QED BY <1>2, <1>5, <1>8, <1>9, <1>10 DEF AsksAt

\* What is accepted is taken at offers that are together below a dollar.
LEMMA AcceptedIsTaken ==
  ASSUME NEW R \in Seq(Row), NEW P, NEW k \in DOMAIN R, NEW latest, BooksAre(R, latest, k),
         NEW wanted, wanted = LegsOf(R, R[k].ticker), wanted \subseteq DOMAIN latest,
         R[k].book.complete, ~ Cardinality(wanted) < 2,
         EvaluateBasket(AskedAt(P, latest, wanted, R[k].captured)).accepted
  PROVE  \E ask : IsPriceable(R, P, ask, k) /\ Total(ask) < Dollar
<1>1. PICK r : r = AskedAt(P, latest, wanted, R[k].captured)
  OBVIOUS
<1>2. (\E n \in Nat : IsBasket(r, InOrder(LegOrder, wanted), n)) /\ AsksAt(R, P, r, wanted, k)
  BY <1>1, AskedIsBasket
<1>3. PICK n \in Nat : IsBasket(r, InOrder(LegOrder, wanted), n)
  BY <1>2
<1>4. EvaluateBasket(r).accepted
  BY <1>1
<1>5. PICK ask : ask = BestOffer(r.books)
  OBVIOUS
<1>6. /\ \A t \in wanted : ~ r.ages[t] > MaxLegAge /\ DOMAIN r.books[t].no # {}
      /\ ask \in [wanted -> Nat] /\ Total(ask) < Dollar
  <2>1. /\ \A t \in DOMAIN r.books : ~ r.ages[t] > r.maxAge /\ DOMAIN r.books[t].no # {}
        /\ BestOffer(r.books) \in [DOMAIN r.books -> Nat]
        /\ Total(BestOffer(r.books)) < Dollar
    BY <1>3, <1>4, AcceptedBasket
  <2> QED BY <1>2, <1>5, <2>1 DEF AsksAt
<1>7. ASSUME NEW t \in wanted
      PROVE  \E j : /\ Quotes(R, t, j, k)
                    /\ ask[t] = BestYesAsk(R[j].book).ask
                    /\ ~ R[k].captured - LastConfirmed(P, t, R[k].captured, R[j].captured) > MaxLegAge
  <2>1. PICK j : /\ IsUsed(R, t, j, k) /\ R[j].book \in Shown /\ r.books[t] = R[j].book
                 /\ r.ages[t] = R[k].captured - LastConfirmed(P, t, R[k].captured, R[j].captured)
    BY <1>2, <1>7 DEF AsksAt
  <2>2. PICK book : book = R[j].book
    OBVIOUS
  <2>3. DOMAIN book.no # {}
    BY <1>6, <2>1, <2>2
  <2>4. ask[t] = Dollar - BestPrice(r.books[t].no)
    BY <1>2, <1>5 DEF AsksAt, BestOffer
  <2>5. BestPrice(book.no) = Max(DOMAIN book.no)
    BY <2>3 DEF BestPrice
  <2>6. ask[t] = BestYesAsk(book).ask
    BY <2>1, <2>2, <2>4, <2>5 DEF BestYesAsk
  <2>7. Quotes(R, t, j, k)
    BY <2>1, <2>2, <2>3 DEF Quotes, IsUsed
  <2> QED BY <1>6, <2>1, <2>2, <2>6, <2>7
<1>8. IsOffer(R, P, ask, k)
  <2>1. DOMAIN ask = wanted
    BY <1>6
  <2> QED BY <1>7, <2>1 DEF IsOffer
<1>9. IsPriceable(R, P, ask, k)
  BY <1>6, <1>8 DEF IsPriceable
<1> QED BY <1>6, <1>9

LEMMA FunnelStep ==
  ASSUME NEW R \in Seq(Row), NEW P, NEW k \in DOMAIN R, NEW slice, FunnelIs(R, P, slice, k - 1),
         NEW next, next = FunnelRow(R, P, Settings, slice, R[k])
  PROVE  FunnelIs(R, P, next, k)
<1>1. PICK row, before, after : row = R[k] /\ before = slice.accepted /\ after = next.accepted
  OBVIOUS
<1>2. k \in Nat \ {0} /\ k \in 1 .. k
  OBVIOUS
<1>3. DOMAIN slice = FunnelFields /\ BooksAre(R, slice.latest, k - 1)
  BY DEF FunnelIs
<1>4. PICK latest :
        latest = Put(slice.latest, row.ticker, [book |-> row.book, at |-> row.captured])
  OBVIOUS
<1>5. /\ DOMAIN next = FunnelFields
      /\ next.latest = (IF row.book.complete THEN latest ELSE slice.latest)
      /\ next.accepted = slice.accepted \/ Accepts(R, P, slice, row, next)
  BY <1>1, <1>3, <1>4, FunnelRowIs
<1>6. /\ row.book.complete => BooksAre(R, latest, k)
      /\ ~ row.book.complete => BooksAre(R, slice.latest, k)
  BY <1>1, <1>2, <1>3, <1>4, BooksKept
<1>7. BooksAre(R, next.latest, k)
  BY <1>5, <1>6
<1>8. \A i \in DOMAIN before : IsTaken(R, P, before[i], k)
  <2>1. \A m \in 1 .. (k - 1) : m \in 1 .. k
    BY <1>2
  <2>2. \A a : IsTaken(R, P, a, k - 1) => IsTaken(R, P, a, k)
    BY <2>1 DEF IsTaken
  <2> QED BY <1>1, <2>2 DEF FunnelIs
<1>9. PICK X : before \in Seq(X)
  BY <1>1 DEF FunnelIs
<1>10. CASE after = before
  BY <1>1, <1>5, <1>7, <1>8, <1>9, <1>10 DEF FunnelIs
<1>11. CASE Accepts(R, P, slice, row, next)
  <2>1. PICK wanted : wanted = LegsOf(R, row.ticker)
    OBVIOUS
  <2>2. PICK a : a = [at |-> row.captured, legs |-> wanted]
    OBVIOUS
  <2>3. /\ row.book.complete /\ ~ Cardinality(wanted) < 2 /\ wanted \subseteq DOMAIN latest
        /\ EvaluateBasket(AskedAt(P, latest, wanted, row.captured)).accepted
        /\ after = Append(before, a)
    BY <1>1, <1>4, <1>11, <2>1, <2>2 DEF Accepts
  <2>4. \E ask : IsPriceable(R, P, ask, k) /\ Total(ask) < Dollar
    <3>1. BooksAre(R, latest, k)
      BY <1>6, <2>3
    <3>2. wanted = LegsOf(R, R[k].ticker) /\ R[k].book.complete
          /\ EvaluateBasket(AskedAt(P, latest, wanted, R[k].captured)).accepted
      BY <1>1, <2>1, <2>3
    <3> QED BY <2>3, <3>1, <3>2, AcceptedIsTaken
  <2>5. IsTaken(R, P, a, k)
    BY <1>1, <1>2, <2>1, <2>2, <2>4 DEF IsTaken
  <2>6. /\ after \in Seq(X \cup {a})
        /\ \A i \in DOMAIN before : after[i] = before[i]
        /\ after[Len(before) + 1] = a
        /\ \A i \in DOMAIN after : i \in DOMAIN before \/ i = Len(before) + 1
    BY <1>9, <2>3, AppendAny
  <2>7. \A i \in DOMAIN after : IsTaken(R, P, after[i], k)
    BY <1>8, <2>5, <2>6
  <2> QED BY <1>1, <1>5, <1>7, <2>6, <2>7 DEF FunnelIs
<1> QED BY <1>1, <1>5, <1>10, <1>11

LEMMA FunnelHolds ==
  ASSUME NEW R \in Seq(Row), NEW P PROVE FunnelIs(R, P, Falsify(R, P, Settings), Len(R))
<1>1. Len(R) \in Nat /\ DOMAIN R = 1 .. Len(R)
  OBVIOUS
<1>2. PICK run : IsReading("funnel", R, P, run) /\ Folded("funnel", R, P) = run[Len(R)]
  BY <1>1, ReadingExists
<1>3. Falsify(R, P, Settings) = Folded("funnel", R, P)
  BY DEF Falsify, Folded, Base, Step
<1> DEFINE Good == {i \in 0 .. Len(R) : FunnelIs(R, P, run[i], i)}
<1>4. 0 \in Good
  <2>1. run[0] = NothingTried
    BY <1>2 DEF IsReading, Base
  <2>2. FunnelIs(R, P, NothingTried, 0)
    <3>1. /\ DOMAIN NothingTried = FunnelFields /\ NothingTried.accepted = <<>>
          /\ NothingTried.latest = Nobody
      BY DEF NothingTried, FunnelFields
    <3>2. BooksAre(R, Nobody, 0)
      BY DEF BooksAre, Nobody
    <3>3. <<>> \in Seq({}) /\ DOMAIN <<>> = {}
      OBVIOUS
    <3> QED BY <3>1, <3>2, <3>3 DEF FunnelIs
  <2> QED BY <1>1, <2>1, <2>2
<1>5. ASSUME NEW i \in 1 .. Len(R), i - 1 \in Good PROVE i \in Good
  <2>1. run[i] = FunnelRow(R, P, Settings, run[i - 1], R[i])
    BY <1>2 DEF IsReading, Step
  <2>2. FunnelIs(R, P, run[i - 1], i - 1) /\ i \in 0 .. Len(R) /\ i \in DOMAIN R
    BY <1>1, <1>5
  <2>3. FunnelIs(R, P, run[i], i)
    BY <2>1, <2>2, FunnelStep
  <2> QED BY <2>2, <2>3
<1>6. Good \in SUBSET (0 .. Len(R))
  OBVIOUS
<1> HIDE DEF Good
<1>7. Good = 0 .. Len(R)
  BY <1>1, <1>4, <1>5, <1>6, ReadingKeeps
<1>8. Len(R) \in Good
  BY <1>1, <1>7
<1>9. FunnelIs(R, P, run[Len(R)], Len(R))
  BY <1>8 DEF Good
<1> QED BY <1>2, <1>3, <1>9

\* A basket the funnel accepts (analysis/falsification.py), walking the books for a quantity
\* and adding fees, is one the scan (analysis/baskets.py) priced below a dollar from its
\* best quotes, at the same row: FunnelWithinScan.
THEOREM FunnelAgrees == ArchiveSpec => []FunnelWithinScan
<1>1. ASSUME HistoryInv PROVE FunnelWithinScan
  <2>1. PICK R \in Seq(Row) : R = Rows
    BY <1>1, RowsAre DEF HistoryInv, Tells
  <2>2. PICK accepted, priced : /\ accepted = Falsify(R, polls, Settings).accepted
                                /\ priced = BasketScan(R, polls, MaxLegAge).priced
    OBVIOUS
  <2>3. R \in Seq(Row) /\ DOMAIN R = 1 .. Len(R) /\ Len(R) \in Nat
    BY <2>1
  <2>4. FunnelIs(R, polls, Falsify(R, polls, Settings), Len(R))
    BY <2>3, FunnelHolds
  <2>5. ScanTells(R, polls, BasketScan(R, polls, MaxLegAge), Len(R))
    BY <2>3, ScanTellsHolds
  <2>6. ASSUME NEW a \in ToSet(accepted)
        PROVE  \E p \in ToSet(priced) : p.at = a.at /\ DOMAIN p.ask = a.legs /\ Cheap(p)
    <3>1. PICK x \in DOMAIN accepted : a = accepted[x]
      BY DEF ToSet
    <3>2. IsTaken(R, polls, a, Len(R))
      BY <2>2, <2>4, <3>1 DEF FunnelIs
    <3>3. PICK m \in DOMAIN R : \E ask :
            /\ IsPriceable(R, polls, ask, m) /\ Total(ask) < Dollar
            /\ a.at = R[m].captured /\ a.legs = LegsOf(R, R[m].ticker)
      BY <2>3, <3>2 DEF IsTaken
    <3>4. PICK ask :
            /\ IsPriceable(R, polls, ask, m) /\ Total(ask) < Dollar
            /\ a.at = R[m].captured /\ a.legs = LegsOf(R, R[m].ticker)
      BY <3>3
    <3>5. PICK i \in DOMAIN priced : IsPriced(R, priced[i], ask, m)
      BY <2>2, <2>3, <2>5, <3>4 DEF ScanTells
    <3>6. PICK p : p = priced[i] /\ p \in ToSet(priced)
      BY DEF ToSet
    <3>7. p.at = R[m].captured /\ p.ask = ask /\ p.cost = SumOf(ask, DOMAIN ask)
      BY <3>5, <3>6 DEF IsPriced
    <3>8. DOMAIN ask = a.legs /\ ask \in [a.legs -> Nat]
      BY <3>4 DEF IsPriceable
    <3>9. SumOf(ask, a.legs) = Total(ask)
      <4>1. IsFiniteSet(a.legs)
        BY <2>3, <3>4, LegsFinite
      <4> QED BY <3>8, <4>1, SumOfIs
    <3>10. Cheap(p)
      BY <3>4, <3>7, <3>8, <3>9 DEF Cheap
    <3> QED BY <3>4, <3>6, <3>7, <3>8, <3>10
  <2> QED BY <2>1, <2>2, <2>6 DEF FunnelWithinScan
<1> QED BY <1>1, HistoryHolds, PTL
=============================================================================
