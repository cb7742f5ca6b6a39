--------------------------- MODULE PricingProofs ---------------------------
(***************************************************************************)
(* Why nobody who buys what the detector accepts can lose at settlement:   *)
(* the buckets that pass the coverage check leave nothing out but what     *)
(* lies between one and the next, no whole number among it if the strikes  *)
(* are whole, so that one leg of a partition pays, an implication pays     *)
(* what its table promises, and what evaluation promises is no more than   *)
(* that, whatever the books, the quantity and the fees.                    *)
(***************************************************************************)
EXTENDS Pricing, TotalsProofs

-----------------------------------------------------------------------------
(* Discovery.  The check looks at neighbours only; the theorem is about the *)
(* whole line.                                                             *)

(* One lower tail, one upper tail, and buckets that pass the check, at any  *)
(* strikes: every value resolves a market to YES but those between the cap  *)
(* of a bucket and the floor of the next (discovery.py:                     *)
(* check_integer_coverage).                                                 *)
LEMMA CoveredLeavesGapsOnly ==
  ASSUME NEW low, low.type = "less", low.cap \in Int,
         NEW high, high.type = "greater", high.floor \in Int,
         NEW Bucket,
         \A b \in Bucket : b.type = "between" /\ b.floor \in Int /\ b.cap \in Int,
         NEW middles \in Seq(Bucket),
         Tiles(low.cap, middles, high.floor),
         NEW value \in Int,
         \A i \in 1 .. Len(middles) - 1 :
           ~ (middles[i].cap < value /\ value < middles[i + 1].floor)
  PROVE  \/ Resolves(low, value)
         \/ Resolves(high, value)
         \/ \E i \in 1 .. Len(middles) : Resolves(middles[i], value)
<1>0. One \in Nat /\ One >= 1
  BY DiscoveryConstants
<1>1. CASE middles = <<>>
  <2>1. low.cap - One = high.floor
    BY <1>1 DEF Tiles
  <2>2. value < low.cap \/ value > high.floor
    BY <1>0, <2>1
  <2> QED BY <2>2 DEF Resolves
<1>2. CASE middles # <<>>
  <2> DEFINE n == Len(middles)
  <2>1. n \in Nat /\ n >= 1
    BY <1>2
  <2>2. \A i \in 1 .. n : /\ middles[i] \in Bucket
                          /\ middles[i].floor \in Int /\ middles[i].cap \in Int
                          /\ middles[i].type = "between"
    BY <2>1
  <2>3. /\ middles[1].floor = low.cap
        /\ middles[n].cap = high.floor
    BY <1>2 DEF Tiles
  <2>4. SUFFICES ASSUME value >= low.cap, value <= high.floor
                 PROVE  \E i \in 1 .. n : middles[i].floor <= value /\ value <= middles[i].cap
    BY <2>2 DEF Resolves
  <2> DEFINE Reaching == {i \in 1 .. n : value <= middles[i].cap}
  <2>5. n \in Reaching
    BY <2>1, <2>3, <2>4
  <2>6. Reaching \in SUBSET Nat /\ Reaching # {}
    BY ONLY <2>1, <2>5
  <2>7. PICK i \in Reaching : \A k \in Reaching : i <= k
    <3> HIDE DEF Reaching
    <3> QED BY ONLY <2>6, LeastNatural
  <2>8. i \in 1 .. n /\ value <= middles[i].cap
    BY <2>7
  <2>9. CASE i = 1
    BY <2>1, <2>3, <2>4, <2>8, <2>9
  <2>10. CASE i # 1
    <3>1. i - 1 \in 1 .. n - 1 /\ i - 1 \in 1 .. n
      BY <2>1, <2>8, <2>10
    <3>2. i - 1 \notin Reaching
      BY <2>1, <2>7, <2>8, <3>1
    <3>3. middles[i - 1].cap < value
      BY <2>2, <3>1, <3>2
    <3>4. ~ value < middles[(i - 1) + 1].floor
      BY <3>1, <3>3
    <3>5. (i - 1) + 1 = i
      BY <2>1, <2>8
    <3>6. middles[i].floor <= value
      BY <2>2, <2>8, <3>4, <3>5
    <3> QED BY <2>8, <3>6
  <2> QED BY <2>9, <2>10
<1> QED BY <1>1, <1>2

\* Nothing whole lies between a whole number and the next.
LEMMA NothingBetweenWholes ==
  ASSUME NEW n \in Int, NEW m \in Int, n * One < m * One, m * One < n * One + One PROVE FALSE
<1>1. One \in Nat \ {0}
  BY DiscoveryConstants
<1>2. CASE m <= n
  <2>1. m * One <= n * One
    BY <1>1, <1>2
  <2> QED BY <1>1, <2>1
<1>3. CASE m >= n + 1
  <2>1. m * One >= (n + 1) * One
    BY <1>1, <1>3
  <2>2. (n + 1) * One = n * One + One
    BY <1>1
  <2> QED BY <1>1, <2>1, <2>2
<1> QED BY <1>2, <1>3

(* The same with caps that are whole numbers: every whole value resolves a  *)
(* market to YES, so whoever holds them all is paid ("leaves no integer     *)
(* unresolved", discovery.py: check_integer_coverage).                      *)
THEOREM CoveredLeavesNoInteger ==
  ASSUME NEW low, low.type = "less", low.cap \in Int,
         NEW high, high.type = "greater", high.floor \in Int,
         NEW Bucket,
         \A b \in Bucket : b.type = "between" /\ b.floor \in Int /\ b.cap \in Int,
         \A b \in Bucket : \E n \in Int : b.cap = n * One,
         NEW middles \in Seq(Bucket),
         Tiles(low.cap, middles, high.floor),
         NEW m \in Int
  PROVE  \/ Resolves(low, m * One)
         \/ Resolves(high, m * One)
         \/ \E i \in 1 .. Len(middles) : Resolves(middles[i], m * One)
<1>1. PICK value \in Int : value = m * One
  BY DiscoveryConstants
<1>2. ASSUME NEW i \in 1 .. Len(middles) - 1,
             middles[i].cap < value, value < middles[i + 1].floor
      PROVE  FALSE
  <2>1. middles[i] \in Bucket /\ middles # <<>>
    BY <1>2
  <2>2. PICK n \in Int : middles[i].cap = n * One
    BY <2>1
  <2>3. middles[i + 1].floor = n * One + One
    BY <1>2, <2>1, <2>2 DEF Tiles
  <2> QED BY <1>1, <1>2, <2>2, <2>3, NothingBetweenWholes
<1>3. \/ Resolves(low, value)
      \/ Resolves(high, value)
      \/ \E i \in 1 .. Len(middles) : Resolves(middles[i], value)
  BY <1>2, CoveredLeavesGapsOnly
<1> QED BY <1>1, <1>3

HasStrikes(market) == {market.floor, market.cap} \subseteq Int \cup {NoStrike}
Apart(items) == \A i, j \in DOMAIN items : items[i].ticker = items[j].ticker => i = j

\* The active markets of a listed event are a sequence of them.
LEMMA ActiveMarkets ==
  ASSUME NEW e \in Events
  PROVE  \E n \in Nat : /\ DOMAIN Active(e) = 1 .. n
                        /\ \A i \in 1 .. n : HasStrikes(Active(e)[i])
                        /\ Apart(Active(e))
<1> DEFINE active == {i \in DOMAIN e.markets : e.markets[i].active}
           n == Cardinality(active)
           R == {p \in Int \X Int : p[1] < p[2]}
           order == CHOOSE o \in [1 .. Cardinality(active) -> active] :
                      \A i, j \in DOMAIN o : i < j => o[i] < o[j]
<1>1. /\ Len(e.markets) \in Nat /\ DOMAIN e.markets = 1 .. Len(e.markets)
      /\ \A i \in DOMAIN e.markets : HasStrikes(e.markets[i])
      /\ Apart(e.markets)
  BY PricingConstants DEF HasStrikes, Apart
<1>2. active \subseteq Int /\ IsFiniteSet(active)
  <2>1. IsFiniteSet(DOMAIN e.markets)
    BY <1>1, FS_Interval
  <2>2. active \subseteq DOMAIN e.markets
    OBVIOUS
  <2>3. IsFiniteSet(active)
    BY <2>1, <2>2, FS_Subset
  <2> QED BY <1>1, <2>2, <2>3
<1> HIDE DEF active
<1>3. IsTotal(R, active) /\ IsTransitive(R, active)
  <2>1. \A x, y \in Int : x # y => x < y \/ y < x
    OBVIOUS
  <2>2. \A x, y, z \in Int : x < y /\ y < z => x < z
    OBVIOUS
  <2>3. \A x, y \in Int : <<x, y>> \in R <=> x < y
    OBVIOUS
  <2> HIDE DEF R
  <2> QED BY <1>2, <2>1, <2>2, <2>3 DEF IsTotal, IsTransitive
<1>4. \E o \in [1 .. Cardinality(active) -> active] :
        \A i, j \in DOMAIN o : i < j => o[i] < o[j]
  <2>1. PICK s : Lists(s, R, active)
    <3> HIDE DEF R
    <3> QED BY <1>2, <1>3, ListExists
  <2> QED BY <2>1 DEF Lists
<1>5. order \in [1 .. n -> active] /\ \A i, j \in DOMAIN order : i < j => order[i] < order[j]
  BY <1>4
<1>6. n \in Nat
  BY <1>2, FS_CardinalityType
<1>7. Active(e) = [i \in DOMAIN order |-> e.markets[order[i]]]
  BY DEF Active, active
<1> HIDE DEF order, n
<1>8. /\ DOMAIN Active(e) = 1 .. n
      /\ \A i \in 1 .. n : Active(e)[i] = e.markets[order[i]] /\ order[i] \in active
  BY <1>5, <1>7
<1>9. \A i \in active : HasStrikes(e.markets[i]) /\ i \in DOMAIN e.markets
  BY <1>1 DEF active
<1>10. ASSUME NEW i \in 1 .. n, NEW j \in 1 .. n, Active(e)[i].ticker = Active(e)[j].ticker
       PROVE  i = j
  <2>1. order[i] = order[j] /\ order[i] \in Int
    <3>1. PICK x, y : x = order[i] /\ y = order[j]
      OBVIOUS
    <3>2. x \in active /\ y \in active /\ e.markets[x].ticker = e.markets[y].ticker
      BY <1>8, <1>10, <3>1
    <3>3. x \in DOMAIN e.markets /\ y \in DOMAIN e.markets /\ x \in Int
      BY <1>2, <1>9, <3>2
    <3>4. x = y
      BY <1>1, <3>2, <3>3 DEF Apart
    <3> QED BY <3>1, <3>3, <3>4
  <2>2. ~ order[i] < order[j] /\ ~ order[j] < order[i]
    BY <2>1
  <2>3. ~ i < j /\ ~ j < i
    BY <1>5, <2>2
  <2> QED BY <1>6, <2>3
<1>11. Apart(Active(e))
  BY <1>8, <1>10 DEF Apart
<1> QED BY <1>6, <1>8, <1>9, <1>11

\* What is sorted by floor is some of the buckets, one after the other.
LEMMA SortedBuckets ==
  ASSUME NEW markets, NEW middles \in SUBSET Nat, IsFiniteSet(middles),
         \A i \in middles : HasStrikes(markets[i])
  PROVE  \E n \in Nat : \E order \in [1 .. n -> middles] :
           SortedByFloor(markets, middles) = [i \in 1 .. n |-> markets[order[i]]]
<1> DEFINE key(i) == IF markets[i].floor = NoStrike THEN 0 ELSE markets[i].floor
           before(i, j) == key(i) < key(j) \/ (key(i) = key(j) /\ i < j)
           R == {p \in Nat \X Nat : before(p[1], p[2])}
           n == Cardinality(middles)
           order == CHOOSE o \in [1 .. Cardinality(middles) -> middles] :
                      \A i, j \in DOMAIN o : i < j => before(o[i], o[j])
<1>1. \A i \in middles : key(i) \in Int /\ i \in Nat
  BY DEF HasStrikes
<1>2. \A i, j \in middles : <<i, j>> \in R <=> before(i, j)
  OBVIOUS
<1>3. SortedByFloor(markets, middles) = [i \in DOMAIN order |-> markets[order[i]]]
  BY DEF SortedByFloor
<1> HIDE DEF R, key
<1>4. IsTotal(R, middles) /\ IsTransitive(R, middles)
  <2>1. \A i, j \in middles : i # j => before(i, j) \/ before(j, i)
    BY <1>1
  <2>2. \A i, j, k \in middles : before(i, j) /\ before(j, k) => before(i, k)
    BY <1>1
  <2> HIDE DEF before
  <2> QED BY <1>2, <2>1, <2>2 DEF IsTotal, IsTransitive
<1> HIDE DEF before
<1>5. \E o \in [1 .. Cardinality(middles) -> middles] :
        \A i, j \in DOMAIN o : i < j => before(o[i], o[j])
  <2>1. PICK s : Lists(s, R, middles)
    BY <1>4, ListExists
  <2>2. s \in [1 .. Cardinality(middles) -> middles]
    BY <2>1 DEF Lists
  <2>3. ASSUME NEW i \in DOMAIN s, NEW j \in DOMAIN s, i < j PROVE before(s[i], s[j])
    <3>1. s[i] \in middles /\ s[j] \in middles
      BY <2>2
    <3>2. <<s[i], s[j]>> \in R
      BY <2>1, <2>2, <2>3 DEF Lists
    <3> QED BY <1>2, <3>1, <3>2
  <2> QED BY <2>2, <2>3
<1>6. order \in [1 .. n -> middles]
  BY <1>5
<1>7. n \in Nat
  BY FS_CardinalityType
<1> HIDE DEF order, n
<1> QED BY <1>3, <1>6, <1>7

\* Markets that pass the coverage check, and any value outside their holes: one of them
\* resolves YES.
LEMMA CoverageResolves ==
  ASSUME NEW n \in Nat, NEW markets, DOMAIN markets = 1 .. n,
         \A i \in 1 .. n : HasStrikes(markets[i]),
         CheckIntegerCoverage(markets), NEW value \in Int, ~ InHole(markets, value)
  PROVE  \E i \in DOMAIN markets : Resolves(markets[i], value)
<1> DEFINE middles == OfType(markets, "between")
<1>1. PICK l \in DOMAIN markets, h \in DOMAIN markets :
        /\ OfType(markets, "less") = {l} /\ OfType(markets, "greater") = {h}
        /\ markets[l].cap # NoStrike /\ markets[h].floor # NoStrike
        /\ Tiles(markets[l].cap, SortedByFloor(markets, middles), markets[h].floor)
  BY DEF CheckIntegerCoverage
<1>2. markets[l].type = "less" /\ markets[h].type = "greater"
  BY <1>1 DEF OfType
<1>3. markets[l].cap \in Int /\ markets[h].floor \in Int
  BY <1>1 DEF HasStrikes
<1>4. middles \in SUBSET Nat /\ IsFiniteSet(middles) /\ middles \subseteq 1 .. n
  <2>1. middles \subseteq 1 .. n
    BY DEF OfType
  <2>2. IsFiniteSet(1 .. n)
    BY FS_Interval
  <2> QED BY <2>1, <2>2, FS_Subset
<1>5. \A i \in middles : HasStrikes(markets[i]) /\ markets[i].type = "between"
  BY <1>4 DEF OfType
<1>6. PICK k \in Nat : \E order \in [1 .. k -> middles] :
        SortedByFloor(markets, middles) = [i \in 1 .. k |-> markets[order[i]]]
  <2>1. \A i \in middles : HasStrikes(markets[i])
    BY <1>5
  <2>2. middles \in SUBSET Nat /\ IsFiniteSet(middles)
    BY <1>4
  <2> HIDE DEF middles
  <2> QED BY ONLY <2>1, <2>2, SortedBuckets
<1>7. PICK order \in [1 .. k -> middles] :
        SortedByFloor(markets, middles) = [i \in 1 .. k |-> markets[order[i]]]
  BY <1>6
<1> DEFINE sorted == [i \in 1 .. k |-> markets[order[i]]]
           Bucket == {markets[order[i]] : i \in 1 .. k}
<1>8. sorted \in Seq(Bucket) /\ Len(sorted) = k
  OBVIOUS
<1>9. Tiles(markets[l].cap, sorted, markets[h].floor)
  BY <1>1, <1>7
<1>10. ASSUME NEW i \in 1 .. k
       PROVE  /\ sorted[i] = markets[order[i]] /\ order[i] \in middles
              /\ sorted[i].type = "between" /\ HasStrikes(sorted[i])
  BY <1>5
<1> HIDE DEF sorted, middles
<1>11. ASSUME NEW i \in 1 .. k PROVE sorted[i].floor \in Int /\ sorted[i].cap \in Int
  <2>1. sorted # <<>> /\ Head(sorted) = sorted[1]
    BY <1>8
  <2>2. /\ sorted[1].floor = markets[l].cap
        /\ \A j \in 1 .. k - 1 : /\ sorted[j].cap # NoStrike
                                 /\ sorted[j + 1].floor # NoStrike
        /\ sorted[k].cap = markets[h].floor
    BY <1>8, <1>9, <2>1 DEF Tiles
  <2>3. sorted[i].floor \in Int
    <3>1. CASE i = 1
      BY <1>3, <2>2, <3>1
    <3>2. CASE i # 1
      <4>1. i - 1 \in 1 .. k - 1 /\ (i - 1) + 1 = i
        BY <3>2
      <4>2. sorted[i].floor # NoStrike
        BY <2>2, <4>1
      <4> QED BY <1>10, <4>2 DEF HasStrikes
    <3> QED BY <3>1, <3>2
  <2>4. sorted[i].cap \in Int
    <3>1. CASE i = k
      BY <1>3, <2>2, <3>1
    <3>2. CASE i # k
      <4>1. i \in 1 .. k - 1
        BY <3>2
      <4> QED BY <1>10, <2>2, <4>1 DEF HasStrikes
    <3> QED BY <3>1, <3>2
  <2> QED BY <2>3, <2>4
<1>12. \A b \in Bucket : b.type = "between" /\ b.floor \in Int /\ b.cap \in Int
  <2>1. ASSUME NEW i \in 1 .. k
        PROVE  LET b == markets[order[i]]
               IN  b.type = "between" /\ b.floor \in Int /\ b.cap \in Int
    <3>1. sorted[i] = markets[order[i]]
      BY <1>10
    <3> QED BY <1>10, <1>11, <3>1
  <2> QED BY <2>1
<1>15. ASSUME NEW i \in 1 .. Len(sorted) - 1,
              sorted[i].cap < value, value < sorted[i + 1].floor
       PROVE  FALSE
  <2>1. i \in 1 .. k /\ i + 1 \in 1 .. k /\ sorted # <<>>
    BY <1>8
  <2>2. sorted[i + 1].floor = sorted[i].cap + One
    BY <1>9, <2>1 DEF Tiles
  <2>3. /\ order[i] \in OfType(markets, "between") /\ order[i + 1] \in OfType(markets, "between")
        /\ markets[order[i]].cap = sorted[i].cap /\ markets[order[i + 1]].floor = sorted[i + 1].floor
    BY <1>10, <2>1 DEF middles
  <2>4. sorted[i].cap # NoStrike /\ sorted[i + 1].floor # NoStrike
    BY <1>9, <2>1 DEF Tiles
  <2> QED BY <1>15, <2>2, <2>3, <2>4 DEF InHole
<1> HIDE DEF Bucket
<1>13. \/ Resolves(markets[l], value)
       \/ Resolves(markets[h], value)
       \/ \E i \in 1 .. Len(sorted) : Resolves(sorted[i], value)
  BY <1>2, <1>3, <1>8, <1>9, <1>12, <1>15, CoveredLeavesGapsOnly
<1>14. ASSUME NEW i \in 1 .. Len(sorted), Resolves(sorted[i], value)
       PROVE  \E j \in DOMAIN markets : Resolves(markets[j], value)
  <2>1. i \in 1 .. k
    BY <1>8
  <2>2. sorted[i] = markets[order[i]] /\ order[i] \in DOMAIN markets
    BY <1>4, <1>10, <2>1
  <2> QED BY <1>14, <2>2
<1> QED BY <1>13, <1>14

-----------------------------------------------------------------------------
(* Money.  What rounds up, and by how much.                                *)

\* What `\div' answers, for a divisor that is not zero.
LEMMA Quotient ==
  ASSUME NEW a \in Int, NEW b \in Nat \ {0}
  PROVE  a \div b \in Int /\ b * (a \div b) <= a /\ a < b * (a \div b) + b
<1> DEFINE q == a \div b
           r == a % b
<1>1. q \in Int /\ r \in 0 .. (b - 1) /\ a = b * q + r
  OBVIOUS
<1>2. b * q \in Int
  BY <1>1
<1> HIDE DEF q, r
<1>3. b * q <= a /\ a < b * q + b
  BY <1>1, <1>2
<1> QED BY <1>1, <1>3 DEF q

LEMMA CeilDivIs ==
  ASSUME NEW a \in Int, NEW b \in Nat \ {0}
  PROVE  CeilDiv(a, b) \in Int /\ a <= b * CeilDiv(a, b) /\ b * CeilDiv(a, b) < a + b
<1> DEFINE n == a + b - 1
           q == n \div b
<1>1. n \in Int
  OBVIOUS
<1>2. q \in Int /\ b * q <= n /\ n < b * q + b
  <2> HIDE DEF n
  <2> QED BY <1>1, Quotient
<1>3. b * q \in Int
  BY <1>2
<1> HIDE DEF q
<1>4. a <= b * q /\ b * q < a + b
  BY <1>2, <1>3
<1> QED BY <1>2, <1>4 DEF CeilDiv, q

\* Whole cents: what the code rounds to.
WholeCents(amount) == \E n \in Int : amount = n * Cent

\* A cost is at least what it was rounded from, by less than a cent, and a dearer one rounds
\* to no less.
LEMMA CostRoundsUp ==
  ASSUME NEW amount \in Int
  PROVE  /\ QuantizeCost(amount) \in Int /\ WholeCents(QuantizeCost(amount))
         /\ QuantizeCost(amount) >= amount /\ QuantizeCost(amount) < amount + Cent
<1>1. Cent \in Nat \ {0}
  BY EconomicsConstants
<1> DEFINE q == CeilDiv(amount, Cent)
<1>2. q \in Int /\ amount <= Cent * q /\ Cent * q < amount + Cent
  BY <1>1, CeilDivIs
<1> HIDE DEF q
<1>3. q * Cent \in Int /\ q * Cent = Cent * q
  BY <1>1, <1>2
<1> QED BY <1>2, <1>3 DEF QuantizeCost, WholeCents, q

\* Whole cents that reach an amount reach what it rounds to.
LEMMA CostIsLeastWhole ==
  ASSUME NEW amount \in Int, NEW whole \in Int, WholeCents(whole), amount <= whole
  PROVE  QuantizeCost(amount) <= whole
<1>1. Cent \in Nat \ {0}
  BY EconomicsConstants
<1>2. PICK n \in Int : whole = n * Cent
  BY DEF WholeCents
<1>3. PICK q \in Int : QuantizeCost(amount) = q * Cent
  BY CostRoundsUp DEF WholeCents
<1>4. q * Cent < n * Cent + Cent
  <2>1. QuantizeCost(amount) < amount + Cent
    BY CostRoundsUp
  <2>2. n * Cent \in Int /\ q * Cent \in Int
    BY <1>1
  <2> QED BY <1>1, <1>2, <1>3, <2>1, <2>2
<1>5. q <= n
  <2>1. SUFFICES ASSUME q >= n + 1 PROVE FALSE
    OBVIOUS
  <2>2. q * Cent >= (n + 1) * Cent
    BY <1>1, <2>1
  <2>3. (n + 1) * Cent = n * Cent + Cent
    BY <1>1
  <2>4. n * Cent \in Int /\ q * Cent \in Int
    BY <1>1
  <2> QED BY <1>1, <1>4, <2>2, <2>3, <2>4
<1>6. q * Cent <= n * Cent
  BY <1>1, <1>5
<1> QED BY <1>2, <1>3, <1>6

\* Proceeds round down, by less than a cent.
LEMMA ProceedsRoundDown ==
  ASSUME NEW amount \in Int
  PROVE  /\ QuantizeProceeds(amount) \in Int /\ QuantizeProceeds(amount) <= amount
         /\ amount < QuantizeProceeds(amount) + Cent
<1>1. Cent \in Nat \ {0}
  BY EconomicsConstants
<1> DEFINE q == amount \div Cent
<1>2. q \in Int /\ Cent * q <= amount /\ amount < Cent * q + Cent
  BY <1>1, Quotient
<1> HIDE DEF q
<1>3. q * Cent \in Int /\ q * Cent = Cent * q
  BY <1>1, <1>2
<1> QED BY <1>2, <1>3 DEF QuantizeProceeds, q

LEMMA DollarType == Dollar \in Nat \ {0} /\ WholeCents(Dollar)
<1>1. Cent \in Nat \ {0}
  BY EconomicsConstants
<1>2. 100 * Cent \in Nat \ {0}
  BY <1>1
<1> QED BY <1>2 DEF Dollar, WholeCents

LEMMA FeeType ==
  ASSUME NEW ticker, NEW cost \in Int, NEW contracts \in Nat
  PROVE  Fee(RuleFor(ticker), cost, contracts) \in Int
<1>1. CASE contracts = 0
  BY <1>1 DEF Fee
<1>2. CASE contracts # 0
  <2>1. Cent \in Nat \ {0} /\ Dollar \in Nat \ {0}
    BY EconomicsConstants, DollarType
  <2> DEFINE mult == RuleFor(ticker).multiplier
             num == 7 * mult * cost * (contracts * Dollar - cost)
             den == 2 * contracts * Dollar * Dollar
  <2>2. mult \in Nat
    BY DEF RuleFor, GeneralFee, IndexFee
  <2>3. num \in Int
    <3> HIDE DEF mult
    <3>1. contracts * Dollar - cost \in Int
      BY <2>1
    <3>2. 7 * mult * cost \in Int
      BY <2>2
    <3> QED BY <3>1, <3>2
  <2>4. den \in Nat \ {0}
    <3>1. 2 * contracts \in Nat \ {0}
      BY <1>2
    <3>2. 2 * contracts * Dollar \in Nat \ {0}
      BY <2>1, <3>1
    <3> QED BY <2>1, <3>2
  <2> HIDE DEF num, den
  <2>5. CeilDiv(num, den) \in Int
    BY <2>3, <2>4, CeilDivIs
  <2>6. CeilDiv(num, den) * Cent \in Int
    BY <2>1, <2>5
  <2> QED BY <1>2, <2>6 DEF Fee, num, den, mult
<1> QED BY <1>1, <1>2

\* The least and the greatest of finitely many integers.
LEMMA MinOfIntegers ==
  ASSUME NEW S \in SUBSET Int, IsFiniteSet(S), S # {}
  PROVE  Min(S) \in S /\ \A y \in S : Min(S) <= y
<1> DEFINE R == {p \in Int \X Int : p[1] > p[2]}
<1>1. \A x, y \in Int : <<x, y>> \in R <=> x > y
  OBVIOUS
<1> HIDE DEF R
<1>2. IsTotal(R, S) /\ IsTransitive(R, S)
  BY <1>1 DEF IsTotal, IsTransitive
<1>3. PICK x : IsLast(x, R, S)
  BY <1>2, LastExists
<1>4. x \in S /\ \A y \in S \ {x} : y > x
  BY <1>1, <1>3 DEF IsLast
<1>5. x \in S /\ \A y \in S : x <= y
  BY <1>4
<1> QED BY <1>5 DEF Min

LEMMA MaxOfIntegers ==
  ASSUME NEW S \in SUBSET Int, IsFiniteSet(S), S # {}
  PROVE  Max(S) \in S /\ \A y \in S : Max(S) >= y
<1> DEFINE R == {p \in Int \X Int : p[1] < p[2]}
<1>1. \A x, y \in Int : <<x, y>> \in R <=> x < y
  OBVIOUS
<1> HIDE DEF R
<1>2. IsTotal(R, S) /\ IsTransitive(R, S)
  BY <1>1 DEF IsTotal, IsTransitive
<1>3. PICK x : IsLast(x, R, S)
  BY <1>2, LastExists
<1>4. x \in S /\ \A y \in S \ {x} : y < x
  BY <1>1, <1>3 DEF IsLast
<1>5. x \in S /\ \A y \in S : x >= y
  BY <1>4
<1> QED BY <1>5 DEF Max

-----------------------------------------------------------------------------
(* Folds over sequences: of what is summed, and of what a walk takes.  Each *)
(* is the last of a run of values, one for every prefix.                    *)

LEMMA PrefixSets ==
  ASSUME NEW n \in Nat
  PROVE  /\ \A T \in (SUBSET (1 .. n)) \ {{}} : Max(T) \in T
         /\ \A i \in 1 .. n : /\ Max(1 .. i) = i /\ (1 .. i) \ {i} = 1 .. (i - 1)
                              /\ 1 .. i \in SUBSET (1 .. n) /\ 1 .. i # {}
                              /\ i - 1 \in 0 .. n
<1>1. ASSUME NEW T \in (SUBSET (1 .. n)) \ {{}}
      PROVE  Max(T) \in T /\ \A y \in T : Max(T) >= y
  <2>1. IsFiniteSet(1 .. n)
    BY FS_Interval
  <2>2. T \in SUBSET (1 .. n) /\ T # {}
    OBVIOUS
  <2>3. T \in SUBSET Int
    BY <2>2
  <2>4. IsFiniteSet(T)
    BY <2>1, <2>2, FS_Subset
  <2> QED BY <2>2, <2>3, <2>4, MaxOfIntegers
<1>2. ASSUME NEW i \in 1 .. n
      PROVE  /\ (1 .. i) \ {i} = 1 .. (i - 1)
             /\ 1 .. i \in SUBSET (1 .. n) /\ i \in 1 .. i
             /\ i - 1 \in 0 .. n
  OBVIOUS
<1>3. ASSUME NEW i \in 1 .. n PROVE Max(1 .. i) = i
  <2>1. 1 .. i \in (SUBSET (1 .. n)) \ {{}}
    BY <1>2
  <2>2. Max(1 .. i) \in 1 .. i /\ Max(1 .. i) >= i
    BY <1>1, <1>2, <2>1
  <2> QED BY <2>2
<1>4. \A i \in 1 .. n : 1 .. i # {}
  BY <1>2
<1> QED BY <1>1, <1>2, <1>3, <1>4

IsLeftFold(base, step, n, f) ==
  f = [T \in SUBSET (1 .. n) |-> IF T = {} THEN base ELSE step[<<Max(T), f[T \ {Max(T)}]>>]]

LEMMA LeftFoldExists ==
  ASSUME NEW n \in Nat, NEW B, NEW base \in B, NEW step \in [(1 .. n) \X B -> B]
  PROVE  \E f \in [SUBSET (1 .. n) -> B] : IsLeftFold(base, step, n, f)
<1> DEFINE D == 1 .. n
           pick == [T \in (SUBSET D) \ {{}} |-> Max(T)]
<1>1. IsFiniteSet(D)
  BY FS_Interval
<1>2. pick \in [(SUBSET D) \ {{}} -> D] /\ \A T \in (SUBSET D) \ {{}} : pick[T] \in T
  BY PrefixSets
<1>3. step \in [D \X B -> B]
  OBVIOUS
<1> HIDE DEF D, pick
<1>4. PICK f \in [SUBSET D -> B] : IsFold(base, pick, step, D, f)
  BY <1>1, <1>2, <1>3, FoldExists
<1>5. ASSUME NEW T \in SUBSET D
      PROVE  FoldStep(base, pick, step, f, T)
               = IF T = {} THEN base ELSE step[<<Max(T), f[T \ {Max(T)}]>>]
  BY DEF FoldStep, pick
<1>6. f = [T \in SUBSET D |-> IF T = {} THEN base ELSE step[<<Max(T), f[T \ {Max(T)}]>>]]
  BY <1>4, <1>5 DEF IsFold
<1> QED BY <1>4, <1>6 DEF D, IsLeftFold

Sums(amounts, f) ==
  f = [T \in SUBSET DOMAIN amounts |->
         IF T = {} THEN 0 ELSE f[T \ {Max(T)}] + amounts[Max(T)]]

\* A sum, as the last of the sums of the prefixes.
LEMMA SumRuns ==
  ASSUME NEW n \in Nat, NEW amounts \in [1 .. n -> Int]
  PROVE  \E run \in [0 .. n -> Int] :
           /\ run[0] = 0 /\ \A i \in 1 .. n : run[i] = run[i - 1] + amounts[i]
           /\ SumOver(amounts) = run[n]
<1> DEFINE step == [p \in (1 .. n) \X Int |-> p[2] + amounts[p[1]]]
<1>1. step \in [(1 .. n) \X Int -> Int]
  OBVIOUS
<1>2. PICK f \in [SUBSET (1 .. n) -> Int] : IsLeftFold(0, step, n, f)
  <2>1. 0 \in Int
    OBVIOUS
  <2> HIDE DEF step
  <2> QED BY <1>1, <2>1, LeftFoldExists
<1>3. ASSUME NEW T \in SUBSET (1 .. n)
      PROVE  f[T] = IF T = {} THEN 0 ELSE f[T \ {Max(T)}] + amounts[Max(T)]
  <2>1. CASE T = {}
    BY <1>2, <2>1 DEF IsLeftFold
  <2>2. CASE T # {}
    <3>1. Max(T) \in 1 .. n /\ T \ {Max(T)} \in SUBSET (1 .. n)
      BY <2>2, PrefixSets
    <3>2. <<Max(T), f[T \ {Max(T)}]>> \in (1 .. n) \X Int
      BY <3>1
    <3>3. f[T] = step[<<Max(T), f[T \ {Max(T)}]>>]
      <4> HIDE DEF step
      <4> QED BY <1>2, <2>2 DEF IsLeftFold
    <3> QED BY <2>2, <3>2, <3>3
  <2> QED BY <2>1, <2>2
<1>4. \E g : Sums(amounts, g)
  <2>1. DOMAIN amounts = 1 .. n
    OBVIOUS
  <2>2. Sums(amounts, f)
    BY <1>2, <1>3, <2>1 DEF Sums, IsLeftFold
  <2> QED BY <2>2
<1> DEFINE it == CHOOSE g : Sums(amounts, g)
           run == [i \in 0 .. n |-> it[1 .. i]]
<1>5. \A T \in SUBSET (1 .. n) :
        it[T] = IF T = {} THEN 0 ELSE it[T \ {Max(T)}] + amounts[Max(T)]
  <2>1. Sums(amounts, it)
    BY <1>4
  <2>2. DOMAIN amounts = 1 .. n
    OBVIOUS
  <2> HIDE DEF it
  <2> QED BY <2>1, <2>2 DEF Sums
<1>6. SumOver(amounts) = it[1 .. n]
  <2>1. DOMAIN amounts = 1 .. n
    OBVIOUS
  <2>2. SumOver(amounts) = it[DOMAIN amounts]
    BY DEF SumOver, FoldLeft, MapThenFoldSet, Sums
  <2> QED BY <2>1, <2>2
<1> HIDE DEF it
<1>7. run[0] = 0
  <2>1. 1 .. 0 = {} /\ 0 \in 0 .. n
    OBVIOUS
  <2> QED BY <1>5, <2>1
<1>8. ASSUME NEW i \in 1 .. n PROVE run[i] = run[i - 1] + amounts[i]
  <2>1. /\ Max(1 .. i) = i /\ (1 .. i) \ {i} = 1 .. (i - 1)
        /\ 1 .. i \in SUBSET (1 .. n) /\ 1 .. i # {} /\ i - 1 \in 0 .. n /\ i \in 0 .. n
    BY PrefixSets
  <2>2. it[1 .. i] = it[1 .. (i - 1)] + amounts[i]
    BY <1>5, <2>1
  <2> QED BY <2>1, <2>2
<1>9. \A i \in Nat : i \in 0 .. n => run[i] \in Int
  <2> DEFINE N == {i \in Nat : i \in 0 .. n => run[i] \in Int}
  <2>1. 0 \in N
    BY <1>7
  <2>2. ASSUME NEW i \in N PROVE i + 1 \in N
    <3>1. SUFFICES ASSUME i + 1 \in 0 .. n PROVE run[i + 1] \in Int
      OBVIOUS
    <3>2. i \in 0 .. n /\ i + 1 \in 1 .. n /\ (i + 1) - 1 = i
      BY <3>1
    <3>3. run[i] \in Int
      BY <3>2
    <3>4. run[i + 1] = run[i] + amounts[i + 1]
      <4> HIDE DEF run
      <4> QED BY <1>8, <3>2
    <3> QED BY <3>2, <3>3, <3>4
  <2>3. N \in SUBSET Nat
    OBVIOUS
  <2> HIDE DEF N
  <2>4. N = Nat
    BY <2>1, <2>2, <2>3, NaturalsFrom
  <2> QED BY <2>4 DEF N
<1>10. run \in [0 .. n -> Int]
  BY <1>9
<1>11. SumOver(amounts) = run[n]
  BY <1>6
<1> HIDE DEF run
<1> QED BY <1>7, <1>8, <1>10, <1>11

(* The offers a walk goes through, and where it stands. *)
Offer == [price : 1 .. Dollar - 1, quantity : Nat \ {0}]
IsLadder(levels) ==
  /\ levels \in Seq(Offer)
  /\ \A i, j \in 1 .. Len(levels) : i < j => levels[i].price <= levels[j].price
Standing == [remaining : Nat, cost : Nat]

\* A level gives what is still wanted or all it has.
LEMMA TakeLevelIs ==
  ASSUME NEW w \in Standing, NEW o \in Offer
  PROVE  \E take \in Nat :
           /\ take <= w.remaining /\ take <= o.quantity
           /\ take = w.remaining \/ take = o.quantity
           /\ TakeLevel(w, o) \in Standing
           /\ TakeLevel(w, o).remaining = w.remaining - take
           /\ TakeLevel(w, o).cost = w.cost + take * o.price
<1> DEFINE take == Min({w.remaining, o.quantity})
<1>1. w.remaining \in Nat /\ w.cost \in Nat /\ o.quantity \in Nat /\ o.price \in Nat
  BY DollarType DEF Standing, Offer
<1>2. take \in {w.remaining, o.quantity} /\ \A y \in {w.remaining, o.quantity} : take <= y
  <2> DEFINE S == {w.remaining, o.quantity}
  <2>1. S \in SUBSET Int /\ S # {}
    BY <1>1
  <2>2. IsFiniteSet(S)
    <3>1. IsFiniteSet({w.remaining})
      BY FS_Singleton
    <3>2. IsFiniteSet({w.remaining} \cup {o.quantity})
      BY <3>1, FS_AddElement
    <3>3. S = {w.remaining} \cup {o.quantity}
      OBVIOUS
    <3> QED BY <3>2, <3>3
  <2> HIDE DEF S
  <2>3. Min(S) \in S /\ \A y \in S : Min(S) <= y
    BY <2>1, <2>2, MinOfIntegers
  <2> QED BY <2>3 DEF S
<1>3. TakeLevel(w, o) = IF take <= 0
                        THEN w
                        ELSE [remaining |-> w.remaining - take, cost |-> w.cost + take * o.price]
  BY DEF TakeLevel
<1> HIDE DEF take
<1>4. take \in Nat /\ take <= w.remaining /\ take <= o.quantity
  BY <1>1, <1>2
<1>5. take * o.price \in Nat /\ (take = 0 => take * o.price = 0)
  BY <1>1, <1>4
<1>6. CASE take = 0
  <2>1. TakeLevel(w, o) = w
    BY <1>3, <1>6
  <2>2. w.remaining = w.remaining - take /\ w.cost = w.cost + take * o.price
    BY SMTT(20), <1>1, <1>5, <1>6
  <2> QED BY <1>2, <1>4, <2>1, <2>2
<1>7. CASE take # 0
  <2>1. TakeLevel(w, o) = [remaining |-> w.remaining - take, cost |-> w.cost + take * o.price]
    BY <1>3, <1>4, <1>7
  <2>2. w.remaining - take \in Nat /\ w.cost + take * o.price \in Nat
    BY <1>1, <1>4, <1>5
  <2>3. TakeLevel(w, o) \in Standing
    BY <2>1, <2>2 DEF Standing
  <2> QED BY <1>2, <1>4, <2>1, <2>3
<1> QED BY <1>6, <1>7

Walked(levels, quantity) == FoldLeft(TakeLevel, [remaining |-> quantity, cost |-> 0], levels)

Walks(levels, quantity, f) ==
  f = [T \in SUBSET DOMAIN levels |->
         IF T = {} THEN [remaining |-> quantity, cost |-> 0]
                   ELSE TakeLevel(f[T \ {Max(T)}], levels[Max(T)])]

(* Where a walk stands after each level. *)
IsRun(levels, quantity, run) ==
  /\ run \in [0 .. Len(levels) -> Standing]
  /\ run[0] = [remaining |-> quantity, cost |-> 0]
  /\ \A i \in 1 .. Len(levels) : run[i] = TakeLevel(run[i - 1], levels[i])

LEMMA WalkRuns ==
  ASSUME NEW levels, IsLadder(levels), NEW quantity \in Nat
  PROVE  \E run : /\ IsRun(levels, quantity, run)
                  /\ Walked(levels, quantity) = run[Len(levels)]
<1> DEFINE n == Len(levels)
           base == [remaining |-> quantity, cost |-> 0]
           step == [p \in (1 .. n) \X Standing |-> TakeLevel(p[2], levels[p[1]])]
<1>1. n \in Nat /\ DOMAIN levels = 1 .. n /\ \A i \in 1 .. n : levels[i] \in Offer
  BY DEF IsLadder
<1>2. base \in Standing
  BY DEF Standing
<1>3. step \in [(1 .. n) \X Standing -> Standing]
  <2>1. ASSUME NEW p \in (1 .. n) \X Standing PROVE TakeLevel(p[2], levels[p[1]]) \in Standing
    <3>1. p[1] \in 1 .. n /\ p[2] \in Standing
      OBVIOUS
    <3>2. levels[p[1]] \in Offer
      BY <1>1, <3>1
    <3> HIDE DEF n
    <3> QED BY <3>1, <3>2, TakeLevelIs
  <2> HIDE DEF n
  <2> QED BY <2>1
<1> HIDE DEF n, base
<1>4. PICK f \in [SUBSET (1 .. n) -> Standing] : IsLeftFold(base, step, n, f)
  <2> HIDE DEF step
  <2> QED BY <1>1, <1>2, <1>3, LeftFoldExists
<1>5. ASSUME NEW T \in SUBSET (1 .. n)
      PROVE  f[T] = IF T = {} THEN base ELSE TakeLevel(f[T \ {Max(T)}], levels[Max(T)])
  <2>1. CASE T = {}
    BY <1>4, <2>1 DEF IsLeftFold
  <2>2. CASE T # {}
    <3>1. Max(T) \in 1 .. n /\ T \ {Max(T)} \in SUBSET (1 .. n)
      BY <1>1, <2>2, PrefixSets
    <3>2. <<Max(T), f[T \ {Max(T)}]>> \in (1 .. n) \X Standing
      BY <3>1
    <3>3. f[T] = step[<<Max(T), f[T \ {Max(T)}]>>]
      <4> HIDE DEF step
      <4> QED BY <1>4, <2>2 DEF IsLeftFold
    <3> QED BY <2>2, <3>2, <3>3
  <2> QED BY <2>1, <2>2
<1>6. \E g : Walks(levels, quantity, g)
  <2>1. Walks(levels, quantity, f)
    BY <1>1, <1>4, <1>5 DEF Walks, IsLeftFold, base
  <2> QED BY <2>1
<1> DEFINE it == CHOOSE g : Walks(levels, quantity, g)
           run == [i \in 0 .. n |-> it[1 .. i]]
<1>7. \A T \in SUBSET (1 .. n) :
        it[T] = IF T = {} THEN base ELSE TakeLevel(it[T \ {Max(T)}], levels[Max(T)])
  <2>1. Walks(levels, quantity, it)
    BY <1>6
  <2> HIDE DEF it
  <2> QED BY <1>1, <2>1 DEF Walks, base
<1>8. Walked(levels, quantity) = it[1 .. n]
  <2>1. Walked(levels, quantity) = it[DOMAIN levels]
    BY DEF Walked, FoldLeft, MapThenFoldSet, Walks
  <2> QED BY <1>1, <2>1
<1> HIDE DEF it
<1>9. run[0] = base
  <2>1. 1 .. 0 = {} /\ 0 \in 0 .. n
    BY <1>1
  <2> QED BY <1>7, <2>1
<1>10. ASSUME NEW i \in 1 .. n PROVE run[i] = TakeLevel(run[i - 1], levels[i])
  <2>1. /\ Max(1 .. i) = i /\ (1 .. i) \ {i} = 1 .. (i - 1)
        /\ 1 .. i \in SUBSET (1 .. n) /\ 1 .. i # {} /\ i - 1 \in 0 .. n /\ i \in 0 .. n
    BY <1>1, PrefixSets
  <2>2. it[1 .. i] = TakeLevel(it[1 .. (i - 1)], levels[i])
    BY <1>7, <2>1
  <2> QED BY <2>1, <2>2
<1>11. \A i \in Nat : i \in 0 .. n => run[i] \in Standing
  <2> DEFINE N == {i \in Nat : i \in 0 .. n => run[i] \in Standing}
  <2>1. 0 \in N
    BY <1>2, <1>9
  <2>2. ASSUME NEW i \in N PROVE i + 1 \in N
    <3>1. SUFFICES ASSUME i + 1 \in 0 .. n PROVE run[i + 1] \in Standing
      OBVIOUS
    <3>2. i \in 0 .. n /\ i + 1 \in 1 .. n /\ (i + 1) - 1 = i
      BY <1>1, <3>1
    <3>3. run[i] \in Standing
      BY <3>2
    <3>4. run[i + 1] = TakeLevel(run[i], levels[i + 1])
      <4> HIDE DEF run
      <4> QED BY <1>10, <3>2
    <3>5. levels[i + 1] \in Offer
      BY <1>1, <3>2
    <3> HIDE DEF run
    <3> QED BY <3>3, <3>4, <3>5, TakeLevelIs
  <2>3. N \in SUBSET Nat
    OBVIOUS
  <2> HIDE DEF N
  <2>4. N = Nat
    BY <2>1, <2>2, <2>3, NaturalsFrom
  <2> QED BY <2>4 DEF N
<1>12. run \in [0 .. n -> Standing]
  BY <1>1, <1>11
<1>13. Walked(levels, quantity) = run[n]
  BY <1>1, <1>8
<1> HIDE DEF run
<1>14. IsRun(levels, quantity, run)
  BY <1>9, <1>10, <1>12 DEF IsRun, n, base
<1> QED BY <1>13, <1>14 DEF n

\* What a walk comes to.
LEMMA WalkIs ==
  ASSUME NEW levels, IsLadder(levels), NEW quantity \in Nat \ {0}
  PROVE  LET stand == Walked(levels, quantity)
         IN  /\ stand \in Standing
             /\ WalkLevels(levels, quantity)
                  = [requested |-> quantity, filled |-> quantity - stand.remaining,
                     cost |-> QuantizeCost(stand.cost)]
<1>1. PICK run : IsRun(levels, quantity, run) /\ Walked(levels, quantity) = run[Len(levels)]
  BY WalkRuns
<1>2. Len(levels) \in 0 .. Len(levels)
  BY DEF IsLadder
<1>3. Walked(levels, quantity) \in Standing
  BY <1>1, <1>2 DEF IsRun
<1>4. ~ quantity <= 0
  OBVIOUS
<1> QED BY <1>3, <1>4 DEF WalkLevels, Walked

\* The prices of the bids a leg is bought from, best first.
IsListing(s, n, S) ==
  /\ s \in [1 .. n -> S]
  /\ \A i, j \in 1 .. n : i < j => s[i] > s[j]
  /\ \A p \in S : \E i \in 1 .. n : s[i] = p

IsBook(book) == \A side \in {"yes", "no"} : IsBids(book[side])

LEMMA BookBids ==
  ASSUME NEW book, IsBook(book), NEW side PROVE IsBids(book[Opposite(side)])
<1>1. Opposite(side) \in {"yes", "no"}
  BY DEF Opposite
<1> QED BY <1>1 DEF IsBook

LEMMA AskListing ==
  ASSUME NEW book, NEW side, IsBids(book[Opposite(side)])
  PROVE  LET bids == book[Opposite(side)]
         IN  \E n \in Nat : \E s :
               /\ IsListing(s, n, DOMAIN bids)
               /\ AskLevels(book, side)
                    = [i \in 1 .. n |-> [price |-> Dollar - s[i], quantity |-> bids[s[i]]]]
<1> DEFINE bids == book[Opposite(side)]
           S == DOMAIN bids
           R == {p \in Int \X Int : p[1] > p[2]}
           price == CHOOSE s \in [1 .. Cardinality(DOMAIN bids) -> DOMAIN bids] :
                      \A i, j \in DOMAIN s : i < j => s[i] > s[j]
           n == Cardinality(S)
<1>1. AskLevels(book, side)
        = [i \in DOMAIN price |-> [price |-> Dollar - price[i], quantity |-> bids[price[i]]]]
  BY DEF AskLevels
<1> HIDE DEF bids, S
<1>2. S \subseteq Int /\ IsFiniteSet(S)
  <2>1. S \subseteq 1 .. Dollar - 1 /\ IsFiniteSet(S)
    BY DEF IsBids, S, bids
  <2> QED BY <2>1, DollarType
<1>3. IsTotal(R, S) /\ IsTransitive(R, S)
  <2>1. \A x, y \in Int : <<x, y>> \in R <=> x > y
    OBVIOUS
  <2> HIDE DEF R
  <2> QED BY <1>2, <2>1 DEF IsTotal, IsTransitive
<1>4. \E s \in [1 .. Cardinality(S) -> S] : \A i, j \in DOMAIN s : i < j => s[i] > s[j]
  <2>1. PICK s : Lists(s, R, S)
    <3> HIDE DEF R
    <3> QED BY <1>2, <1>3, ListExists
  <2> QED BY <2>1 DEF Lists
<1>5. price \in [1 .. n -> S] /\ \A i, j \in DOMAIN price : i < j => price[i] > price[j]
  BY <1>4 DEF S
<1>6. n \in Nat
  BY <1>2, FS_CardinalityType
<1> HIDE DEF price
<1>7. \A p \in S : \E i \in 1 .. n : price[i] = p
  <2>1. ASSUME NEW i \in 1 .. n, NEW j \in 1 .. n, price[i] = price[j] PROVE i = j
    <3>1. PICK x \in Int : x = price[i] /\ x = price[j]
      BY <1>2, <1>5, <2>1
    <3>2. ~ x > x
      OBVIOUS
    <3>3. ~ i < j /\ ~ j < i
      BY <1>5, <3>1, <3>2
    <3> QED BY <1>6, <3>3
  <2>2. price \in Injection(1 .. n, S)
    BY <1>5, <2>1 DEF Injection, IsInjective
  <2>3. Cardinality(1 .. n) = n
    BY <1>6, FS_Interval
  <2>4. PICK T : T = 1 .. n
    OBVIOUS
  <2>5. price \in Surjection(T, S)
    <3>1. price \in Injection(T, S) /\ Cardinality(T) = Cardinality(S)
      BY <2>2, <2>3, <2>4
    <3> QED BY <1>2, <3>1, FS_Injection
  <2> QED BY <2>4, <2>5 DEF Surjection
<1> HIDE DEF n
<1>8. IsListing(price, n, S)
  BY <1>5, <1>7 DEF IsListing
<1>9. AskLevels(book, side)
        = [i \in 1 .. n |-> [price |-> Dollar - price[i], quantity |-> bids[price[i]]]]
  BY <1>1, <1>5
<1> QED BY <1>6, <1>8, <1>9 DEF S, bids

\* The offers of a book, cheapest first.
LEMMA AskLadder ==
  ASSUME NEW book, IsBook(book), NEW side PROVE IsLadder(AskLevels(book, side))
<1>1. PICK bids : bids = book[Opposite(side)]
  OBVIOUS
<1>2. IsBids(bids)
  BY <1>1, BookBids
<1>3. PICK n \in Nat : \E s :
        /\ IsListing(s, n, DOMAIN bids)
        /\ AskLevels(book, side)
             = [i \in 1 .. n |-> [price |-> Dollar - s[i], quantity |-> bids[s[i]]]]
  BY <1>1, <1>2, AskListing
<1>4. PICK s :
        /\ IsListing(s, n, DOMAIN bids)
        /\ AskLevels(book, side)
             = [i \in 1 .. n |-> [price |-> Dollar - s[i], quantity |-> bids[s[i]]]]
  BY <1>3
<1>5. ASSUME NEW i \in 1 .. n
      PROVE  /\ s[i] \in 1 .. Dollar - 1 /\ bids[s[i]] \in Nat \ {0}
             /\ Dollar - s[i] \in 1 .. Dollar - 1
  <2>1. s[i] \in 1 .. Dollar - 1 /\ bids[s[i]] \in Nat \ {0}
    BY <1>2, <1>4 DEF IsBids, IsListing
  <2> QED BY <2>1, DollarType
<1> DEFINE levels == [i \in 1 .. n |-> [price |-> Dollar - s[i], quantity |-> bids[s[i]]]]
<1>6. \A i \in 1 .. n : levels[i] \in Offer /\ levels[i].price = Dollar - s[i]
  BY <1>5 DEF Offer
<1>7. levels \in Seq(Offer) /\ Len(levels) = n
  <2>1. levels \in [1 .. n -> Offer]
    BY <1>6
  <2> QED BY <2>1
<1>8. AskLevels(book, side) = levels
  BY <1>4
<1> HIDE DEF levels
<1>9. ASSUME NEW i \in 1 .. n, NEW j \in 1 .. n, i < j
      PROVE  levels[i].price <= levels[j].price
  <2>1. s[i] > s[j] /\ s[i] \in Int /\ s[j] \in Int
    BY <1>4, <1>5, <1>9 DEF IsListing
  <2> QED BY <1>6, <2>1, DollarType
<1> QED BY <1>7, <1>8, <1>9 DEF IsLadder

-----------------------------------------------------------------------------
(* What qualifies.                                                         *)

IsRequest(r) ==
  /\ Len(r.legs) \in Nat /\ DOMAIN r.legs = 1 .. Len(r.legs)
  /\ \A t \in DOMAIN r.books : IsBook(r.books[t])
  /\ r.quantity \in Nat /\ r.reserve \in Nat /\ r.minEdge = 0

\* What a leg that passes the gates is quoted at.
LEMMA QuoteIs ==
  ASSUME NEW r, IsRequest(r), r.quantity # 0, NEW leg, LegReason(r, leg) = "none"
  PROVE  LET offers == AskLevels(r.books[leg.ticker], leg.side)
             stand == Walked(offers, r.quantity)
         IN  /\ IsLadder(offers) /\ stand \in Standing /\ stand.remaining = 0
             /\ QuoteLeg(r, leg).ticker = leg.ticker /\ QuoteLeg(r, leg).side = leg.side
             /\ QuoteLeg(r, leg).cost = QuantizeCost(stand.cost)
             /\ QuoteLeg(r, leg).cost \in Int /\ QuoteLeg(r, leg).fee \in Int
<1> DEFINE offers == AskLevels(r.books[leg.ticker], leg.side)
           stand == Walked(offers, r.quantity)
<1>1. leg.ticker \in DOMAIN r.books /\ IsComplete(LegWalk(r, leg))
  BY DEF LegReason
<1>2. IsBook(r.books[leg.ticker]) /\ r.quantity \in Nat \ {0}
  BY <1>1 DEF IsRequest
<1>3. IsLadder(offers)
  BY <1>2, AskLadder
<1>4. /\ stand \in Standing
      /\ LegWalk(r, leg) = [requested |-> r.quantity, filled |-> r.quantity - stand.remaining,
                            cost |-> QuantizeCost(stand.cost)]
  <2>1. LegWalk(r, leg) = WalkLevels(offers, r.quantity)
    BY DEF LegWalk
  <2> HIDE DEF offers
  <2> QED BY <1>2, <1>3, <2>1, WalkIs
<1> HIDE DEF stand, offers
<1>5. stand.remaining \in Nat /\ stand.cost \in Int
  BY <1>4 DEF Standing
<1>6. stand.remaining = 0
  <2>1. r.quantity - stand.remaining >= r.quantity
    BY <1>1, <1>4 DEF IsComplete
  <2> QED BY <1>2, <1>5, <2>1
<1>7. QuantizeCost(stand.cost) \in Int
  BY <1>5, CostRoundsUp
<1>8. QuoteLeg(r, leg) = [ticker |-> leg.ticker, side |-> leg.side, cost |-> QuantizeCost(stand.cost),
                          fee |-> Fee(RuleFor(leg.ticker), QuantizeCost(stand.cost), r.quantity)]
  BY <1>4 DEF QuoteLeg
<1>9. Fee(RuleFor(leg.ticker), QuantizeCost(stand.cost), r.quantity) \in Int
  BY <1>2, <1>7, FeeType
<1> QED BY <1>3, <1>4, <1>6, <1>7, <1>8, <1>9 DEF stand, offers

LEMMA Qualified ==
  ASSUME NEW r, IsRequest(r), r.quantity # 0, NEW payout \in Int, NEW reserves \in Int,
         NEW e, e = Qualify(r, payout, reserves), e.accepted
  PROVE  /\ \A i \in DOMAIN r.legs : LegReason(r, r.legs[i]) = "none"
         /\ e.legs = [i \in DOMAIN r.legs |-> QuoteLeg(r, r.legs[i])]
         /\ e.acquisition
              = QuantizeCost(SumOver([k \in DOMAIN r.legs |-> QuoteLeg(r, r.legs[k]).cost]))
         /\ e.fees = SumOver([k \in DOMAIN r.legs |-> QuoteLeg(r, r.legs[k]).fee])
         /\ e.acquisition \in Int /\ e.fees \in Int
         /\ e.payout = payout /\ e.reserves = reserves
         /\ NetEdge(e) > 0
<1> DEFINE n == Len(r.legs)
           quotes == [i \in DOMAIN r.legs |-> QuoteLeg(r, r.legs[i])]
           costs == [k \in DOMAIN r.legs |-> QuoteLeg(r, r.legs[k]).cost]
           fees == [k \in DOMAIN r.legs |-> QuoteLeg(r, r.legs[k]).fee]
           priced == Priced(quotes, payout, reserves)
<1>1. n \in Nat /\ DOMAIN r.legs = 1 .. n
  BY DEF IsRequest
<1>2. /\ \A i \in DOMAIN r.legs : LegReason(r, r.legs[i]) = "none"
      /\ e = Judged(priced, r.minEdge)
  BY DEF Qualify, Rejected
<1>3. ~ NetEdge(priced) <= 0 /\ e = priced
  <2>1. r.minEdge = 0
    BY DEF IsRequest
  <2>2. CASE NetEdge(priced) <= 0
    <3>1. e = [priced EXCEPT !.accepted = FALSE, !.reason = "nonpositive_net_edge"]
      BY <1>2, <2>1, <2>2 DEF Judged
    <3>2. e.accepted = FALSE
      BY <3>1 DEF Priced
    <3> QED BY <3>2
  <2>3. CASE ~ NetEdge(priced) <= 0
    BY <1>2, <2>1, <2>3 DEF Judged
  <2> QED BY <2>2, <2>3
<1>4. /\ e.legs = quotes /\ e.payout = payout /\ e.reserves = reserves
      /\ e.acquisition = QuantizeCost(SumOver(costs)) /\ e.fees = SumOver(fees)
  <2>1. DOMAIN quotes = DOMAIN r.legs
    OBVIOUS
  <2>2. [k \in DOMAIN quotes |-> quotes[k].cost] = costs
    OBVIOUS
  <2>3. [k \in DOMAIN quotes |-> quotes[k].fee] = fees
    OBVIOUS
  <2> HIDE DEF quotes, costs, fees
  <2>4. priced = [accepted |-> TRUE, reason |-> "none", legs |-> quotes,
                  acquisition |-> QuantizeCost(SumOver(costs)), fees |-> SumOver(fees),
                  reserves |-> reserves, payout |-> payout]
    BY <2>2, <2>3 DEF Priced
  <2> HIDE DEF priced
  <2> QED BY <1>3, <2>4
<1>5. ASSUME NEW i \in DOMAIN r.legs
      PROVE  QuoteLeg(r, r.legs[i]).cost \in Int /\ QuoteLeg(r, r.legs[i]).fee \in Int
  BY <1>2, QuoteIs
<1>6. costs \in [1 .. n -> Int] /\ fees \in [1 .. n -> Int]
  BY <1>1, <1>5
<1> HIDE DEF costs, fees, n
<1>7. SumOver(costs) \in Int
  <2>1. PICK run \in [0 .. n -> Int] : SumOver(costs) = run[n]
    BY <1>1, <1>6, SumRuns
  <2> QED BY <1>1, <2>1
<1>8. SumOver(fees) \in Int
  <2>1. PICK run \in [0 .. n -> Int] : SumOver(fees) = run[n]
    BY <1>1, <1>6, SumRuns
  <2> QED BY <1>1, <2>1
<1>9. e.acquisition \in Int /\ e.fees \in Int
  BY <1>4, <1>7, <1>8, CostRoundsUp
<1> HIDE DEF priced, quotes
<1>10. NetEdge(e) > 0
  BY <1>3, <1>4, <1>9 DEF NetEdge
<1> QED BY <1>2, <1>4, <1>9, <1>10 DEF quotes, costs, fees

-----------------------------------------------------------------------------
(* The invariant.  Every state of a registered partition promises a dollar, *)
(* and has a leg that pays but in a hole; an implication's table is an approved one; what is  *)
(* asked is a request about the legs; and what is evaluated is still what   *)
(* evaluation answers, for the request has not changed since.               *)

Registered ==
  /\ Len(legs) \in Nat /\ DOMAIN legs = 1 .. Len(legs)
  /\ IF Partition
     THEN /\ Apart(legs) /\ \A i \in DOMAIN legs : legs[i].side = "yes"
          /\ table # {}
          /\ \A row \in table : row.payout = Dollar /\ (~ row.hole => Paying(legs, row.yes) # {})
     ELSE table \in Tables

Asked ==
  /\ IsRequest(request) /\ request.legs = legs
  /\ IF Partition THEN DOMAIN request.books = {legs[i].ticker : i \in DOMAIN legs}
                  ELSE request.reserve = 0

Answer == IF Partition THEN EvaluateBasket(request) ELSE EvaluateImplication(request, table)

Fill == [requested : Int, filled : Int, cost : Int]
Attempt(i, vanished) ==
  FillOf(AskLevels(request.books[legs[i].ticker], legs[i].side), request.quantity, vanished)

Attempted ==
  /\ fills \in Seq(Fill) /\ Len(fills) <= Len(legs)
  /\ \A i \in 1 .. Len(fills) : \E vanished \in BOOLEAN : fills[i] = Attempt(i, vanished)

PricingInv ==
  /\ phase \in {"listed", "registered", "asked", "evaluated", "acquiring", "closed"}
  /\ phase = "listed" => event \in Events
  /\ phase # "listed" => Registered
  /\ phase \in {"asked", "evaluated", "acquiring", "closed"} => Asked
  /\ phase \in {"listed", "registered", "asked"} => ~ evaluation.accepted
  /\ phase \in {"evaluated", "acquiring", "closed"} => evaluation = Answer
  /\ phase \in {"acquiring", "closed"} => Partition /\ evaluation.accepted /\ Attempted
  /\ phase \in {"listed", "registered", "asked", "evaluated"} => fills = <<>>
  /\ phase = "closed" => Len(fills) = Len(legs)

\* What discovery lets through is registered with states that each have a leg that pays.
LEMMA RegisterKeepsInv ==
  ASSUME PricingInv, Register PROVE PricingInv'
<1>1. event \in Events /\ Candidate(event) /\ phase = "listed"
  BY DEF Register, PricingInv
<1> DEFINE markets == Active(event)
<1>2. PICK n \in Nat : /\ DOMAIN markets = 1 .. n /\ \A i \in 1 .. n : HasStrikes(markets[i])
                       /\ Apart(markets)
  BY <1>1, ActiveMarkets
<1>3. MayPropose(ClassifyEvent(event.exclusive, markets))
      /\ (CoverageIsCheckable(ClassifyEvent(event.exclusive, markets))
            => CheckIntegerCoverage(markets))
  BY <1>1 DEF Candidate
<1> HIDE DEF markets
<1>4. ClassifyEvent(event.exclusive, markets) = ClassifyEvent(TRUE, markets)
      /\ ~ Len(markets) < MinOutcomes
  BY <1>3 DEF MayPropose, ClassifyEvent
<1> DEFINE bought == YesLegs(markets)
<1>5. /\ DOMAIN bought = 1 .. n
      /\ \A i \in 1 .. n : bought[i].ticker = markets[i].ticker /\ bought[i].side = "yes"
  BY <1>2 DEF YesLegs
<1>6. bought = [i \in 1 .. n |-> bought[i]]
  BY <1>2 DEF YesLegs
<1>7. Len(bought) = n
  <2> HIDE DEF bought
  <2> QED BY <1>2, <1>6
<1> HIDE DEF bought
<1>8. bought # ImplicationLegs
  <2>1. SUFFICES ASSUME bought = ImplicationLegs PROVE FALSE
    OBVIOUS
  <2>2. DOMAIN bought = 1 .. 2 /\ bought[1].side = "no"
    BY <2>1 DEF ImplicationLegs
  <2>3. 1 \in 1 .. n
    BY <1>5, <2>2
  <2> QED BY <1>5, <2>2, <2>3
<1>9. ASSUME NEW row \in States(markets)
      PROVE  row.payout = Dollar /\ (~ row.hole => Paying(bought, row.yes) # {})
  <2>1. SUFFICES ASSUME ~ row.hole PROVE \E i \in 1 .. n : markets[i].ticker \in row.yes
    <3>1. row.payout = Dollar
      <4>1. CASE CoverageIsCheckable(ClassifyEvent(TRUE, markets))
        <5>1. \E v \in Values : row.payout = Dollar /\ row.hole = InHole(markets, v)
          BY <4>1 DEF States
        <5> QED BY <5>1
      <4>2. CASE ~ CoverageIsCheckable(ClassifyEvent(TRUE, markets))
        <5>1. \E i \in DOMAIN markets : row.payout = Dollar /\ row.yes = {markets[i].ticker}
          BY <4>2 DEF States
        <5> QED BY <5>1
      <4> QED BY <4>1, <4>2
    <3>2. ASSUME NEW i \in 1 .. n, markets[i].ticker \in row.yes PROVE Paying(bought, row.yes) # {}
      <4>1. i \in Paying(bought, row.yes)
        BY <1>5, <3>2 DEF Paying
      <4> QED BY <4>1
    <3> QED BY <3>1, <3>2
  <2>2. CASE CoverageIsCheckable(ClassifyEvent(TRUE, markets))
    <3>1. PICK v \in Values :
            /\ row.yes = {markets[i].ticker : i \in {k \in DOMAIN markets : Resolves(markets[k], v)}}
            /\ row.hole = InHole(markets, v)
      BY <2>2 DEF States
    <3>2. CheckIntegerCoverage(markets) /\ v \in Int /\ ~ InHole(markets, v)
      BY <1>3, <1>4, <2>1, <2>2, <3>1, PricingConstants
    <3>3. \E i \in DOMAIN markets : Resolves(markets[i], v)
      BY <1>2, <3>2, CoverageResolves
    <3> QED BY <1>2, <3>1, <3>3
  <2>3. CASE ~ CoverageIsCheckable(ClassifyEvent(TRUE, markets))
    <3>1. PICK i \in DOMAIN markets : row.yes = {markets[i].ticker}
      BY <2>3 DEF States
    <3> QED BY <1>2, <3>1
  <2> QED BY <2>2, <2>3
<1>10. /\ phase' = "registered" /\ legs' = bought /\ table' = States(markets)
       /\ UNCHANGED <<request, evaluation, fills>>
  BY DEF Register, markets, bought
<1>11. Apart(bought)
  BY <1>2, <1>5 DEF Apart
<1>12. States(markets) # {}
  <2>1. CASE CoverageIsCheckable(ClassifyEvent(TRUE, markets))
    <3>1. PICK v \in Values : TRUE
      BY PricingConstants
    <3> DEFINE state(w) ==
                 [yes |-> {markets[i].ticker : i \in {k \in DOMAIN markets : Resolves(markets[k], w)}},
                  payout |-> Dollar, hole |-> InHole(markets, w)]
    <3>2. States(markets) = {state(w) : w \in Values}
      BY <2>1 DEF States
    <3> HIDE DEF state
    <3>3. state(v) \in States(markets)
      BY <3>2
    <3> QED BY <3>3
  <2>2. CASE ~ CoverageIsCheckable(ClassifyEvent(TRUE, markets))
    <3>1. 1 \in DOMAIN markets
      <4>1. markets = [i \in 1 .. n |-> markets[i]]
        <5>1. markets = [i \in DOMAIN markets |-> markets[i]]
          BY DEF markets, Active
        <5> QED BY <1>2, <5>1
      <4>2. Len(markets) = n
        BY <1>2, <4>1
      <4> QED BY <1>2, <1>4, <4>2 DEF MinOutcomes
    <3>2. [yes |-> {markets[1].ticker}, payout |-> Dollar, hole |-> FALSE] \in States(markets)
      BY <2>2, <3>1 DEF States
    <3> QED BY <3>2
  <2> QED BY <2>1, <2>2
<1>13. Registered'
  BY <1>5, <1>7, <1>8, <1>9, <1>10, <1>11, <1>12 DEF Registered, Partition
<1> QED BY <1>1, <1>10, <1>13 DEF PricingInv

LEMMA RegisterImplicationKeepsInv ==
  ASSUME PricingInv, RegisterImplication PROVE PricingInv'
<1>1. /\ phase = "listed" /\ phase' = "registered" /\ legs' = ImplicationLegs /\ table' \in Tables
      /\ UNCHANGED <<request, evaluation, fills>>
  BY DEF RegisterImplication
<1>2. Len(ImplicationLegs) = 2 /\ DOMAIN ImplicationLegs = 1 .. 2
  BY DEF ImplicationLegs
<1>3. Registered'
  BY <1>1, <1>2 DEF Registered, Partition
<1> QED BY <1>1, <1>3 DEF PricingInv

LEMMA AskKeepsInv ==
  ASSUME PricingInv, Ask PROVE PricingInv'
<1>1. phase = "registered" /\ phase' = "asked" /\ UNCHANGED <<event, legs, table, evaluation, fills>>
  BY DEF Ask
<1>2. PICK ages \in Ages, quantity \in Quantities, verifiedFees \in BOOLEAN,
           reserve \in IF Partition THEN Reserves ELSE {0},
           open \in LET tickers == {legs[i].ticker : i \in DOMAIN legs}
                    IN  IF Partition THEN {tickers} ELSE SUBSET tickers :
        \E books \in [open -> Books] :
          request' = [legs |-> legs, books |-> books, ages |-> ages, quantity |-> quantity,
                      reserve |-> reserve, verifiedFees |-> verifiedFees, minEdge |-> 0,
                      maxAge |-> MaxAge]
  BY DEF Ask
<1>3. PICK books \in [open -> Books] :
        request' = [legs |-> legs, books |-> books, ages |-> ages, quantity |-> quantity,
                    reserve |-> reserve, verifiedFees |-> verifiedFees, minEdge |-> 0,
                    maxAge |-> MaxAge]
  BY <1>2
<1>4. quantity \in Nat /\ reserve \in Nat
  <2>1. Quantities \subseteq Nat /\ Reserves \subseteq Nat
    BY PricingConstants
  <2>2. reserve \in Reserves \/ reserve = 0
    OBVIOUS
  <2> QED BY <2>1, <2>2
<1>5. /\ request'.legs = legs /\ request'.books = books /\ request'.quantity = quantity
      /\ request'.reserve = reserve /\ request'.minEdge = 0
  BY <1>3
<1>6. Registered /\ Registered'
  BY <1>1 DEF PricingInv, Registered, Partition
<1>7. IsRequest(request')
  <2>1. \A t \in DOMAIN books : IsBook(books[t])
    BY PricingConstants DEF IsBook
  <2> QED BY <1>4, <1>5, <1>6, <2>1 DEF IsRequest, Registered
<1>8. IF Partition THEN DOMAIN books = {legs[i].ticker : i \in DOMAIN legs} ELSE reserve = 0
  OBVIOUS
<1>9. Asked'
  BY <1>1, <1>5, <1>7, <1>8 DEF Asked, Partition
<1> QED BY <1>1, <1>6, <1>9 DEF PricingInv

LEMMA EvaluateKeepsInv ==
  ASSUME PricingInv, Evaluate PROVE PricingInv'
<1>1. phase = "asked" /\ phase' = "evaluated" /\ UNCHANGED <<event, legs, table, request, fills>>
  BY DEF Evaluate
<1>2. evaluation' = Answer /\ Answer' = Answer
  BY <1>1 DEF Evaluate, Answer, Partition
<1>3. Registered' /\ Asked'
  BY <1>1 DEF PricingInv, Registered, Partition, Asked
<1> QED BY <1>1, <1>2, <1>3 DEF PricingInv

\* What it means that evaluation accepted.
LEMMA AcceptedIs ==
  ASSUME PricingInv, evaluation.accepted
  PROVE  /\ Registered /\ Asked /\ request.quantity \in Nat \ {0}
         /\ \A i \in DOMAIN legs : LegReason(request, legs[i]) = "none"
         /\ evaluation.legs = [i \in DOMAIN legs |-> QuoteLeg(request, legs[i])]
         /\ evaluation.acquisition
              = QuantizeCost(SumOver([k \in DOMAIN legs |-> QuoteLeg(request, legs[k]).cost]))
         /\ evaluation.fees = SumOver([k \in DOMAIN legs |-> QuoteLeg(request, legs[k]).fee])
         /\ evaluation.acquisition \in Int /\ evaluation.fees \in Int
         /\ evaluation.reserves \in Int /\ evaluation.reserves >= 0
         /\ NetEdge(evaluation) > 0
         /\ evaluation.payout \in Int
         /\ Partition => /\ Len(legs) >= 2
                         /\ evaluation.payout = QuantizeProceeds(Dollar * request.quantity)
                         /\ evaluation.reserves
                              = QuantizeCost(request.reserve * request.quantity)
         /\ ~ Partition => /\ table # {} /\ MinimumPayout(table) \in Int
                           /\ evaluation.reserves = 0
                           /\ \A row \in table : MinimumPayout(table) <= row.payout
                           /\ evaluation.payout
                                = QuantizeProceeds(MinimumPayout(table) * request.quantity)
<1>1. /\ phase \in {"evaluated", "acquiring", "closed"} /\ evaluation = Answer
      /\ Registered /\ Asked
  BY DEF PricingInv
<1>2. IsRequest(request) /\ request.legs = legs
  BY <1>1 DEF Asked
<1>3. request.quantity \in Nat /\ request.reserve \in Nat
  BY <1>2 DEF IsRequest
<1>4. CASE Partition
  <2> DEFINE payout == QuantizeProceeds(Dollar * request.quantity)
             reserves == QuantizeCost(request.reserve * request.quantity)
  <2>1. evaluation = EvaluateBasket(request)
    BY <1>1, <1>4 DEF Answer
  <2>2. /\ ~ request.quantity <= 0 /\ ~ Len(request.legs) < 2
        /\ evaluation = Qualify(request, payout, reserves)
    BY <2>1 DEF EvaluateBasket, Rejected
  <2>3. payout \in Int
    <3>1. Dollar * request.quantity \in Int
      BY <1>3, DollarType
    <3> QED BY <3>1, ProceedsRoundDown
  <2>4. reserves \in Int /\ reserves >= 0
    <3>1. request.reserve * request.quantity \in Nat
      BY <1>3
    <3>2. reserves \in Int /\ reserves >= request.reserve * request.quantity
      BY <3>1, CostRoundsUp
    <3> QED BY <3>1, <3>2
  <2>5. request.quantity # 0
    BY <2>2
  <2>6. PICK p, r, q, l, e : /\ p = payout /\ r = reserves /\ q = request /\ l = legs
                             /\ e = evaluation
    OBVIOUS
  <2> HIDE DEF payout, reserves
  <2>7. /\ \A i \in DOMAIN q.legs : LegReason(q, q.legs[i]) = "none"
        /\ e.legs = [i \in DOMAIN q.legs |-> QuoteLeg(q, q.legs[i])]
        /\ e.acquisition = QuantizeCost(SumOver([k \in DOMAIN q.legs |-> QuoteLeg(q, q.legs[k]).cost]))
        /\ e.fees = SumOver([k \in DOMAIN q.legs |-> QuoteLeg(q, q.legs[k]).fee])
        /\ e.acquisition \in Int /\ e.fees \in Int
        /\ e.payout = p /\ e.reserves = r
        /\ NetEdge(e) > 0
    <3>1. IsRequest(q) /\ q.quantity # 0 /\ p \in Int /\ r \in Int
      BY <1>2, <2>3, <2>4, <2>5, <2>6
    <3>2. e = Qualify(q, p, r) /\ e.accepted
      BY <2>2, <2>6
    <3> QED BY <3>1, <3>2, Qualified
  <2>8. q = request /\ q.legs = legs /\ e = evaluation
    BY <1>2, <2>6
  <2>9. evaluation.payout = payout /\ evaluation.reserves = reserves
    BY <2>6, <2>7
  <2>10. Len(legs) >= 2
    BY <1>1, <1>2, <2>2 DEF Registered
  <2> QED BY <1>1, <1>3, <1>4, <2>3, <2>4, <2>5, <2>7, <2>8, <2>9, <2>10 DEF payout, reserves
<1>5. CASE ~ Partition
  <2> DEFINE payout == QuantizeProceeds(MinimumPayout(table) * request.quantity)
  <2>1. evaluation = EvaluateImplication(request, table)
    BY <1>1, <1>5 DEF Answer
  <2>2. /\ ~ request.quantity <= 0 /\ table # {}
        /\ evaluation = Qualify(request, payout, 0)
    BY <2>1 DEF EvaluateImplication, Rejected
  <2>3. MinimumPayout(table) \in Int /\ \A row \in table : MinimumPayout(table) <= row.payout
    <3> DEFINE payouts == {row.payout : row \in table}
    <3>1. IsFiniteSet(table) /\ \A row \in table : row.payout \in Nat
      BY <1>1, <1>5, PricingConstants DEF Registered
    <3>2. payouts \in SUBSET Int /\ payouts # {}
      BY <2>2, <3>1
    <3>3. IsFiniteSet(payouts)
      <4>1. PICK rows : rows = table
        OBVIOUS
      <4> DEFINE paid == [row \in rows |-> row.payout]
                 all == {row.payout : row \in rows}
      <4>2. paid \in Surjection(rows, all)
        BY DEF Surjection
      <4>3. IsFiniteSet(rows)
        BY <3>1, <4>1
      <4> HIDE DEF paid, all
      <4>4. IsFiniteSet(all)
        BY <4>2, <4>3, FS_Surjection
      <4> QED BY <4>1, <4>4 DEF all
    <3>4. PICK S : S = payouts
      OBVIOUS
    <3>5. Min(S) \in S /\ \A y \in S : Min(S) <= y
      <4>1. S \in SUBSET Int /\ IsFiniteSet(S) /\ S # {}
        BY <3>2, <3>3, <3>4
      <4> QED BY <4>1, MinOfIntegers
    <3>6. MinimumPayout(table) = Min(S)
      BY <3>4 DEF MinimumPayout
    <3> QED BY <3>2, <3>4, <3>5, <3>6
  <2>4. payout \in Int
    <3>1. MinimumPayout(table) * request.quantity \in Int
      BY <1>3, <2>3
    <3> QED BY <3>1, ProceedsRoundDown
  <2>5. request.quantity # 0
    BY <2>2
  <2>6. PICK p, q, e : p = payout /\ q = request /\ e = evaluation
    OBVIOUS
  <2> HIDE DEF payout
  <2>7. /\ \A i \in DOMAIN q.legs : LegReason(q, q.legs[i]) = "none"
        /\ e.legs = [i \in DOMAIN q.legs |-> QuoteLeg(q, q.legs[i])]
        /\ e.acquisition = QuantizeCost(SumOver([k \in DOMAIN q.legs |-> QuoteLeg(q, q.legs[k]).cost]))
        /\ e.fees = SumOver([k \in DOMAIN q.legs |-> QuoteLeg(q, q.legs[k]).fee])
        /\ e.acquisition \in Int /\ e.fees \in Int
        /\ e.payout = p /\ e.reserves = 0
        /\ NetEdge(e) > 0
    <3>1. IsRequest(q) /\ q.quantity # 0 /\ p \in Int /\ 0 \in Int
      BY <1>2, <2>4, <2>5, <2>6
    <3>2. e = Qualify(q, p, 0) /\ e.accepted
      BY <2>2, <2>6
    <3> QED BY <3>1, <3>2, Qualified
  <2>8. q = request /\ q.legs = legs /\ e = evaluation
    BY <1>2, <2>6
  <2>9. evaluation.payout = payout /\ evaluation.reserves = 0
    BY <2>6, <2>7
  <2> QED BY <1>1, <1>3, <1>5, <2>2, <2>3, <2>4, <2>5, <2>7, <2>8, <2>9 DEF payout
<1> QED BY <1>4, <1>5

-----------------------------------------------------------------------------
(* Settlement.                                                             *)

\* The legs that pay of what was evaluated are those of what was registered, finitely many.
LEMMA PayingLegs ==
  ASSUME PricingInv, evaluation.accepted, NEW yes
  PROVE  /\ Paying(evaluation.legs, yes) = Paying(legs, yes)
         /\ IsFiniteSet(Paying(legs, yes)) /\ Cardinality(Paying(legs, yes)) \in Nat
<1>1. /\ Registered /\ Asked /\ request.quantity \in Nat \ {0}
      /\ \A i \in DOMAIN legs : LegReason(request, legs[i]) = "none"
      /\ evaluation.legs = [i \in DOMAIN legs |-> QuoteLeg(request, legs[i])]
  BY AcceptedIs
<1>2. ASSUME NEW i \in DOMAIN legs
      PROVE  /\ evaluation.legs[i].ticker = legs[i].ticker
             /\ evaluation.legs[i].side = legs[i].side
  <2>1. PICK r, leg : r = request /\ leg = legs[i]
    OBVIOUS
  <2>2. QuoteLeg(r, leg).ticker = leg.ticker /\ QuoteLeg(r, leg).side = leg.side
    <3>1. IsRequest(r) /\ r.quantity # 0 /\ LegReason(r, leg) = "none"
      BY <1>1, <2>1 DEF Asked
    <3> QED BY <3>1, QuoteIs
  <2> QED BY <1>1, <2>1, <2>2
<1>3. DOMAIN evaluation.legs = DOMAIN legs
  BY <1>1
<1>4. Paying(evaluation.legs, yes) = Paying(legs, yes)
  BY <1>2, <1>3 DEF Paying
<1>5. PICK n, paying : n \in Nat /\ n = Len(legs) /\ paying = Paying(legs, yes)
  BY <1>1 DEF Registered
<1>6. paying \in SUBSET (1 .. n)
  BY <1>1, <1>5 DEF Paying, Registered
<1>7. IsFiniteSet(paying) /\ Cardinality(paying) \in Nat
  <2>1. IsFiniteSet(1 .. n)
    <3>1. n \in Int
      BY <1>5
    <3> QED BY <3>1, FS_Interval
  <2>2. IsFiniteSet(paying)
    BY <1>6, <2>1, FS_Subset
  <2> QED BY <2>2, FS_CardinalityType
<1> QED BY <1>4, <1>5, <1>7

\* In every state outside a hole the legs pay at least what was promised.
LEMMA PayoutIsPaid ==
  ASSUME PricingInv, evaluation.accepted, NEW row \in table, ~ row.hole
  PROVE  Settled(row.yes) \in Int /\ evaluation.payout <= Settled(row.yes)
<1>1. /\ Registered /\ request.quantity \in Nat \ {0}
      /\ Partition => evaluation.payout = QuantizeProceeds(Dollar * request.quantity)
      /\ ~ Partition => /\ MinimumPayout(table) \in Int
                        /\ MinimumPayout(table) <= row.payout
                        /\ evaluation.payout
                             = QuantizeProceeds(MinimumPayout(table) * request.quantity)
  BY AcceptedIs
<1>2. PICK k \in Nat, q \in Nat \ {0} : k = Cardinality(Paying(legs, row.yes)) /\ q = request.quantity
  BY <1>1, PayingLegs
<1>3. Settled(row.yes) = Dollar * q * k
  BY <1>2, PayingLegs DEF Settled
<1>4. Dollar \in Nat /\ Dollar * q \in Nat /\ Dollar * q * k \in Nat /\ Dollar * k \in Nat
  BY DollarType
<1>5. CASE Partition
  <2>1. k # 0
    <3>1. Paying(legs, row.yes) # {}
      BY <1>1, <1>5 DEF Registered
    <3>2. PICK paying : paying = Paying(legs, row.yes)
      OBVIOUS
    <3>3. IsFiniteSet(paying) /\ paying # {} /\ k = Cardinality(paying)
      BY <1>2, <3>1, <3>2, PayingLegs
    <3>4. Cardinality(paying) # 0
      BY <3>3, FS_EmptySet
    <3> QED BY <3>3, <3>4
  <2>2. Dollar * q <= Dollar * q * k
    <3>1. PICK d \in Nat : d = Dollar * q
      BY <1>4
    <3>2. d <= d * k
      BY <2>1
    <3> QED BY <3>1, <3>2
  <2>3. evaluation.payout \in Int /\ evaluation.payout <= Dollar * q
    BY <1>1, <1>2, <1>4, <1>5, ProceedsRoundDown
  <2> QED BY <1>3, <1>4, <2>2, <2>3
<1>6. CASE ~ Partition
  <2>1. row.payout \in Nat /\ row.payout <= Dollar * k
    <3>1. table \in Tables /\ legs = ImplicationLegs
      BY <1>1, <1>6 DEF Registered, Partition
    <3> QED BY <1>2, <3>1, PricingConstants
  <2>2. PICK least \in Int : least = MinimumPayout(table)
    BY <1>1, <1>6
  <2>3. least <= Dollar * k
    BY <1>1, <1>4, <1>6, <2>1, <2>2
  <2>4. least * q <= (Dollar * k) * q
    BY <1>4, <2>3
  <2>5. (Dollar * k) * q = Dollar * q * k
    BY DollarType
  <2>6. least * q \in Int
    OBVIOUS
  <2>7. evaluation.payout \in Int /\ evaluation.payout <= least * q
    BY <1>1, <1>2, <1>6, <2>2, <2>6, ProceedsRoundDown
  <2> QED BY <1>3, <1>4, <2>4, <2>5, <2>6, <2>7
<1> QED BY <1>5, <1>6

LEMMA InvImpliesNoStateLoses ==
  ASSUME PricingInv PROVE NoStateLoses
<1>1. SUFFICES ASSUME evaluation.accepted, NEW row \in table, ~ row.hole
               PROVE  /\ Settled(row.yes)
                            - (evaluation.acquisition + evaluation.fees + evaluation.reserves)
                           >= NetEdge(evaluation)
                      /\ NetEdge(evaluation) > request.minEdge
  BY DEF NoStateLoses
<1>2. Settled(row.yes) \in Int /\ evaluation.payout <= Settled(row.yes)
  BY <1>1, PayoutIsPaid
<1>3. /\ evaluation.payout \in Int /\ evaluation.acquisition \in Int /\ evaluation.fees \in Int
      /\ evaluation.reserves \in Int /\ NetEdge(evaluation) > 0 /\ Asked
  BY <1>1, AcceptedIs
<1>4. request.minEdge = 0
  BY <1>3 DEF Asked, IsRequest
<1> QED BY <1>2, <1>3, <1>4 DEF NetEdge

-----------------------------------------------------------------------------
(* The attempt.                                                            *)

\* Without its cheapest offer a ladder is still one.
LEMMA TailLadder ==
  ASSUME NEW levels, IsLadder(levels), levels # <<>>
  PROVE  /\ IsLadder(Tail(levels)) /\ Len(Tail(levels)) = Len(levels) - 1
         /\ \A i \in 1 .. Len(levels) - 1 : Tail(levels)[i] = levels[i + 1]
<1>1. levels \in Seq(Offer) /\ Len(levels) \in Nat /\ Len(levels) # 0
  BY DEF IsLadder
<1>2. /\ Tail(levels) \in Seq(Offer) /\ Len(Tail(levels)) = Len(levels) - 1
      /\ \A i \in 1 .. Len(levels) - 1 : Tail(levels)[i] = levels[i + 1]
  BY <1>1
<1>3. ASSUME NEW i \in 1 .. Len(Tail(levels)), NEW j \in 1 .. Len(Tail(levels)), i < j
      PROVE  Tail(levels)[i].price <= Tail(levels)[j].price
  <2>1. i \in 1 .. Len(levels) - 1 /\ j \in 1 .. Len(levels) - 1
    BY <1>2
  <2>2. /\ i + 1 \in 1 .. Len(levels) /\ j + 1 \in 1 .. Len(levels) /\ i + 1 < j + 1
    BY <1>1, <1>3, <2>1
  <2>3. levels[i + 1].price <= levels[j + 1].price
    BY <2>2 DEF IsLadder
  <2> QED BY <1>2, <2>1, <2>3
<1> QED BY <1>2, <1>3 DEF IsLadder

\* What an attempt at a leg comes to: a walk of its offers, or of all but the cheapest.
LEMMA AttemptIs ==
  ASSUME PricingInv, evaluation.accepted, NEW i \in DOMAIN legs, NEW vanished \in BOOLEAN
  PROVE  LET offers == AskLevels(request.books[legs[i].ticker], legs[i].side)
             left == IF vanished /\ offers # <<>> THEN Tail(offers) ELSE offers
             stand == Walked(left, request.quantity)
         IN  /\ IsLadder(offers) /\ IsLadder(left) /\ stand \in Standing
             /\ Attempt(i, vanished)
                  = [requested |-> request.quantity, filled |-> request.quantity - stand.remaining,
                     cost |-> QuantizeCost(stand.cost)]
<1>1. PICK q, r, leg : q = request.quantity /\ r = request /\ leg = legs[i]
  OBVIOUS
<1> DEFINE offers == AskLevels(r.books[leg.ticker], leg.side)
           left == IF vanished /\ offers # <<>> THEN Tail(offers) ELSE offers
<1>2. q \in Nat \ {0} /\ IsRequest(r) /\ r.quantity # 0 /\ LegReason(r, leg) = "none"
  BY <1>1, AcceptedIs DEF Asked
<1>3. IsLadder(offers)
  BY <1>2, QuoteIs
<1>4. IsLadder(left)
  BY <1>3, TailLadder
<1>5. Attempt(i, vanished) = WalkLevels(left, q)
  BY <1>1 DEF Attempt, FillOf
<1> HIDE DEF left
<1>6. /\ Walked(left, q) \in Standing
      /\ WalkLevels(left, q) = [requested |-> q, filled |-> q - Walked(left, q).remaining,
                                cost |-> QuantizeCost(Walked(left, q).cost)]
  BY <1>2, <1>4, WalkIs
<1> QED BY <1>1, <1>3, <1>4, <1>5, <1>6 DEF left

LEMMA AttemptType ==
  ASSUME PricingInv, evaluation.accepted, NEW i \in DOMAIN legs, NEW vanished \in BOOLEAN
  PROVE  Attempt(i, vanished) \in Fill
<1>1. PICK stand, q : /\ stand \in Standing /\ q = request.quantity
                      /\ Attempt(i, vanished)
                           = [requested |-> q, filled |-> q - stand.remaining,
                              cost |-> QuantizeCost(stand.cost)]
  BY AttemptIs
<1>2. q \in Nat
  BY <1>1, AcceptedIs
<1>3. q - stand.remaining \in Int /\ stand.cost \in Int
  BY <1>1, <1>2 DEF Standing
<1>4. QuantizeCost(stand.cost) \in Int
  BY <1>3, CostRoundsUp
<1> QED BY <1>1, <1>2, <1>3, <1>4 DEF Fill

LEMMA AttemptLegKeepsInv ==
  ASSUME PricingInv, AttemptLeg PROVE PricingInv'
<1>1. /\ phase \in {"evaluated", "acquiring"} /\ Partition /\ evaluation.accepted
      /\ Len(fills) < Len(legs) /\ phase' = "acquiring"
      /\ UNCHANGED <<event, legs, table, request, evaluation>>
  BY DEF AttemptLeg
<1>2. PICK vanished \in BOOLEAN : fills' = Append(fills, Attempt(Len(fills) + 1, vanished))
  BY DEF AttemptLeg, Attempt
<1>3. /\ Registered /\ Asked /\ evaluation = Answer
      /\ Registered' /\ Asked' /\ evaluation' = Answer'
  BY <1>1 DEF PricingInv, Registered, Partition, Asked, Answer
<1>4. Attempted
  <2>1. CASE phase = "evaluated"
    <3>1. fills = <<>>
      BY <2>1 DEF PricingInv
    <3> QED BY <1>3, <3>1 DEF Attempted, Registered
  <2>2. CASE phase = "acquiring"
    BY <2>2 DEF PricingInv
  <2> QED BY <1>1, <2>1, <2>2
<1> DEFINE n == Len(fills)
           new == Attempt(n + 1, vanished)
<1>5. n \in Nat /\ n + 1 \in DOMAIN legs /\ n + 1 <= Len(legs)
  BY <1>1, <1>3, <1>4 DEF Attempted, Registered
<1>6. new \in Fill
  BY <1>1, <1>5, AttemptType
<1>7. /\ fills' \in Seq(Fill) /\ Len(fills') = n + 1
      /\ \A i \in 1 .. n : fills'[i] = fills[i]
      /\ fills'[n + 1] = new
  <2>1. fills \in Seq(Fill) /\ fills' = Append(fills, new)
    BY <1>2, <1>4 DEF Attempted
  <2> HIDE DEF new
  <2> QED BY <1>6, <2>1
<1>8. ASSUME NEW i \in Nat, NEW v \in BOOLEAN PROVE Attempt(i, v)' = Attempt(i, v)
  BY <1>1 DEF Attempt
<1>9. ASSUME NEW i \in 1 .. n + 1 PROVE \E v \in BOOLEAN : fills'[i] = Attempt(i, v)'
  <2>1. CASE i \in 1 .. n
    <3>1. PICK v \in BOOLEAN : fills[i] = Attempt(i, v)
      BY <1>4, <2>1 DEF Attempted
    <3> QED BY <1>7, <1>8, <2>1, <3>1
  <2>2. CASE i = n + 1
    <3>1. fills'[i] = Attempt(i, vanished)
      BY <1>7, <2>2
    <3> QED BY <1>8, <3>1
  <2>3. i \in 1 .. n \/ i = n + 1
    BY <1>5
  <2> QED BY <2>1, <2>2, <2>3
<1>10. Len(fills') <= Len(legs')
  BY <1>1, <1>5, <1>7
<1>11. Attempted'
  BY <1>7, <1>9, <1>10 DEF Attempted
<1>12. Partition' /\ evaluation'.accepted
  BY <1>1 DEF Partition
<1> QED BY <1>1, <1>3, <1>11, <1>12 DEF PricingInv

LEMMA FinishKeepsInv ==
  ASSUME PricingInv, Finish PROVE PricingInv'
<1>1. /\ phase = "acquiring" /\ Len(fills) = Len(legs) /\ phase' = "closed"
      /\ UNCHANGED <<event, legs, table, request, evaluation, fills>>
  BY DEF Finish
<1>2. Registered' /\ Asked' /\ Attempted' /\ evaluation' = Answer' /\ Partition'
  BY <1>1 DEF PricingInv, Registered, Partition, Asked, Answer, Attempted, Attempt
<1> QED BY <1>1, <1>2 DEF PricingInv

(* The invariant holds, for any events, books and tables that               *)
(* PricingConstants admits: evaluation's answer is still the answer to what *)
(* was asked when the last leg has been attempted.                          *)
THEOREM Invariance == Spec => []PricingInv
<1>1. Init => PricingInv
  BY DEF Init, PricingInv, Rejected
<1>2. PricingInv /\ [Next]_vars => PricingInv'
  <2> SUFFICES ASSUME PricingInv, [Next]_vars PROVE PricingInv'
    OBVIOUS
  <2>1. CASE UNCHANGED vars
    <3>1. UNCHANGED <<phase, event, legs, table, request, evaluation, fills>>
      BY <2>1 DEF vars
    <3>2. Registered' = Registered /\ Asked' = Asked /\ Partition' = Partition
      BY <3>1 DEF Registered, Partition, Asked
    <3>3. Answer' = Answer
      BY <3>1 DEF Answer, Partition
    <3>4. Attempted' = Attempted
      BY <3>1 DEF Attempted, Attempt
    <3> QED BY <3>1, <3>2, <3>3, <3>4 DEF PricingInv
  <2>2. CASE Register
    BY <2>2, RegisterKeepsInv
  <2>3. CASE RegisterImplication
    BY <2>3, RegisterImplicationKeepsInv
  <2>4. CASE Ask
    BY <2>4, AskKeepsInv
  <2>5. CASE Evaluate
    BY <2>5, EvaluateKeepsInv
  <2>6. CASE AttemptLeg
    BY <2>6, AttemptLegKeepsInv
  <2>7. CASE Finish
    BY <2>7, FinishKeepsInv
  <2> QED BY <2>1, <2>2, <2>3, <2>4, <2>5, <2>6, <2>7 DEF Next
<1> QED BY <1>1, <1>2, PTL DEF Spec

(* Whoever buys what evaluation accepts gets at least the reported edge     *)
(* back in every state the relationship allows, and it is a profit, at any  *)
(* strikes, unless the value falls between two buckets, where by            *)
(* CoveredLeavesNoInteger no whole value does if the caps are whole         *)
(* (basket.py: the payout is the minimum over states).                      *)
THEOREM NoSettlementLoses == Spec => []NoStateLoses
<1>1. PricingInv => NoStateLoses
  BY InvImpliesNoStateLoses
<1> QED BY <1>1, Invariance, PTL

-----------------------------------------------------------------------------
(* Being late.  Two walks side by side, one with the cheapest offer gone:   *)
(* what the other one has paid more so far is for contracts it has more.    *)

LEMMA DearerOrAhead ==
  ASSUME NEW w \in Standing, NEW v \in Standing, NEW o \in Offer, NEW price \in Nat,
         price <= o.price, w.remaining <= v.remaining,
         w.cost - v.cost <= (v.remaining - w.remaining) * price
  PROVE  LET x == TakeLevel(w, o)
             y == TakeLevel(v, o)
         IN  /\ x.remaining <= y.remaining
             /\ x.cost - y.cost <= (y.remaining - x.remaining) * o.price
<1>1. PICK a, b, c, d, r, m : /\ a = w.remaining /\ b = v.remaining /\ c = w.cost /\ d = v.cost
                              /\ r = o.price /\ m = o.quantity
  OBVIOUS
<1>2. a \in Nat /\ b \in Nat /\ c \in Nat /\ d \in Nat /\ r \in Nat /\ m \in Nat
  BY <1>1, DollarType DEF Standing, Offer
<1>3. PICK s \in Nat : /\ s <= a /\ s <= m /\ (s = a \/ s = m)
                       /\ TakeLevel(w, o).remaining = a - s /\ TakeLevel(w, o).cost = c + s * r
  BY <1>1, TakeLevelIs
<1>4. PICK t \in Nat : /\ t <= b /\ t <= m /\ (t = b \/ t = m)
                       /\ TakeLevel(v, o).remaining = b - t /\ TakeLevel(v, o).cost = d + t * r
  BY <1>1, TakeLevelIs
<1>5. a <= b /\ price <= r /\ c - d <= (b - a) * price
  BY <1>1
<1>6. a - s <= b - t
  BY <1>2, <1>3, <1>4, <1>5
<1>7. (b - a) * price <= (b - a) * r
  <2>1. PICK k \in Nat : k = b - a
    BY <1>2, <1>5
  <2>2. k * price <= k * r
    BY <1>2, <1>5
  <2> QED BY <2>1, <2>2
<1>8. ((b - t) - (a - s)) * r = (b - a) * r - t * r + s * r
  BY <1>2
<1>9. (b - a) * r \in Int /\ (b - a) * price \in Int /\ t * r \in Int /\ s * r \in Int
  BY <1>2
<1>10. (c + s * r) - (d + t * r) <= ((b - t) - (a - s)) * r
  BY <1>2, <1>5, <1>7, <1>8, <1>9
<1> QED BY <1>1, <1>3, <1>4, <1>6, <1>10

LEMMA LateIsDearer ==
  ASSUME NEW levels, IsLadder(levels), levels # <<>>, NEW quantity \in Nat,
         Walked(levels, quantity).remaining = 0, Walked(Tail(levels), quantity).remaining = 0
  PROVE  Walked(levels, quantity).cost <= Walked(Tail(levels), quantity).cost
<1> DEFINE n == Len(levels)
           left == Tail(levels)
<1>1. /\ IsLadder(left) /\ Len(left) = n - 1
      /\ \A i \in 1 .. n - 1 : left[i] = levels[i + 1]
  BY TailLadder
<1>2. n \in Nat /\ n >= 1 /\ \A i \in 1 .. n : levels[i] \in Offer
  BY DEF IsLadder
<1>3. PICK A : IsRun(levels, quantity, A) /\ Walked(levels, quantity) = A[n]
  BY WalkRuns
<1>4. PICK B : IsRun(left, quantity, B) /\ Walked(left, quantity) = B[n - 1]
  <2> HIDE DEF left, n
  <2> QED BY <1>1, WalkRuns
<1> HIDE DEF left, n
<1>5. /\ A \in [0 .. n -> Standing] /\ A[0] = [remaining |-> quantity, cost |-> 0]
      /\ \A i \in 1 .. n : A[i] = TakeLevel(A[i - 1], levels[i])
  BY <1>3 DEF IsRun, n
<1>6. /\ B \in [0 .. n - 1 -> Standing] /\ B[0] = [remaining |-> quantity, cost |-> 0]
      /\ \A i \in 1 .. n - 1 : B[i] = TakeLevel(B[i - 1], left[i])
  BY <1>1, <1>4 DEF IsRun
<1> DEFINE Behind(i) == /\ A[i].remaining <= B[i - 1].remaining
                        /\ A[i].cost - B[i - 1].cost
                             <= (B[i - 1].remaining - A[i].remaining) * levels[i].price
<1>7. Behind(1)
  <2>1. A[1] = TakeLevel(A[0], levels[1]) /\ A[0] \in Standing /\ levels[1] \in Offer
    BY <1>2, <1>5
  <2>2. A[0].remaining = quantity /\ A[0].cost = 0
    BY <1>5
  <2>3. PICK take \in Nat : /\ take <= A[0].remaining /\ A[1].remaining = A[0].remaining - take
                            /\ A[1].cost = A[0].cost + take * levels[1].price
    BY <2>1, TakeLevelIs
  <2>4. B[1 - 1].remaining = quantity /\ B[1 - 1].cost = 0
    BY <1>6
  <2>5. PICK r \in Nat : r = levels[1].price
    BY <2>1, DollarType DEF Offer
  <2>6. A[1].remaining = quantity - take /\ A[1].cost = take * r /\ take <= quantity
    BY <2>2, <2>3, <2>5
  <2>7. quantity - take <= quantity /\ take * r - 0 <= (quantity - (quantity - take)) * r
    BY <2>6
  <2> QED BY <2>4, <2>5, <2>6, <2>7
<1>8. ASSUME NEW i \in 1 .. n - 1, Behind(i) PROVE Behind(i + 1)
  <2>1. /\ i \in 0 .. n /\ i + 1 \in 1 .. n /\ i \in 1 .. n /\ i - 1 \in 0 .. n - 1
        /\ (i + 1) - 1 = i /\ i < i + 1
    BY <1>2
  <2>2. PICK w, v, o : w = A[i] /\ v = B[i - 1] /\ o = levels[i + 1]
    OBVIOUS
  <2>3. w \in Standing /\ v \in Standing /\ o \in Offer
    BY <1>2, <1>5, <1>6, <2>1, <2>2
  <2>4. A[i + 1] = TakeLevel(w, o)
    BY <1>5, <2>1, <2>2
  <2>5. B[i] = TakeLevel(v, o)
    BY <1>1, <1>6, <2>1, <2>2
  <2>6. PICK price \in Nat : price = levels[i].price
    BY <1>2, <2>1, DollarType DEF Offer
  <2>7. price <= o.price
    BY <2>1, <2>2, <2>6 DEF IsLadder, n
  <2>8. w.remaining <= v.remaining /\ w.cost - v.cost <= (v.remaining - w.remaining) * price
    BY <1>8, <2>2, <2>6
  <2>9. /\ TakeLevel(w, o).remaining <= TakeLevel(v, o).remaining
        /\ TakeLevel(w, o).cost - TakeLevel(v, o).cost
             <= (TakeLevel(v, o).remaining - TakeLevel(w, o).remaining) * o.price
    BY <2>3, <2>7, <2>8, DearerOrAhead
  <2> QED BY <2>1, <2>2, <2>4, <2>5, <2>9
<1>9. Behind(n)
  <2> DEFINE N == {i \in Nat : i + 1 \in 1 .. n => Behind(i + 1)}
  <2> HIDE DEF Behind
  <2>1. 0 \in N
    BY <1>7
  <2>2. ASSUME NEW i \in N PROVE i + 1 \in N
    <3>1. SUFFICES ASSUME (i + 1) + 1 \in 1 .. n PROVE Behind((i + 1) + 1)
      OBVIOUS
    <3>2. i + 1 \in 1 .. n - 1 /\ i + 1 \in 1 .. n
      BY <1>2, <3>1
    <3>3. Behind(i + 1)
      BY <3>2
    <3> QED BY <1>8, <3>2, <3>3
  <2>3. N \in SUBSET Nat
    OBVIOUS
  <2> HIDE DEF N
  <2>4. N = Nat
    BY <2>1, <2>2, <2>3, NaturalsFrom
  <2>5. n - 1 \in Nat /\ (n - 1) + 1 = n /\ n \in 1 .. n
    BY <1>2
  <2>6. n - 1 \in N
    BY <2>4, <2>5
  <2> QED BY <2>5, <2>6 DEF N
<1>10. A[n].remaining = 0 /\ B[n - 1].remaining = 0
  BY <1>3, <1>4 DEF left
<1>11. A[n].cost \in Nat /\ B[n - 1].cost \in Nat /\ levels[n].price \in Nat
  <2>1. A[n] \in Standing /\ B[n - 1] \in Standing /\ levels[n] \in Offer
    BY <1>2, <1>5, <1>6
  <2> QED BY <2>1, DollarType DEF Standing, Offer
<1>12. A[n].cost <= B[n - 1].cost
  <2>1. A[n].cost - B[n - 1].cost <= (0 - 0) * levels[n].price
    BY <1>9, <1>10
  <2> QED BY <1>11, <2>1
<1> QED BY <1>3, <1>4, <1>12 DEF left

\* Whatever is filled costs something.
LEMMA FilledIsPaid ==
  ASSUME NEW levels, IsLadder(levels), NEW quantity \in Nat
  PROVE  Walked(levels, quantity).cost >= quantity - Walked(levels, quantity).remaining
<1> DEFINE n == Len(levels)
<1>1. n \in Nat /\ \A i \in 1 .. n : levels[i] \in Offer
  BY DEF IsLadder
<1>2. PICK A : IsRun(levels, quantity, A) /\ Walked(levels, quantity) = A[n]
  BY WalkRuns
<1>3. /\ A \in [0 .. n -> Standing] /\ A[0] = [remaining |-> quantity, cost |-> 0]
      /\ \A i \in 1 .. n : A[i] = TakeLevel(A[i - 1], levels[i])
  BY <1>2 DEF IsRun
<1> HIDE DEF n
<1> DEFINE Paid(i) == A[i].cost >= quantity - A[i].remaining
           N == {i \in Nat : i \in 0 .. n => Paid(i)}
<1>4. 0 \in N
  BY <1>3
<1>5. ASSUME NEW i \in N PROVE i + 1 \in N
  <2>1. SUFFICES ASSUME i + 1 \in 0 .. n PROVE Paid(i + 1)
    OBVIOUS
  <2>2. i \in 0 .. n /\ i + 1 \in 1 .. n /\ (i + 1) - 1 = i
    BY <1>1, <2>1
  <2>3. PICK w, o : w = A[i] /\ o = levels[i + 1]
    OBVIOUS
  <2>4. w \in Standing /\ o \in Offer /\ A[i + 1] = TakeLevel(w, o)
    BY <1>1, <1>3, <2>2, <2>3
  <2>5. PICK take \in Nat : /\ TakeLevel(w, o).remaining = w.remaining - take
                            /\ TakeLevel(w, o).cost = w.cost + take * o.price
    BY <2>4, TakeLevelIs
  <2>6. w.cost >= quantity - w.remaining
    BY <2>2, <2>3
  <2>7. PICK r \in Nat : r = o.price /\ r >= 1
    BY <2>4, DollarType DEF Offer
  <2>8. take * r >= take /\ take * r \in Nat
    BY <2>7
  <2>9. w.cost \in Nat /\ w.remaining \in Nat
    BY <2>4 DEF Standing
  <2>10. w.cost + take * r >= quantity - (w.remaining - take)
    BY <2>6, <2>8, <2>9
  <2> QED BY <2>4, <2>5, <2>7, <2>10
<1>6. N \in SUBSET Nat
  OBVIOUS
<1> HIDE DEF N, Paid
<1>7. N = Nat
  BY <1>4, <1>5, <1>6, NaturalsFrom
<1>8. Paid(n)
  BY <1>1, <1>7 DEF N
<1> QED BY <1>2, <1>8 DEF Paid, n

\* Sums: of whole cents, and of amounts none of which is below another's.
LEMMA SumOfWhole ==
  ASSUME NEW n \in Nat, NEW amounts \in [1 .. n -> Int], \A i \in 1 .. n : WholeCents(amounts[i])
  PROVE  SumOver(amounts) \in Int /\ WholeCents(SumOver(amounts))
<1>1. PICK run \in [0 .. n -> Int] :
        /\ run[0] = 0 /\ \A i \in 1 .. n : run[i] = run[i - 1] + amounts[i]
        /\ SumOver(amounts) = run[n]
  BY SumRuns
<1>2. Cent \in Nat
  BY EconomicsConstants
<1> DEFINE N == {i \in Nat : i \in 0 .. n => WholeCents(run[i])}
<1>3. 0 \in N
  <2>1. 0 = 0 * Cent
    BY <1>2
  <2> QED BY <1>1, <2>1 DEF WholeCents
<1>4. ASSUME NEW i \in N PROVE i + 1 \in N
  <2>1. SUFFICES ASSUME i + 1 \in 0 .. n PROVE WholeCents(run[i + 1])
    OBVIOUS
  <2>2. i \in 0 .. n /\ i + 1 \in 1 .. n /\ (i + 1) - 1 = i
    BY <2>1
  <2>3. PICK k \in Int : run[i] = k * Cent
    BY <2>2 DEF WholeCents
  <2>4. PICK m \in Int : amounts[i + 1] = m * Cent
    BY <2>2 DEF WholeCents
  <2>5. run[i + 1] = k * Cent + m * Cent
    BY <1>1, <2>2, <2>3, <2>4
  <2>6. k * Cent + m * Cent = (k + m) * Cent /\ k + m \in Int
    BY <1>2
  <2> QED BY <2>5, <2>6 DEF WholeCents
<1>5. N \in SUBSET Nat
  OBVIOUS
<1> HIDE DEF N
<1>6. N = Nat
  BY <1>3, <1>4, <1>5, NaturalsFrom
<1>7. WholeCents(run[n]) /\ run[n] \in Int
  BY <1>6 DEF N
<1> QED BY <1>1, <1>7

LEMMA SumMonotone ==
  ASSUME NEW n \in Nat, NEW a \in [1 .. n -> Int], NEW b \in [1 .. n -> Int],
         \A i \in 1 .. n : a[i] <= b[i]
  PROVE  SumOver(a) \in Int /\ SumOver(b) \in Int /\ SumOver(a) <= SumOver(b)
<1>1. PICK f \in [0 .. n -> Int] :
        f[0] = 0 /\ (\A i \in 1 .. n : f[i] = f[i - 1] + a[i]) /\ SumOver(a) = f[n]
  BY SumRuns
<1>2. PICK g \in [0 .. n -> Int] :
        g[0] = 0 /\ (\A i \in 1 .. n : g[i] = g[i - 1] + b[i]) /\ SumOver(b) = g[n]
  BY SumRuns
<1> DEFINE N == {i \in Nat : i \in 0 .. n => f[i] <= g[i]}
<1>3. 0 \in N
  BY <1>1, <1>2
<1>4. ASSUME NEW i \in N PROVE i + 1 \in N
  <2>1. SUFFICES ASSUME i + 1 \in 0 .. n PROVE f[i + 1] <= g[i + 1]
    OBVIOUS
  <2>2. i \in 0 .. n /\ i + 1 \in 1 .. n /\ (i + 1) - 1 = i
    BY <2>1
  <2>3. f[i + 1] = f[i] + a[i + 1] /\ g[i + 1] = g[i] + b[i + 1]
    BY <1>1, <1>2, <2>2
  <2>4. f[i] \in Int /\ g[i] \in Int /\ a[i + 1] \in Int /\ b[i + 1] \in Int
    BY <2>2
  <2> QED BY SMTT(30), <2>2, <2>3, <2>4
<1>5. N \in SUBSET Nat
  OBVIOUS
<1> HIDE DEF N
<1>6. N = Nat
  BY <1>3, <1>4, <1>5, NaturalsFrom
<1>7. f[n] \in Int /\ g[n] \in Int
  OBVIOUS
<1>8. f[n] <= g[n]
  <2>1. n \in N /\ n \in 0 .. n
    BY <1>6
  <2> QED BY <2>1 DEF N
<1> QED BY <1>1, <1>2, <1>7, <1>8

\* One amount among others that are not negative.
LEMMA SumOfNone ==
  ASSUME NEW n \in Nat, NEW j \in 1 .. n, NEW c \in Int
  PROVE  SumOver([i \in 1 .. n |-> IF i = j THEN c ELSE 0]) = c
<1> DEFINE a == [i \in 1 .. n |-> IF i = j THEN c ELSE 0]
<1>1. a \in [1 .. n -> Int] /\ a[j] = c /\ \A i \in 1 .. n : i # j => a[i] = 0
  OBVIOUS
<1> HIDE DEF a
<1>2. PICK f \in [0 .. n -> Int] :
        f[0] = 0 /\ (\A i \in 1 .. n : f[i] = f[i - 1] + a[i]) /\ SumOver(a) = f[n]
  BY <1>1, SumRuns
<1> DEFINE N == {i \in Nat : i \in 0 .. n => f[i] = IF j <= i THEN c ELSE 0}
<1>3. 0 \in N
  BY <1>2
<1>4. ASSUME NEW i \in N PROVE i + 1 \in N
  <2>1. SUFFICES ASSUME i + 1 \in 0 .. n PROVE f[i + 1] = IF j <= i + 1 THEN c ELSE 0
    OBVIOUS
  <2>2. i \in 0 .. n /\ i + 1 \in 1 .. n /\ (i + 1) - 1 = i
    BY <2>1
  <2>3. f[i + 1] = f[i] + a[i + 1] /\ f[i] = IF j <= i THEN c ELSE 0
    BY <1>2, <2>2
  <2>4. CASE i + 1 = j
    BY <1>1, <2>2, <2>3, <2>4
  <2>5. CASE i + 1 # j
    BY <1>1, <2>2, <2>3, <2>5
  <2> QED BY <2>4, <2>5
<1>5. N \in SUBSET Nat
  OBVIOUS
<1> HIDE DEF N
<1>6. N = Nat
  BY <1>3, <1>4, <1>5, NaturalsFrom
<1>7. f[n] = c
  BY <1>6 DEF N
<1> QED BY <1>2, <1>7 DEF a

LEMMA SumHasEach ==
  ASSUME NEW n \in Nat, NEW a \in [1 .. n -> Int], \A i \in 1 .. n : a[i] >= 0, NEW j \in 1 .. n
  PROVE  SumOver(a) \in Int /\ SumOver(a) >= a[j]
<1> DEFINE own == [i \in 1 .. n |-> IF i = j THEN a[j] ELSE 0]
<1>1. a[j] \in Int
  OBVIOUS
<1>2. own \in [1 .. n -> Int] /\ \A i \in 1 .. n : own[i] <= a[i]
  OBVIOUS
<1>3. SumOver(own) = a[j]
  <2>1. PICK c \in Int : c = a[j]
    BY <1>1
  <2>2. SumOver([i \in 1 .. n |-> IF i = j THEN c ELSE 0]) = c
    BY SumOfNone
  <2> QED BY <2>1, <2>2
<1> HIDE DEF own
<1>4. SumOver(own) <= SumOver(a) /\ SumOver(a) \in Int
  BY <1>2, SumMonotone
<1> QED BY <1>1, <1>3, <1>4

\* A whole amount of proceeds is not rounded.
LEMMA WholeProceeds ==
  ASSUME NEW amount \in Int, WholeCents(amount) PROVE QuantizeProceeds(amount) = amount
<1>1. Cent \in Nat \ {0}
  BY EconomicsConstants
<1>2. PICK n \in Int : amount = n * Cent
  BY DEF WholeCents
<1> DEFINE q == amount \div Cent
<1>3. q \in Int /\ Cent * q <= amount /\ amount < Cent * q + Cent
  BY <1>1, Quotient
<1> HIDE DEF q
<1>4. Cent * q = q * Cent /\ q * Cent \in Int /\ n * Cent \in Int
  BY <1>1, <1>3
<1>5. q <= n
  <2>1. SUFFICES ASSUME q >= n + 1 PROVE FALSE
    BY <1>3
  <2>2. q * Cent >= (n + 1) * Cent
    BY <1>1, <1>3, <2>1
  <2>3. (n + 1) * Cent = n * Cent + Cent
    BY <1>1
  <2> QED BY <1>1, <1>2, <1>3, <1>4, <2>2, <2>3
<1>6. n <= q
  <2>1. SUFFICES ASSUME n >= q + 1 PROVE FALSE
    BY <1>3
  <2>2. n * Cent >= (q + 1) * Cent
    BY <1>1, <1>3, <2>1
  <2>3. (q + 1) * Cent = q * Cent + Cent
    BY <1>1, <1>3
  <2> QED BY <1>1, <1>2, <1>3, <1>4, <2>2, <2>3
<1>7. q = n
  BY <1>3, <1>5, <1>6
<1> QED BY <1>2, <1>7 DEF QuantizeProceeds, q

\* What bringing back costs: nothing for nothing, something for something.
LEMMA UnwindCosts ==
  ASSUME NEW acquired \in Nat
  PROVE  /\ UnwindLoss(acquired) \in Int /\ UnwindLoss(acquired) >= 0
         /\ acquired > 0 => UnwindLoss(acquired) > 0
<1>1. Cent \in Nat \ {0} /\ 100 * Cent \in Nat \ {0} /\ 2 * acquired \in Int
  BY EconomicsConstants
<1>2. PICK b, q : b \in Nat \ {0} /\ b = 100 * Cent /\ q = CeilDiv(2 * acquired, b)
  BY <1>1
<1>3. q \in Int /\ 2 * acquired <= b * q /\ b * q < 2 * acquired + b
  BY <1>1, <1>2, CeilDivIs
<1>4. q >= 0
  <2>1. SUFFICES ASSUME q <= -1 PROVE FALSE
    BY <1>3
  <2>2. b * q <= b * (-1)
    BY <1>2, <1>3, <2>1
  <2>3. b * (-1) < 0
    BY <1>2
  <2>4. b * q \in Int /\ b * (-1) \in Int
    BY <1>2, <1>3
  <2> QED BY <1>3, <2>2, <2>3, <2>4
<1>5. acquired > 0 => q > 0
  <2>1. SUFFICES ASSUME acquired > 0, q = 0 PROVE FALSE
    BY <1>3, <1>4
  <2>2. b * q = 0
    BY <1>2, <2>1
  <2> QED BY <1>3, <2>1, <2>2
<1>6. q * Cent \in Int /\ q * Cent >= 0 /\ (q > 0 => q * Cent > 0)
  BY <1>1, <1>3, <1>4
<1> QED BY <1>2, <1>5, <1>6 DEF UnwindLoss

\* A leg attempted costs no less than it was quoted at if it is filled, and something if any
\* of it is.
LEMMA FillIs ==
  ASSUME PricingInv, phase = "closed", NEW i \in DOMAIN fills
  PROVE  /\ i \in DOMAIN legs /\ fills[i].cost \in Int /\ fills[i].cost >= 0
         /\ FillOutcome(fills[i]) = "filled" => QuoteLeg(request, legs[i]).cost <= fills[i].cost
         /\ fills[i].filled > 0 => fills[i].cost > 0
<1>1. evaluation.accepted /\ Attempted /\ Registered
  BY DEF PricingInv
<1>2. i \in 1 .. Len(fills) /\ i \in DOMAIN legs
  BY <1>1 DEF Attempted, Registered
<1>3. PICK vanished \in BOOLEAN : fills[i] = Attempt(i, vanished)
  BY <1>1, <1>2 DEF Attempted
<1>4. PICK q, r, leg, fill : q = request.quantity /\ r = request /\ leg = legs[i] /\ fill = fills[i]
  OBVIOUS
<1> DEFINE offers == AskLevels(r.books[leg.ticker], leg.side)
           left == IF vanished /\ offers # <<>> THEN Tail(offers) ELSE offers
           full == Walked(offers, q)
           stand == Walked(left, q)
<1>5. /\ IsLadder(offers) /\ IsLadder(left) /\ stand \in Standing
      /\ fill = [requested |-> q, filled |-> q - stand.remaining, cost |-> QuantizeCost(stand.cost)]
  BY <1>1, <1>2, <1>3, <1>4, AttemptIs
<1>6. q \in Nat \ {0} /\ IsRequest(r) /\ LegReason(r, leg) = "none" /\ r.quantity = q
  BY <1>1, <1>2, <1>4, AcceptedIs DEF Asked
<1>7. full \in Standing /\ full.remaining = 0 /\ QuoteLeg(r, leg).cost = QuantizeCost(full.cost)
  BY <1>6, QuoteIs
<1>8. stand.remaining \in Nat /\ stand.cost \in Nat /\ full.cost \in Nat
  BY <1>5, <1>7 DEF Standing
<1>9. QuantizeCost(stand.cost) \in Int /\ WholeCents(QuantizeCost(stand.cost))
      /\ QuantizeCost(stand.cost) >= stand.cost
  <2> HIDE DEF stand
  <2> QED BY <1>8, CostRoundsUp
<1>10. fill.cost \in Int /\ fill.cost >= 0
  <2> HIDE DEF stand
  <2> QED BY <1>5, <1>8, <1>9
<1>11. ASSUME FillOutcome(fill) = "filled" PROVE QuoteLeg(r, leg).cost <= fill.cost
  <2>1. stand.remaining = 0
    <3> HIDE DEF stand
    <3>1. fill.filled >= fill.requested
      BY <1>11 DEF FillOutcome, IsComplete
    <3>2. q - stand.remaining >= q
      BY <1>5, <3>1
    <3> QED BY <1>6, <1>8, <3>2
  <2>2. full.cost <= stand.cost
    <3>1. CASE vanished /\ offers # <<>>
      <4>1. left = Tail(offers)
        BY <3>1
      <4>2. Walked(offers, q).remaining = 0 /\ Walked(Tail(offers), q).remaining = 0
        BY <1>7, <2>1, <4>1
      <4> HIDE DEF offers, left
      <4>3. Walked(offers, q).cost <= Walked(Tail(offers), q).cost
        BY <1>5, <1>6, <3>1, <4>2, LateIsDearer
      <4> QED BY <4>1, <4>3
    <3>2. CASE ~ (vanished /\ offers # <<>>)
      <4>1. left = offers
        BY <3>2
      <4> HIDE DEF offers, left
      <4> QED BY <1>8, <4>1
    <3> QED BY <3>1, <3>2
  <2> HIDE DEF full, stand
  <2>3. full.cost <= QuantizeCost(stand.cost)
    BY <1>8, <1>9, <2>2
  <2>4. QuantizeCost(full.cost) <= QuantizeCost(stand.cost)
    BY <1>8, <1>9, <2>3, CostIsLeastWhole
  <2> QED BY <1>5, <1>7, <2>4
<1>12. ASSUME fill.filled > 0 PROVE fill.cost > 0
  <2>1. stand.cost >= q - stand.remaining
    <3> HIDE DEF left
    <3> QED BY <1>5, <1>6, FilledIsPaid
  <2> HIDE DEF stand
  <2>2. q - stand.remaining > 0
    BY <1>5, <1>12
  <2> QED BY <1>5, <1>6, <1>8, <1>9, <2>1, <2>2
<1> QED BY <1>2, <1>4, <1>10, <1>11, <1>12

LEMMA InvImpliesShadow ==
  ASSUME PricingInv PROVE ShadowMakesItWorse
<1>1. SUFFICES ASSUME phase = "closed"
               PROVE  /\ Realized <= NetEdge(evaluation) + evaluation.reserves
                      /\ Exposed => Realized < 0
  BY DEF ShadowMakesItWorse
<1>2. evaluation.accepted /\ Partition /\ Attempted /\ Registered /\ Len(fills) = Len(legs)
  BY <1>1 DEF PricingInv
<1> DEFINE paid == [k \in DOMAIN fills |-> fills[k].cost]
           quoted == [k \in DOMAIN legs |-> QuoteLeg(request, legs[k]).cost]
<1>3. PICK n \in Nat : n = Len(legs) /\ DOMAIN legs = 1 .. n /\ DOMAIN fills = 1 .. n
  <2>1. Len(legs) \in Nat /\ DOMAIN legs = 1 .. Len(legs)
    BY <1>2 DEF Registered
  <2>2. DOMAIN fills = 1 .. Len(fills)
    BY <1>2 DEF Attempted
  <2> QED BY <1>2, <2>1, <2>2
<1>4. paid \in [1 .. n -> Int] /\ \A i \in 1 .. n : paid[i] >= 0
  <2>1. \A i \in DOMAIN fills : fills[i].cost \in Int /\ fills[i].cost >= 0
    BY <1>1, FillIs
  <2> QED BY <1>3, <2>1
<1>5. quoted \in [1 .. n -> Int] /\ \A i \in 1 .. n : WholeCents(quoted[i])
  <2>1. ASSUME NEW i \in DOMAIN legs
        PROVE  /\ QuoteLeg(request, legs[i]).cost \in Int
               /\ WholeCents(QuoteLeg(request, legs[i]).cost)
    <3>1. PICK r, leg : r = request /\ leg = legs[i]
      OBVIOUS
    <3>2. IsRequest(r) /\ r.quantity # 0 /\ LegReason(r, leg) = "none"
      BY <1>2, <3>1, AcceptedIs DEF Asked
    <3>3. PICK stand \in Standing : /\ QuoteLeg(r, leg).cost = QuantizeCost(stand.cost)
                                    /\ QuoteLeg(r, leg).cost \in Int
      BY <3>2, QuoteIs
    <3>4. stand.cost \in Int
      BY <3>3 DEF Standing
    <3> QED BY <3>1, <3>3, <3>4, CostRoundsUp
  <2> QED BY <1>3, <2>1
<1>6. PICK a, b : a = paid /\ b = quoted
  OBVIOUS
<1>7. AcquisitionCost = SumOver(a)
  BY <1>6 DEF AcquisitionCost
<1>8. /\ a \in [1 .. n -> Int] /\ b \in [1 .. n -> Int]
      /\ \A i \in 1 .. n : a[i] >= 0 /\ WholeCents(b[i])
      /\ \A i \in 1 .. n : a[i] = fills[i].cost /\ b[i] = QuoteLeg(request, legs[i]).cost
  BY <1>3, <1>4, <1>5, <1>6
<1>9. /\ evaluation.acquisition = QuantizeCost(SumOver(b))
      /\ evaluation.acquisition \in Int /\ evaluation.fees \in Int
      /\ evaluation.reserves \in Int /\ evaluation.reserves >= 0
      /\ NetEdge(evaluation) > 0 /\ evaluation.payout \in Int
      /\ evaluation.payout = QuantizeProceeds(Dollar * request.quantity)
      /\ request.quantity \in Nat
  BY <1>2, <1>6, AcceptedIs
<1> HIDE DEF paid, quoted
<1>10. SumOver(a) \in Nat
  <2> PICK run \in [0 .. n -> Int] : run[0] = 0 /\ SumOver(a) = run[n]
    BY <1>8, SumRuns
  <2>1. SumOver(a) \in Int
    OBVIOUS
  <2>2. CASE n = 0
    BY <2>2
  <2>3. CASE n # 0
    <3>1. 1 \in 1 .. n
      BY <2>3
    <3>2. SumOver(a) >= a[1]
      BY <1>8, <3>1, SumHasEach
    <3>3. a[1] \in Int /\ a[1] >= 0
      BY <1>8, <3>1
    <3> QED BY <2>1, <3>2, <3>3
  <2> QED BY <2>2, <2>3
<1>11. NetEdge(evaluation) \in Int
  BY <1>9 DEF NetEdge
<1>12. CASE Complete
  <2>1. \A i \in 1 .. n : b[i] <= a[i]
    BY <1>1, <1>3, <1>8, <1>12, FillIs DEF Complete
  <2>2. SumOver(b) <= SumOver(a)
    BY <1>8, <2>1, SumMonotone
  <2>3. SumOver(b) \in Int /\ WholeCents(SumOver(b))
    BY <1>8, SumOfWhole
  <2>4. PICK sum \in Int : sum = SumOver(b)
    BY <2>3
  <2>5. QuantizeCost(sum) <= sum
    BY <2>3, <2>4, CostIsLeastWhole
  <2>6. evaluation.acquisition <= AcquisitionCost
    BY <1>7, <1>9, <1>10, <2>2, <2>4, <2>5
  <2>7. evaluation.payout = Dollar * request.quantity
    <3>1. PICK q \in Nat : q = request.quantity
      BY <1>9
    <3>2. PICK k \in Int : Dollar = k * Cent
      BY DollarType DEF WholeCents
    <3>3. Dollar * q = (k * q) * Cent /\ k * q \in Int
      BY <3>2, EconomicsConstants
    <3>4. Dollar * q \in Int /\ WholeCents(Dollar * q)
      BY <3>3, DollarType DEF WholeCents
    <3> QED BY <1>9, <3>1, <3>4, WholeProceeds
  <2>8. Realized = evaluation.payout - AcquisitionCost - evaluation.fees
    BY <1>12, <2>7 DEF Realized
  <2>9. Realized <= NetEdge(evaluation) + evaluation.reserves
    BY <1>7, <1>9, <1>10, <2>6, <2>8 DEF NetEdge
  <2> QED BY <1>12, <2>9 DEF Exposed
<1>13. CASE ~ Complete
  <2>1. Realized = - UnwindLoss(SumOver(a))
    BY <1>7, <1>13 DEF Realized
  <2>2. /\ UnwindLoss(SumOver(a)) \in Int /\ UnwindLoss(SumOver(a)) >= 0
        /\ SumOver(a) > 0 => UnwindLoss(SumOver(a)) > 0
    BY <1>10, UnwindCosts
  <2>3. Realized <= NetEdge(evaluation) + evaluation.reserves
    BY <1>9, <1>11, <2>1, <2>2
  <2>4. ASSUME Exposed PROVE Realized < 0
    <3>1. PICK i \in DOMAIN fills : fills[i].filled > 0
      BY <2>4 DEF Exposed
    <3>2. i \in 1 .. n /\ a[i] \in Int /\ a[i] > 0
      BY <1>1, <1>3, <1>8, <3>1, FillIs
    <3>3. SumOver(a) >= a[i]
      BY <1>8, <3>2, SumHasEach
    <3>4. SumOver(a) > 0
      BY <1>10, <3>2, <3>3
    <3> QED BY <2>1, <2>2, <3>4
  <2> QED BY <2>3, <2>4
<1> QED BY <1>12, <1>13

(* No order of late and timely legs realises more than evaluation saw, and  *)
(* none that is left exposed comes out even (shadow/executor.py: the        *)
(* assumptions about latency and vanished levels all make it worse).        *)
THEOREM LatenessNeverPays == Spec => []ShadowMakesItWorse
<1>1. PricingInv => ShadowMakesItWorse
  BY InvImpliesShadow
<1> QED BY <1>1, Invariance, PTL

-----------------------------------------------------------------------------
(* Cheapest.  A walk takes every offer below some price and none above it,  *)
(* so whatever another way takes less of the cheap offers it has to take of *)
(* dearer ones: no other way of filling the order costs less.               *)

(* What a walk takes, level by level, and the level it stops at. *)
Takes(levels, quantity, take, last, filled, cost) ==
  /\ take \in [1 .. Len(levels) -> Nat] /\ last \in 1 .. Len(levels)
  /\ \A i \in 1 .. Len(levels) : /\ take[i] <= levels[i].quantity
                                 /\ i < last => take[i] = levels[i].quantity
                                 /\ i > last => take[i] = 0
  /\ filled[0] = 0 /\ filled[Len(levels)] = quantity
  /\ \A i \in 1 .. Len(levels) : filled[i] = filled[i - 1] + take[i]
  /\ cost[0] = 0 /\ cost[Len(levels)] = Walked(levels, quantity).cost
  /\ \A i \in 1 .. Len(levels) : cost[i] = cost[i - 1] + take[i] * levels[i].price

LEMMA WalkTakes ==
  ASSUME NEW levels, IsLadder(levels), NEW quantity \in Nat \ {0},
         Walked(levels, quantity).remaining = 0
  PROVE  \E take, last, filled, cost : Takes(levels, quantity, take, last, filled, cost)
<1> DEFINE n == Len(levels)
<1>1. n \in Nat /\ \A i \in 1 .. n : levels[i] \in Offer
  BY DEF IsLadder
<1>2. PICK A : IsRun(levels, quantity, A) /\ Walked(levels, quantity) = A[n]
  BY WalkRuns
<1>3. /\ A \in [0 .. n -> Standing] /\ A[0] = [remaining |-> quantity, cost |-> 0]
      /\ \A i \in 1 .. n : A[i] = TakeLevel(A[i - 1], levels[i])
  BY <1>2 DEF IsRun
<1> DEFINE take == [i \in 1 .. n |-> A[i - 1].remaining - A[i].remaining]
           filled == [i \in 0 .. n |-> quantity - A[i].remaining]
           cost == [i \in 0 .. n |-> A[i].cost]
<1>4. ASSUME NEW i \in 1 .. n
      PROVE  /\ A[i].remaining \in Nat /\ A[i - 1].remaining \in Nat
             /\ take[i] \in Nat /\ take[i] <= levels[i].quantity
             /\ A[i].remaining # 0 => take[i] = levels[i].quantity
             /\ A[i - 1].remaining = 0 => take[i] = 0 /\ A[i].remaining = 0
             /\ cost[i] = cost[i - 1] + take[i] * levels[i].price
             /\ filled[i] = filled[i - 1] + take[i]
  <2> HIDE DEF n
  <2>1. i - 1 \in 0 .. n /\ i \in 0 .. n
    BY <1>1
  <2>2. PICK w, o : w = A[i - 1] /\ o = levels[i]
    OBVIOUS
  <2>3. w \in Standing /\ o \in Offer /\ A[i] = TakeLevel(w, o)
    BY <1>1, <1>3, <2>1, <2>2
  <2>4. PICK t \in Nat : /\ t <= w.remaining /\ t <= o.quantity
                         /\ t = w.remaining \/ t = o.quantity
                         /\ A[i] \in Standing
                         /\ A[i].remaining = w.remaining - t
                         /\ A[i].cost = w.cost + t * o.price
    BY <2>3, TakeLevelIs
  <2>5. PICK r, m \in Nat : r = w.remaining /\ m = o.quantity
    BY <2>3 DEF Standing, Offer
  <2>6. /\ A[i - 1].remaining = r /\ A[i].remaining = r - t /\ levels[i].quantity = m
        /\ t <= r /\ t <= m /\ (t = r \/ t = m)
    BY <2>2, <2>4, <2>5
  <2>7. take[i] = t /\ filled[i] = filled[i - 1] + t
    BY <2>1, <2>6
  <2>8. cost[i] = cost[i - 1] + take[i] * levels[i].price
    BY <2>1, <2>2, <2>4, <2>7
  <2> HIDE DEF take, filled, cost
  <2> QED BY <2>6, <2>7, <2>8
<1>5. filled[0] = 0 /\ cost[0] = 0 /\ filled[n] = quantity /\ cost[n] = Walked(levels, quantity).cost
  <2>1. 0 \in 0 .. n /\ n \in 0 .. n
    BY <1>1
  <2>2. A[n].remaining = 0
    BY <1>2
  <2> HIDE DEF n
  <2> QED BY <1>2, <1>3, <2>1, <2>2
<1> DEFINE Ends == {i \in 1 .. n : A[i].remaining = 0}
<1>6. Ends \in SUBSET Nat /\ Ends # {}
  <2>1. n # 0
    <3>1. SUFFICES ASSUME n = 0 PROVE FALSE
      OBVIOUS
    <3>2. A[n].remaining = quantity
      BY <1>3, <3>1
    <3> QED BY <1>2, <3>2
  <2>2. n \in Ends
    BY <1>1, <1>2, <2>1
  <2> QED BY <2>2
<1>7. PICK last \in Ends : \A k \in Ends : last <= k
  <2> HIDE DEF Ends
  <2> QED BY <1>6, LeastNatural
<1> HIDE DEF take, filled, cost
<1>8. ASSUME NEW i \in 1 .. n, i < last PROVE take[i] = levels[i].quantity
  <2>1. i \notin Ends
    BY <1>7, <1>8
  <2> QED BY <1>4, <2>1
<1>9. \A i \in Nat : i \in last .. n => A[i].remaining = 0
  <2> DEFINE N == {i \in Nat : i \in last .. n => A[i].remaining = 0}
  <2>1. last \in 1 .. n /\ A[last].remaining = 0
    BY <1>7
  <2>2. 0 \in N
    BY <2>1
  <2>3. ASSUME NEW i \in N PROVE i + 1 \in N
    <3>1. SUFFICES ASSUME i + 1 \in last .. n PROVE A[i + 1].remaining = 0
      OBVIOUS
    <3>2. CASE i + 1 = last
      BY <2>1, <3>2
    <3>3. CASE i + 1 # last
      <4>1. i \in last .. n /\ i + 1 \in 1 .. n /\ (i + 1) - 1 = i
        BY <1>1, <2>1, <3>1, <3>3
      <4>2. A[i].remaining = 0
        BY <4>1
      <4> QED BY <1>4, <4>1, <4>2
    <3> QED BY <3>2, <3>3
  <2>4. N \in SUBSET Nat
    OBVIOUS
  <2> HIDE DEF N
  <2>5. N = Nat
    BY <2>2, <2>3, <2>4, NaturalsFrom
  <2> QED BY <2>5 DEF N
<1>10. ASSUME NEW i \in 1 .. n, i > last PROVE take[i] = 0
  <2>1. i - 1 \in Nat /\ i - 1 \in last .. n
    BY <1>1, <1>7, <1>10
  <2>2. A[i - 1].remaining = 0
    BY <1>9, <2>1
  <2> QED BY <1>4, <2>2
<1>11. take \in [1 .. n -> Nat]
  BY <1>4 DEF take
<1>12. last \in 1 .. n
  BY <1>7
<1> HIDE DEF Ends
<1>13. Takes(levels, quantity, take, last, filled, cost)
  BY <1>4, <1>5, <1>8, <1>10, <1>11, <1>12 DEF Takes, n
<1> QED BY <1>13

(* Ways of filling an order from the bids of the other side. *)
IsWay(w, bids, quantity) ==
  /\ w \in [DOMAIN bids -> Nat] /\ \A p \in DOMAIN bids : w[p] <= bids[p]
  /\ Total(w) = quantity
PriceOf(w) == [p \in DOMAIN w |-> w[p] * (Dollar - p)]

\* A walk is a way, and none is cheaper.
LEMMA WalkIsCheapest ==
  ASSUME NEW book, NEW side, NEW bids, bids = book[Opposite(side)], IsBids(bids),
         NEW levels, levels = AskLevels(book, side), IsLadder(levels),
         NEW quantity \in Nat \ {0}, Walked(levels, quantity).remaining = 0
  PROVE  /\ \E g : IsWay(g, bids, quantity) /\ Total(PriceOf(g)) = Walked(levels, quantity).cost
         /\ \A w : IsWay(w, bids, quantity) =>
              Walked(levels, quantity).cost <= Total(PriceOf(w))
<1> DEFINE S == DOMAIN bids
<1>1. /\ IsFiniteSet(S) /\ S \subseteq 1 .. Dollar - 1 /\ \A p \in S : bids[p] \in Nat \ {0}
  BY DEF IsBids
<1>2. PICK n \in Nat : \E s :
        /\ IsListing(s, n, S)
        /\ levels = [i \in 1 .. n |-> [price |-> Dollar - s[i], quantity |-> bids[s[i]]]]
  BY SMTT(30), AskListing
<1>3. PICK s :
        /\ IsListing(s, n, S)
        /\ levels = [i \in 1 .. n |-> [price |-> Dollar - s[i], quantity |-> bids[s[i]]]]
  BY <1>2
<1>4. PICK take, last, filled, cost : Takes(levels, quantity, take, last, filled, cost)
  BY WalkTakes
<1> HIDE DEF S
<1>5. /\ s \in [1 .. n -> S] /\ \A i, j \in 1 .. n : i < j => s[i] > s[j]
      /\ \A p \in S : \E i \in 1 .. n : s[i] = p
  BY <1>3 DEF IsListing
<1>6. Dollar \in Nat /\ \A p \in S : p \in Nat /\ Dollar - p \in Nat
  BY <1>1, DollarType
<1>7. /\ Len(levels) = n
      /\ \A i \in 1 .. n : levels[i].price = Dollar - s[i] /\ levels[i].quantity = bids[s[i]]
  <2>1. /\ DOMAIN levels = 1 .. n
        /\ \A i \in 1 .. n : levels[i].price = Dollar - s[i] /\ levels[i].quantity = bids[s[i]]
    BY <1>3
  <2>2. levels \in Seq(Offer)
    BY DEF IsLadder
  <2>3. Len(levels) = n
    BY <2>1, <2>2
  <2> QED BY <2>1, <2>3
<1> DEFINE at(p) == CHOOSE i \in 1 .. n : s[i] = p
           g == [p \in S |-> take[at(p)]]
<1>8. \A p \in S : at(p) \in 1 .. n /\ s[at(p)] = p
  BY <1>5
<1>9. \A i, j \in 1 .. n : i < j => s[i] # s[j]
  <2> SUFFICES ASSUME NEW i \in 1 .. n, NEW j \in 1 .. n, i < j, s[i] = s[j] PROVE FALSE
    OBVIOUS
  <2>1. s[i] > s[j] /\ s[i] \in Nat
    BY <1>5, <1>6
  <2> QED BY <2>1
<1>10. \A i \in 1 .. n : at(s[i]) = i
  <2> SUFFICES ASSUME NEW i \in 1 .. n PROVE at(s[i]) = i
    OBVIOUS
  <2>1. PICK j \in 1 .. n : j = at(s[i]) /\ s[j] = s[i]
    BY <1>5, <1>8
  <2>2. ~ i < j /\ ~ j < i
    BY <1>9, <2>1
  <2>3. i = j
    BY <2>2
  <2> QED BY <2>1, <2>3
<1> HIDE DEF at
<1>11. /\ take \in [1 .. n -> Nat] /\ last \in 1 .. n
       /\ \A i \in 1 .. n : /\ take[i] <= bids[s[i]]
                            /\ i < last => take[i] = bids[s[i]]
                            /\ i > last => take[i] = 0
       /\ filled[0] = 0 /\ filled[n] = quantity
       /\ \A i \in 1 .. n : filled[i] = filled[i - 1] + take[i]
       /\ cost[0] = 0 /\ cost[n] = Walked(levels, quantity).cost
       /\ \A i \in 1 .. n : cost[i] = cost[i - 1] + take[i] * (Dollar - s[i])
  <2>1. /\ take \in [1 .. n -> Nat] /\ last \in 1 .. n
        /\ \A i \in 1 .. n : /\ take[i] <= levels[i].quantity
                             /\ i < last => take[i] = levels[i].quantity
                             /\ i > last => take[i] = 0
        /\ filled[0] = 0 /\ filled[n] = quantity
        /\ \A i \in 1 .. n : filled[i] = filled[i - 1] + take[i]
        /\ cost[0] = 0 /\ cost[n] = Walked(levels, quantity).cost
        /\ \A i \in 1 .. n : cost[i] = cost[i - 1] + take[i] * levels[i].price
    BY <1>4, <1>7 DEF Takes
  <2>2. ASSUME NEW i \in 1 .. n
        PROVE  /\ take[i] <= bids[s[i]]
               /\ i < last => take[i] = bids[s[i]]
               /\ i > last => take[i] = 0
    <3>1. levels[i].quantity = bids[s[i]]
      BY <1>7
    <3>2. /\ take[i] <= levels[i].quantity
          /\ i < last => take[i] = levels[i].quantity
          /\ i > last => take[i] = 0
      BY <2>1
    <3> QED BY Zenon, <3>1, <3>2
  <2>3. ASSUME NEW i \in 1 .. n PROVE cost[i] = cost[i - 1] + take[i] * (Dollar - s[i])
    <3>1. levels[i].price = Dollar - s[i]
      BY <1>7
    <3>2. cost[i] = cost[i - 1] + take[i] * levels[i].price
      BY <2>1
    <3> QED BY Zenon, <3>1, <3>2
  <2> QED BY <2>1, <2>2, <2>3
<1>12. g \in [S -> Nat] /\ \A i \in 1 .. n : g[s[i]] = take[i]
  BY <1>5, <1>8, <1>10, <1>11
<1> HIDE DEF g
<1>13. PriceOf(g) \in [S -> Nat] /\ \A i \in 1 .. n : PriceOf(g)[s[i]] = take[i] * (Dollar - s[i])
  <2>1. \A p \in S : g[p] * (Dollar - p) \in Nat
    BY <1>6, <1>12
  <2> QED BY <1>5, <1>12, <2>1 DEF PriceOf
<1>14. Enumerates(s, n, S)
  BY <1>5, <1>9 DEF Enumerates
<1>15. Total(g) = quantity
  <2>1. \A i \in 1 .. n : filled[i] = filled[i - 1] + g[s[i]]
    BY <1>11, <1>12
  <2>2. AddsUp(filled, n, g, s)
    BY <1>11, <2>1 DEF AddsUp
  <2>3. filled[n] = Total(g)
    <3>1. IsFiniteSet(S) /\ g \in [S -> Nat] /\ n \in Nat
      BY <1>1, <1>12
    <3> QED BY ONLY <1>14, <2>2, <3>1, TotalListed
  <2> QED BY <1>11, <2>3
<1>16. Total(PriceOf(g)) = Walked(levels, quantity).cost
  <2>1. \A i \in 1 .. n : cost[i] = cost[i - 1] + PriceOf(g)[s[i]]
    BY <1>11, <1>13
  <2>2. PICK v : v = PriceOf(g)
    OBVIOUS
  <2>3. AddsUp(cost, n, v, s) /\ v \in [S -> Nat]
    BY <1>11, <1>13, <2>1, <2>2 DEF AddsUp
  <2>4. cost[n] = Total(v)
    <3>1. IsFiniteSet(S) /\ n \in Nat
      BY <1>1
    <3> QED BY ONLY <1>14, <2>3, <3>1, TotalListed
  <2> QED BY <1>11, <2>2, <2>4
<1> DEFINE bound == Dollar - s[last]
<1>17. /\ bound \in Nat
       /\ \A p \in S : /\ g[p] <= bids[p]
                       /\ Dollar - p < bound => g[p] = bids[p]
                       /\ Dollar - p > bound => g[p] = 0
  <2>1. s[last] \in S /\ bound \in Nat
    BY <1>5, <1>6, <1>11
  <2>2. ASSUME NEW p \in S
        PROVE  /\ g[p] <= bids[p]
               /\ Dollar - p < bound => g[p] = bids[p]
               /\ Dollar - p > bound => g[p] = 0
    <3>1. PICK i \in 1 .. n : s[i] = p
      BY <1>5
    <3>2. g[p] = take[i]
      BY <1>12, <3>1
    <3>3. PICK b \in Nat : b = s[last]
      BY <1>6, <2>1
    <3>4. p \in Nat
      BY <1>6
    <3>5. Dollar - p < bound => p > b
      BY <1>6, <3>3, <3>4
    <3>6. Dollar - p > bound => p < b
      BY <1>6, <3>3, <3>4
    <3>7. p > b => i < last
      <4>1. SUFFICES ASSUME p > b, ~ i < last PROVE FALSE
        OBVIOUS
      <4>2. i # last
        BY <3>1, <3>3, <3>4, <4>1
      <4>3. last < i
        BY <1>11, <4>1, <4>2
      <4>4. b > p
        BY <1>5, <1>11, <3>1, <3>3, <4>3
      <4> QED BY <3>4, <4>1, <4>4
    <3>8. p < b => i > last
      <4>1. SUFFICES ASSUME p < b, ~ i > last PROVE FALSE
        OBVIOUS
      <4>2. i # last
        BY <3>1, <3>3, <3>4, <4>1
      <4>3. i < last
        BY <1>11, <4>1, <4>2
      <4>4. p > b
        BY <1>5, <1>11, <3>1, <3>3, <4>3
      <4> QED BY <3>4, <4>1, <4>4
    <3> HIDE DEF bound
    <3> QED BY <1>11, <3>1, <3>2, <3>5, <3>6, <3>7, <3>8
  <2> QED BY <2>1, <2>2
<1> HIDE DEF bound
<1>18. ASSUME NEW w, IsWay(w, bids, quantity)
       PROVE  Walked(levels, quantity).cost <= Total(PriceOf(w))
  <2>1. w \in [S -> Nat] /\ (\A p \in S : w[p] <= bids[p]) /\ Total(w) = quantity
    BY <1>18 DEF IsWay, S
  <2>2. PriceOf(w) \in [S -> Nat]
    <3>1. \A p \in S : w[p] * (Dollar - p) \in Nat
      BY <1>6, <2>1
    <3> QED BY <2>1, <3>1 DEF PriceOf
  <2> DEFINE own == [p \in S |-> PriceOf(w)[p] + bound * g[p]]
             walks == [p \in S |-> PriceOf(g)[p] + bound * w[p]]
  <2>3. own \in [S -> Nat] /\ walks \in [S -> Nat]
    <3>1. \A p \in S : PriceOf(w)[p] + bound * g[p] \in Nat
      BY <1>12, <1>17, <2>2
    <3>2. \A p \in S : PriceOf(g)[p] + bound * w[p] \in Nat
      BY <1>13, <1>17, <2>1
    <3> QED BY <3>1, <3>2
  <2>4. ASSUME NEW p \in S PROVE walks[p] <= own[p]
    <3>1. PICK a, b, c, r, m \in Nat : a = g[p] /\ b = w[p] /\ c = Dollar - p /\ r = bound /\ m = bids[p]
      BY <1>1, <1>6, <1>12, <1>17, <2>1
    <3>2. a <= m /\ b <= m /\ (c < r => a = m) /\ (c > r => a = 0)
      BY <1>17, <2>1, <3>1
    <3>3. walks[p] = a * c + r * b /\ own[p] = b * c + r * a
      BY <1>12, <2>1, <3>1 DEF PriceOf
    <3>4. CASE c = r
      BY <3>3, <3>4
    <3>5. CASE c < r
      <4>1. PICK k, h \in Nat : a = b + k /\ r = c + h
        <5>1. a - b \in Nat /\ a = b + (a - b)
          BY <3>2, <3>5
        <5>2. r - c \in Nat /\ r = c + (r - c)
          BY <3>5
        <5> QED BY <5>1, <5>2
      <4>2. a * c + r * b = b * c + k * c + c * b + h * b
        BY <4>1
      <4>3. b * c + r * a = b * c + c * b + c * k + h * b + h * k
        BY <4>1
      <4>4. h * k \in Nat /\ k * c = c * k
        OBVIOUS
      <4>5. b * c \in Nat /\ c * b \in Nat /\ c * k \in Nat /\ h * b \in Nat
        OBVIOUS
      <4> QED BY <3>3, <4>2, <4>3, <4>4, <4>5
    <3>6. CASE c > r
      <4>1. a * c + r * b = r * b /\ b * c + r * a = b * c
        BY <3>2, <3>6
      <4>2. r * b <= b * c
        <5>1. b * r <= b * c
          BY <3>6
        <5> QED BY <5>1
      <4> QED BY <3>3, <4>1, <4>2
    <3> QED BY <3>4, <3>5, <3>6
  <2>5. /\ \A p \in S : own[p] = PriceOf(w)[p] + bound * g[p]
        /\ \A p \in S : walks[p] = PriceOf(g)[p] + bound * w[p]
    OBVIOUS
  <2> HIDE DEF own, walks
  <2>6. Total(own) = Total(PriceOf(w)) + bound * Total(g)
    <3>1. PICK v : v = PriceOf(w)
      OBVIOUS
    <3>2. /\ IsFiniteSet(S) /\ own \in [S -> Nat] /\ v \in [S -> Nat] /\ g \in [S -> Nat]
          /\ bound \in Nat /\ \A p \in S : own[p] = v[p] + bound * g[p]
      BY <1>1, <1>12, <1>17, <2>2, <2>3, <2>5, <3>1
    <3>3. Total(own) = Total(v) + bound * Total(g)
      BY ONLY <3>2, TotalLinear
    <3> QED BY <3>1, <3>3
  <2>7. Total(walks) = Total(PriceOf(g)) + bound * Total(w)
    <3>1. PICK v : v = PriceOf(g)
      OBVIOUS
    <3>2. /\ IsFiniteSet(S) /\ walks \in [S -> Nat] /\ v \in [S -> Nat] /\ w \in [S -> Nat]
          /\ bound \in Nat /\ \A p \in S : walks[p] = v[p] + bound * w[p]
      BY <1>1, <1>13, <1>17, <2>1, <2>3, <2>5, <3>1
    <3>3. Total(walks) = Total(v) + bound * Total(w)
      BY ONLY <3>2, TotalLinear
    <3> QED BY <3>1, <3>3
  <2>8. Total(walks) <= Total(own)
    BY <1>1, <2>3, <2>4, TotalMonotone
  <2>9. Total(PriceOf(w)) \in Nat /\ Total(PriceOf(g)) \in Nat
    BY <1>1, <1>13, <2>2, TotalType
  <2>10. bound * quantity \in Nat
    BY <1>17
  <2> QED BY <1>15, <1>16, <2>1, <2>6, <2>7, <2>8, <2>9, <2>10
<1>19. IsWay(g, bids, quantity)
  BY <1>12, <1>15, <1>17 DEF IsWay, S
<1> QED BY <1>16, <1>18, <1>19

-----------------------------------------------------------------------------
(* Sums over sets are totals, whatever order the library adds in.           *)

Weighs(w, S, f) ==
  f = [T \in SUBSET S |->
         IF T = {} THEN 0 ELSE w[CHOOSE x \in T : TRUE] + f[T \ {CHOOSE x \in T : TRUE}]]

LEMMA WeighsTotal ==
  ASSUME NEW S, IsFiniteSet(S), NEW w \in [S -> Nat]
  PROVE  /\ \E f : Weighs(w, S, f)
         /\ \A f : Weighs(w, S, f) => f[S] = Total(w)
<1> DEFINE pick == [T \in (SUBSET S) \ {{}} |-> CHOOSE x \in T : TRUE]
           step == [p \in S \X Nat |-> w[p[1]] + p[2]]
<1>1. /\ pick \in [(SUBSET S) \ {{}} -> S] /\ \A T \in (SUBSET S) \ {{}} : pick[T] \in T
      /\ \A T \in (SUBSET S) \ {{}} : pick[T] = CHOOSE x \in T : TRUE
  OBVIOUS
<1>2. step \in [S \X Nat -> Nat]
  OBVIOUS
<1>3. \A x \in S, k \in Nat : step[<<x, k>>] = w[x] + k
  OBVIOUS
<1> HIDE DEF pick, step
<1>4. \E f : Weighs(w, S, f)
  <2>1. PICK f \in [SUBSET S -> Nat] : IsFold(0, pick, step, S, f)
    <3>1. pick \in [(SUBSET S) \ {{}} -> S] /\ \A T \in (SUBSET S) \ {{}} : pick[T] \in T
      BY <1>1
    <3>2. 0 \in Nat /\ IsFiniteSet(S)
      OBVIOUS
    <3> QED BY ONLY <1>2, <3>1, <3>2, FoldExists
  <2>2. ASSUME NEW T \in SUBSET S
        PROVE  FoldStep(0, pick, step, f, T)
                 = IF T = {} THEN 0
                   ELSE w[CHOOSE x \in T : TRUE] + f[T \ {CHOOSE x \in T : TRUE}]
    <3>1. CASE T = {}
      BY <3>1 DEF FoldStep
    <3>2. CASE T # {}
      <4>1. PICK x \in T : x = pick[T] /\ x = CHOOSE y \in T : TRUE
        BY <1>1, <3>2
      <4>2. T \ {x} \in SUBSET S /\ x \in S
        BY <4>1
      <4>3. f[T \ {x}] \in Nat
        BY <4>2
      <4>4. step[<<x, f[T \ {x}]>>] = w[x] + f[T \ {x}]
        BY <1>3, <4>2, <4>3
      <4> QED BY <3>2, <4>1, <4>4 DEF FoldStep
    <3> QED BY <3>1, <3>2
  <2>3. f = [T \in SUBSET S |->
               IF T = {} THEN 0
               ELSE w[CHOOSE x \in T : TRUE] + f[T \ {CHOOSE x \in T : TRUE}]]
    BY <2>1, <2>2 DEF IsFold
  <2> QED BY <2>3 DEF Weighs
<1>5. ASSUME NEW f, Weighs(w, S, f) PROVE f[S] = Total(w)
  <2> DEFINE Good == {T \in SUBSET S : f[T] = Total(Part(w, T))}
  <2>1. f[{}] = 0
    BY <1>5 DEF Weighs
  <2>2. ASSUME NEW T \in (SUBSET S) \ {{}} PROVE f[T] = w[pick[T]] + f[T \ {pick[T]}]
    <3>1. T # {} /\ T \in SUBSET S
      OBVIOUS
    <3>2. f[T] = w[CHOOSE x \in T : TRUE] + f[T \ {CHOOSE x \in T : TRUE}]
      BY <1>5, <3>1 DEF Weighs
    <3> QED BY <1>1, <3>2
  <2>3. {} \in Good
    BY <2>1, TotalParts
  <2>4. ASSUME NEW T \in (SUBSET S) \ {{}}, T \ {pick[T]} \in Good PROVE T \in Good
    <3>1. PICK x \in T : x = pick[T]
      BY <1>1
    <3>2. PICK R : R = T \ {x}
      OBVIOUS
    <3>3. R \in SUBSET S /\ x \in S /\ x \notin R /\ T = R \cup {x}
      BY <3>2
    <3>4. f[T] = w[x] + Total(Part(w, R))
      BY <2>2, <2>4, <3>1, <3>2
    <3>5. Total(Part(w, T)) = Total(Part(w, R)) + w[x]
      BY <3>3, TotalParts
    <3>6. Total(Part(w, R)) \in Nat /\ w[x] \in Nat
      BY <3>3, TotalParts
    <3> QED BY <3>4, <3>5, <3>6
  <2>5. SUBSET S \subseteq Good
    <3>1. IsFiniteSet(S) /\ \A T \in (SUBSET S) \ {{}} : pick[T] \in T
      BY <1>1
    <3> HIDE DEF Good
    <3> QED BY ONLY <2>3, <2>4, <3>1, SubsetsFrom
  <2>6. f[S] = Total(Part(w, S))
    BY <2>5
  <2> QED BY <2>6, TotalParts
<1> QED BY <1>4, <1>5

LEMMA TakenByIs ==
  ASSUME NEW S, IsFiniteSet(S), NEW w \in [S -> Nat] PROVE TakenBy(w) = Total(w)
<1> DEFINE it == CHOOSE f : Weighs(w, DOMAIN w, f)
<1>1. DOMAIN w = S
  OBVIOUS
<1>2. TakenBy(w) = it[DOMAIN w]
  BY DEF TakenBy, MapThenSumSet, MapThenFoldSet, Weighs
<1>3. Weighs(w, S, it)
  <2>1. \E f : Weighs(w, S, f)
    BY WeighsTotal
  <2> QED BY <1>1, <2>1
<1> HIDE DEF it
<1> QED BY <1>1, <1>2, <1>3, WeighsTotal

Costs(w, S, f) ==
  f = [T \in SUBSET S |->
         IF T = {} THEN 0
         ELSE w[CHOOSE x \in T : TRUE] * (Dollar - (CHOOSE x \in T : TRUE))
                + f[T \ {CHOOSE x \in T : TRUE}]]

LEMMA PaidByIs ==
  ASSUME NEW S \in SUBSET (1 .. Dollar - 1), IsFiniteSet(S), NEW w \in [S -> Nat]
  PROVE  PaidBy(w) = Total(PriceOf(w)) /\ PriceOf(w) \in [S -> Nat]
<1> DEFINE v == PriceOf(w)
           it == CHOOSE f : Costs(w, DOMAIN w, f)
<1>1. DOMAIN w = S
  OBVIOUS
<1>2. v \in [S -> Nat] /\ \A x \in S : v[x] = w[x] * (Dollar - x)
  <2>1. \A x \in S : w[x] * (Dollar - x) \in Nat
    BY DollarType
  <2> QED BY <2>1 DEF PriceOf
<1>3. PaidBy(w) = it[DOMAIN w]
  BY DEF PaidBy, MapThenSumSet, MapThenFoldSet, Costs
<1> HIDE DEF v
<1>4. \A f : Costs(w, S, f) <=> Weighs(v, S, f)
  <2> SUFFICES ASSUME NEW f PROVE Costs(w, S, f) <=> Weighs(v, S, f)
    OBVIOUS
  <2>1. \A T \in SUBSET S : T # {} => v[CHOOSE x \in T : TRUE]
                              = w[CHOOSE x \in T : TRUE] * (Dollar - (CHOOSE x \in T : TRUE))
    <3> SUFFICES ASSUME NEW T \in SUBSET S, T # {}
                 PROVE  v[CHOOSE x \in T : TRUE]
                          = w[CHOOSE x \in T : TRUE] * (Dollar - (CHOOSE x \in T : TRUE))
      OBVIOUS
    <3>1. (CHOOSE x \in T : TRUE) \in S
      OBVIOUS
    <3> QED BY <1>2, <3>1
  <2>2. [T \in SUBSET S |->
           IF T = {} THEN 0
           ELSE w[CHOOSE x \in T : TRUE] * (Dollar - (CHOOSE x \in T : TRUE))
                  + f[T \ {CHOOSE x \in T : TRUE}]]
        = [T \in SUBSET S |->
             IF T = {} THEN 0
             ELSE v[CHOOSE x \in T : TRUE] + f[T \ {CHOOSE x \in T : TRUE}]]
    BY <2>1
  <2> QED BY <2>2 DEF Costs, Weighs
<1>5. Costs(w, S, it)
  <2>1. \E f : Weighs(v, S, f)
    BY <1>2, WeighsTotal
  <2>2. \E f : Costs(w, S, f)
    BY <1>4, <2>1
  <2> QED BY <1>1, <2>2
<1> HIDE DEF it
<1>6. Weighs(v, S, it)
  BY <1>4, <1>5
<1>7. it[S] = Total(v)
  BY <1>2, <1>6, WeighsTotal
<1> QED BY <1>1, <1>2, <1>3, <1>7 DEF v

(* All the ways of filling an order, and the price of the cheapest of some. *)
AreWays(ways, bids, quantity) ==
  ways = {w \in [DOMAIN bids -> 0 .. quantity] :
            (\A p \in DOMAIN bids : w[p] <= bids[p]) /\ TakenBy(w) = quantity}
CheapestOf(ways) == Min({PaidBy(w) : w \in ways})

\* The least cost of a leg is what the walk comes to.
LEMMA LeastCostIs ==
  ASSUME NEW book, NEW side, NEW bids, bids = book[Opposite(side)], IsBids(bids),
         NEW levels, levels = AskLevels(book, side), IsLadder(levels),
         NEW quantity \in Nat \ {0}, Walked(levels, quantity).remaining = 0,
         NEW ways, AreWays(ways, bids, quantity)
  PROVE  CheapestOf(ways) = Walked(levels, quantity).cost
<1> DEFINE S == DOMAIN bids
           all == {PaidBy(w) : w \in ways}
           least == Walked(levels, quantity).cost
<1>1. S \in SUBSET (1 .. Dollar - 1) /\ IsFiniteSet(S) /\ \A p \in S : bids[p] \in Nat
  BY DEF IsBids
<1> HIDE DEF S
<1>2. ASSUME NEW w \in ways
      PROVE  /\ IsWay(w, bids, quantity) /\ PaidBy(w) = Total(PriceOf(w))
             /\ PaidBy(w) \in Nat
  <2>1. w \in [S -> 0 .. quantity] /\ (\A p \in S : w[p] <= bids[p]) /\ TakenBy(w) = quantity
    BY DEF AreWays, S
  <2>2. w \in [S -> Nat]
    BY <2>1
  <2>3. PriceOf(w) \in [S -> Nat] /\ PaidBy(w) = Total(PriceOf(w)) /\ TakenBy(w) = Total(w)
    BY <1>1, <2>2, TakenByIs, PaidByIs
  <2>4. Total(PriceOf(w)) \in Nat
    BY <1>1, <2>3, TotalType
  <2> QED BY <2>1, <2>2, <2>3, <2>4 DEF IsWay, S
<1>3. PICK g : IsWay(g, bids, quantity) /\ Total(PriceOf(g)) = least
  BY WalkIsCheapest
<1>4. g \in ways /\ PaidBy(g) = least
  <2>1. g \in [S -> Nat] /\ (\A p \in S : g[p] <= bids[p]) /\ Total(g) = quantity
    BY <1>3 DEF IsWay, S
  <2>2. TakenBy(g) = Total(g) /\ PaidBy(g) = Total(PriceOf(g))
    BY <1>1, <2>1, TakenByIs, PaidByIs
  <2>3. \A p \in S : g[p] \in 0 .. quantity
    <3> SUFFICES ASSUME NEW p \in S PROVE g[p] \in 0 .. quantity
      OBVIOUS
    <3>1. Total(g) = Total([g EXCEPT ![p] = 0]) + g[p]
      <4>1. IsFiniteSet(S) /\ g \in [S -> Nat] /\ p \in S
        BY <1>1, <2>1
      <4> QED BY ONLY <4>1, TotalSplit
    <3>2. [g EXCEPT ![p] = 0] \in [S -> Nat]
      BY <2>1
    <3>3. Total([g EXCEPT ![p] = 0]) \in Nat /\ g[p] \in Nat
      BY <1>1, <2>1, <3>2, TotalType
    <3> QED BY <2>1, <3>1, <3>3
  <2>4. g \in [S -> 0 .. quantity]
    BY <2>1, <2>3
  <2> QED BY <1>3, <2>1, <2>2, <2>4 DEF AreWays, S
<1>5. \A y \in all : y \in Int /\ least <= y
  <2> SUFFICES ASSUME NEW w \in ways PROVE PaidBy(w) \in Int /\ least <= PaidBy(w)
    OBVIOUS
  <2>1. least <= Total(PriceOf(w))
    BY <1>2, WalkIsCheapest
  <2> QED BY <1>2, <2>1
<1>6. least \in all
  BY <1>4
<1> HIDE DEF all, least
<1>7. \A x \in all : (\A y \in all : x <= y) => x = least
  <2> SUFFICES ASSUME NEW x \in all, \A y \in all : x <= y PROVE x = least
    OBVIOUS
  <2>1. x <= least /\ least <= x /\ x \in Int /\ least \in Int
    BY <1>5, <1>6
  <2> QED BY <2>1
<1>8. Min(all) = least
  BY <1>5, <1>6, <1>7 DEF Min
<1> QED BY <1>8 DEF CheapestOf, all, least

-----------------------------------------------------------------------------
(* What rounding does to a leg, and to all of them.                         *)

\* Amounts less than a divisor apart are rounded to quotients at most one apart.
LEMMA CeilDivNear ==
  ASSUME NEW a \in Int, NEW b \in Int, NEW d \in Nat \ {0}, a - b < d, b - a < d
  PROVE  CeilDiv(a, d) - CeilDiv(b, d) \in {-1, 0, 1}
<1>1. PICK x \in Int : x = CeilDiv(a, d) /\ a <= d * x /\ d * x < a + d
  BY CeilDivIs
<1>2. PICK y \in Int : y = CeilDiv(b, d) /\ b <= d * y /\ d * y < b + d
  BY CeilDivIs
<1>3. d * x \in Int /\ d * y \in Int
  OBVIOUS
<1>4. x - y < 2
  <2>1. SUFFICES ASSUME x >= y + 2 PROVE FALSE
    OBVIOUS
  <2>2. d * x >= d * (y + 2)
    BY <2>1
  <2>3. d * (y + 2) = d * y + 2 * d
    OBVIOUS
  <2> QED BY <1>1, <1>2, <1>3, <2>2, <2>3
<1>5. y - x < 2
  <2>1. SUFFICES ASSUME y >= x + 2 PROVE FALSE
    OBVIOUS
  <2>2. d * y >= d * (x + 2)
    BY <2>1
  <2>3. d * (x + 2) = d * x + 2 * d
    OBVIOUS
  <2> QED BY <1>1, <1>2, <1>3, <2>2, <2>3
<1>6. x - y \in {-1, 0, 1}
  BY <1>4, <1>5
<1> QED BY <1>1, <1>2, <1>6

(* A leg whose cost is rounded up by less than a cent, and whose fee is     *)
(* taken at the rounded cost, is less than a cent too cheap: the fee may be *)
(* a cent lower only when the cost is higher.                               *)
LEMMA LegRounding ==
  ASSUME NEW ticker, NEW quantity \in Nat \ {0}, NEW cost \in Nat,
         NEW rounded \in Nat, cost <= rounded, rounded < cost + Cent,
         rounded <= quantity * Dollar
  PROVE  LET paid == rounded + Fee(RuleFor(ticker), rounded, quantity)
             true == cost + Fee(RuleFor(ticker), cost, quantity)
         IN  - Cent < paid - true /\ paid - true < 2 * Cent
<1> DEFINE mult == RuleFor(ticker).multiplier
           full == quantity * Dollar
           den == 2 * quantity * Dollar * Dollar
           num(c) == 7 * mult * c * (quantity * Dollar - c)
<1>1. Cent \in Nat \ {0} /\ Dollar \in Nat \ {0} /\ Dollar = 100 * Cent
  BY EconomicsConstants, DollarType DEF Dollar
<1>2. mult \in {1, 2}
  BY DEF RuleFor, GeneralFee, IndexFee
<1>3. full \in Nat \ {0}
  BY <1>1
<1>4. den = 2 * (full * Dollar)
  <2> HIDE DEF full
  <2>1. 2 * quantity * Dollar * Dollar = 2 * ((quantity * Dollar) * Dollar)
    BY <1>1
  <2> QED BY <2>1 DEF full
<1>5. \A c \in Nat : Fee(RuleFor(ticker), c, quantity) = CeilDiv(num(c), den) * Cent
  BY DEF Fee
<1> HIDE DEF mult, den
<1>6. PICK k \in 0 .. 14 : k = 7 * mult
  BY <1>2
<1>7. \A c \in Nat : num(c) = k * (c * (full - c)) /\ num(c) \in Int
  <2> SUFFICES ASSUME NEW c \in Nat PROVE num(c) = k * (c * (full - c)) /\ num(c) \in Int
    OBVIOUS
  <2>1. PICK f \in Int : f = full - c /\ f = quantity * Dollar - c
    BY <1>3
  <2>2. num(c) = k * c * f
    BY <1>6, <2>1
  <2>3. k * c * f = k * (c * f) /\ k * c * f \in Int
    OBVIOUS
  <2> HIDE DEF full, num
  <2> QED BY <2>1, <2>2, <2>3
<1> HIDE DEF num, full
<1>8. PICK d \in Nat : rounded = cost + d /\ d < Cent
  <2>1. rounded - cost \in Nat /\ rounded = cost + (rounded - cost) /\ rounded - cost < Cent
    BY <1>1
  <2> QED BY <2>1
<1> DEFINE z == full - 2 * cost - d
<1>9. z \in Int /\ z <= full /\ -full <= z
  <2>1. cost + d <= full
    BY <1>8 DEF full
  <2> QED BY <1>3, <1>8, <2>1
<1>10. rounded * (full - rounded) = cost * (full - cost) + d * z
  <2>1. PICK f \in Int : f = full - cost
    BY <1>3
  <2>2. full - rounded = f - d /\ z = f - cost - d
    BY <1>3, <1>8, <2>1
  <2>3. (cost + d) * (f - d) = cost * f - cost * d + d * (f - d)
    OBVIOUS
  <2>4. d * (f - cost - d) = d * (f - d) - cost * d
    OBVIOUS
  <2>5. (cost + d) * (f - d) = cost * f + d * (f - cost - d)
    <3>1. cost * f \in Int /\ cost * d \in Int /\ d * (f - d) \in Int
      OBVIOUS
    <3> QED BY <2>3, <2>4, <3>1
  <2> HIDE DEF z
  <2> QED BY <1>8, <2>1, <2>2, <2>5
<1> HIDE DEF z
<1>11. num(rounded) = num(cost) + k * (d * z)
  <2>1. PICK a \in Int : a = cost * (full - cost)
    BY <1>3
  <2>2. PICK b \in Int : b = d * z
    BY <1>9
  <2>3. k * (a + b) = k * a + k * b
    OBVIOUS
  <2> QED BY <1>7, <1>10, <2>1, <2>2, <2>3
<1> DEFINE reach == Cent * full
<1>12. reach \in Nat \ {0} /\ den = 200 * reach
  <2>1. full * (100 * Cent) = 100 * (Cent * full)
    BY <1>1, <1>3
  <2>2. reach \in Nat \ {0}
    BY <1>1, <1>3
  <2>3. full * Dollar = 100 * reach
    BY <1>1, <2>1
  <2> QED BY <1>4, <2>2, <2>3
<1>13. d * z \in Int /\ d * z <= reach /\ - reach <= d * z
  <2>1. d * z <= d * full
    BY <1>3, <1>9
  <2>2. - (d * full) <= d * z
    <3>1. d * (-full) <= d * z
      BY <1>3, <1>9
    <3>2. d * (-full) = - (d * full)
      BY <1>3
    <3> QED BY <3>1, <3>2
  <2>3. d * full <= Cent * full
    BY <1>1, <1>3, <1>8
  <2>4. d * z \in Int /\ d * full \in Int /\ Cent * full \in Int
    BY <1>1, <1>3, <1>9
  <2> QED BY <2>1, <2>2, <2>3, <2>4
<1> HIDE DEF reach
<1>14. PICK e \in Int : /\ e = k * (d * z) /\ e < 200 * reach /\ - e < 200 * reach
                        /\ d = 0 => e = 0
  <2>1. PICK b \in Int : b = d * z /\ b <= reach /\ - reach <= b
    BY <1>13
  <2>2. k * b \in Int
    OBVIOUS
  <2>3. k * b <= k * reach /\ k * (- reach) <= k * b /\ k * (- reach) = - (k * reach)
    BY <1>12, <2>1
  <2>4. k * reach <= 14 * reach /\ k * reach \in Int
    BY <1>12
  <2>5. 14 * reach < 200 * reach
    BY <1>12
  <2>6. k * b < 200 * reach /\ - (k * b) < 200 * reach
    BY <1>12, <2>2, <2>3, <2>4, <2>5
  <2>7. d = 0 => k * b = 0
    BY <1>9, <2>1
  <2> QED BY <2>1, <2>2, <2>6, <2>7
<1> DEFINE x == CeilDiv(num(rounded), den)
           y == CeilDiv(num(cost), den)
<1>15. x \in Int /\ y \in Int /\ x - y \in {-1, 0, 1} /\ (d = 0 => x = y)
  <2>1. PICK m, n : m = num(rounded) /\ n = num(cost)
    OBVIOUS
  <2>2. m \in Int /\ n \in Int /\ m = n + e
    BY <1>7, <1>11, <1>14, <2>1
  <2>3. den \in Nat \ {0}
    BY <1>12
  <2>4. m - n < den /\ n - m < den
    BY <1>12, <1>14, <2>2
  <2>5. CeilDiv(m, den) - CeilDiv(n, den) \in {-1, 0, 1}
    BY <2>2, <2>3, <2>4, CeilDivNear
  <2>6. CeilDiv(m, den) \in Int /\ CeilDiv(n, den) \in Int
    BY <2>2, <2>3, CeilDivIs
  <2>7. d = 0 => m = n
    BY <1>14, <2>2
  <2> QED BY <2>1, <2>5, <2>6, <2>7
<1> HIDE DEF x, y
<1>16. x * Cent - y * Cent \in {- Cent, 0, Cent} /\ (d = 0 => x * Cent = y * Cent)
  <2>1. x = y - 1 \/ x = y \/ x = y + 1
    BY <1>15
  <2>2. (y - 1) * Cent = y * Cent - Cent /\ (y + 1) * Cent = y * Cent + Cent
    BY <1>1, <1>15
  <2>3. y * Cent \in Int
    BY <1>1, <1>15
  <2> QED BY <1>1, <1>15, <2>1, <2>2, <2>3
<1>17. /\ Fee(RuleFor(ticker), rounded, quantity) = x * Cent
       /\ Fee(RuleFor(ticker), cost, quantity) = y * Cent
  BY <1>5 DEF x, y
<1>18. x * Cent \in Int /\ y * Cent \in Int
  BY <1>1, <1>15
<1>19. - Cent < (rounded + x * Cent) - (cost + y * Cent)
       /\ (rounded + x * Cent) - (cost + y * Cent) < 2 * Cent
  <2>1. PICK s, t \in Int : s = x * Cent /\ t = y * Cent
    BY <1>18
  <2>2. s - t \in {- Cent, 0, Cent} /\ (d = 0 => s = t)
    BY <1>16, <2>1
  <2>3. - Cent < (rounded + s) - (cost + t) /\ (rounded + s) - (cost + t) < 2 * Cent
    BY <1>1, <1>8, <2>2
  <2> QED BY <2>1, <2>3
<1> QED BY <1>17, <1>19

\* Sums are linear, and as far apart as their amounts.
Linear(n, a, b, c, k) == \A i \in 1 .. n : a[i] = b[i] + k * c[i]

LEMMA SumLinear ==
  ASSUME NEW n \in Nat, NEW a \in [1 .. n -> Int], NEW b \in [1 .. n -> Int],
         NEW c \in [1 .. n -> Int], NEW k \in Int, Linear(n, a, b, c, k)
  PROVE  /\ SumOver(a) \in Int /\ SumOver(b) \in Int /\ SumOver(c) \in Int
         /\ SumOver(a) = SumOver(b) + k * SumOver(c)
<1>1. PICK f \in [0 .. n -> Int] :
        f[0] = 0 /\ (\A i \in 1 .. n : f[i] = f[i - 1] + a[i]) /\ SumOver(a) = f[n]
  BY SumRuns
<1>2. PICK g \in [0 .. n -> Int] :
        g[0] = 0 /\ (\A i \in 1 .. n : g[i] = g[i - 1] + b[i]) /\ SumOver(b) = g[n]
  BY SumRuns
<1>3. PICK h \in [0 .. n -> Int] :
        h[0] = 0 /\ (\A i \in 1 .. n : h[i] = h[i - 1] + c[i]) /\ SumOver(c) = h[n]
  BY SumRuns
<1> DEFINE N == {i \in Nat : i \in 0 .. n => f[i] = g[i] + k * h[i]}
<1>4. 0 \in N
  BY <1>1, <1>2, <1>3
<1>5. ASSUME NEW i \in N PROVE i + 1 \in N
  <2>1. SUFFICES ASSUME i + 1 \in 0 .. n PROVE f[i + 1] = g[i + 1] + k * h[i + 1]
    OBVIOUS
  <2>2. i \in 0 .. n /\ i + 1 \in 1 .. n /\ (i + 1) - 1 = i
    BY <2>1
  <2>3. PICK x, y, z \in Int : x = f[i] /\ y = g[i] /\ z = h[i]
    BY <2>2
  <2>4. PICK p, q, r \in Int : p = a[i + 1] /\ q = b[i + 1] /\ r = c[i + 1]
    BY <2>2
  <2>5. f[i + 1] = x + p /\ g[i + 1] = y + q /\ h[i + 1] = z + r
    BY <1>1, <1>2, <1>3, <2>2, <2>3, <2>4
  <2>6. x = y + k * z /\ p = q + k * r
    BY <2>2, <2>3, <2>4 DEF Linear
  <2>7. k * (z + r) = k * z + k * r /\ k * z \in Int /\ k * r \in Int
    OBVIOUS
  <2>8. x + p = (y + q) + k * (z + r)
    BY <2>6, <2>7
  <2> QED BY <2>5, <2>8
<1>6. N \in SUBSET Nat
  OBVIOUS
<1> HIDE DEF N
<1>7. N = Nat
  BY <1>4, <1>5, <1>6, NaturalsFrom
<1>8. f[n] \in Int /\ g[n] \in Int /\ h[n] \in Int
  OBVIOUS
<1>9. f[n] = g[n] + k * h[n]
  <2>1. n \in N /\ n \in 0 .. n
    BY <1>7
  <2> QED BY <2>1 DEF N
<1> QED BY <1>1, <1>2, <1>3, <1>8, <1>9

LEMMA SumAdds ==
  ASSUME NEW n \in Nat, NEW a \in [1 .. n -> Int], NEW b \in [1 .. n -> Int],
         NEW c \in [1 .. n -> Int], \A i \in 1 .. n : a[i] = b[i] + c[i]
  PROVE  /\ SumOver(a) \in Int /\ SumOver(b) \in Int /\ SumOver(c) \in Int
         /\ SumOver(a) = SumOver(b) + SumOver(c)
<1>1. PICK k \in Int : k = 1
  OBVIOUS
<1>2. \A x \in Int : k * x = x
  BY <1>1
<1>3. Linear(n, a, b, c, k)
  BY <1>2 DEF Linear
<1>4. /\ SumOver(a) \in Int /\ SumOver(b) \in Int /\ SumOver(c) \in Int
      /\ SumOver(a) = SumOver(b) + k * SumOver(c)
  BY ZenonT(30), <1>3, SumLinear
<1> QED BY <1>2, <1>4

\* A sum of multiples.
LEMMA SumScaled ==
  ASSUME NEW n \in Nat, NEW b \in [1 .. n -> Int], NEW qb \in [1 .. n -> Int], NEW q \in Int,
         \A i \in 1 .. n : qb[i] = q * b[i]
  PROVE  SumOver(b) \in Int /\ SumOver(qb) \in Int /\ SumOver(qb) = q * SumOver(b)
<1> DEFINE none == [i \in 1 .. n |-> 0]
<1>1. none \in [1 .. n -> Int] /\ \A i \in 1 .. n : none[i] = none[i] + none[i]
  OBVIOUS
<1>2. Linear(n, qb, none, b, q)
  <2> SUFFICES ASSUME NEW i \in 1 .. n PROVE qb[i] = none[i] + q * b[i]
    BY DEF Linear
  <2>1. qb[i] \in Int /\ none[i] = 0 /\ qb[i] = q * b[i]
    OBVIOUS
  <2> QED BY <2>1
<1> HIDE DEF none
<1>3. SumOver(none) \in Int /\ SumOver(none) = SumOver(none) + SumOver(none)
  BY <1>1, SumAdds
<1>4. SumOver(none) = 0
  <2>1. PICK x \in Int : x = SumOver(none)
    BY <1>3
  <2>2. x = x + x
    BY <1>3, <2>1
  <2>3. x = 0
    BY <2>2
  <2> QED BY <2>1, <2>3
<1>5. /\ SumOver(qb) \in Int /\ SumOver(b) \in Int
      /\ SumOver(qb) = SumOver(none) + q * SumOver(b)
  <2>1. none \in [1 .. n -> Int]
    BY <1>1
  <2>2. n \in Nat /\ q \in Int /\ b \in [1 .. n -> Int] /\ qb \in [1 .. n -> Int]
    OBVIOUS
  <2> QED BY ONLY ZenonT(60), <1>2, <2>1, <2>2, SumLinear
<1>6. PICK x, y \in Int : x = SumOver(b) /\ y = q * x
  BY <1>5
<1> QED BY <1>4, <1>5, <1>6

LEMMA SumApart ==
  ASSUME NEW n \in Nat \ {0}, NEW a \in [1 .. n -> Int], NEW b \in [1 .. n -> Int],
         NEW low \in Int, NEW high \in Int,
         \A i \in 1 .. n : low < a[i] - b[i] /\ a[i] - b[i] < high
  PROVE  /\ SumOver(a) \in Int /\ SumOver(b) \in Int
         /\ n * low < SumOver(a) - SumOver(b) /\ SumOver(a) - SumOver(b) < n * high
<1>1. PICK f \in [0 .. n -> Int] :
        f[0] = 0 /\ (\A i \in 1 .. n : f[i] = f[i - 1] + a[i]) /\ SumOver(a) = f[n]
  BY SumRuns
<1>2. PICK g \in [0 .. n -> Int] :
        g[0] = 0 /\ (\A i \in 1 .. n : g[i] = g[i - 1] + b[i]) /\ SumOver(b) = g[n]
  BY SumRuns
<1> DEFINE Within(i) == i * low + i <= f[i] - g[i] /\ f[i] - g[i] <= i * high - i
           N == {i \in Nat : i \in 0 .. n => Within(i)}
<1>3. 0 \in N
  <2>1. 0 * low = 0 /\ 0 * high = 0
    OBVIOUS
  <2>2. Within(0)
    BY <1>1, <1>2, <2>1
  <2> QED BY <2>2
<1>4. ASSUME NEW i \in N PROVE i + 1 \in N
  <2>1. SUFFICES ASSUME i + 1 \in 0 .. n PROVE Within(i + 1)
    OBVIOUS
  <2>2. i \in 0 .. n /\ i + 1 \in 1 .. n /\ (i + 1) - 1 = i
    BY <2>1
  <2>3. PICK x, y \in Int : x = f[i] /\ y = g[i]
    BY <2>2
  <2>4. PICK p, q \in Int : p = a[i + 1] /\ q = b[i + 1]
    BY <2>2
  <2>5. f[i + 1] = x + p /\ g[i + 1] = y + q
    BY <1>1, <1>2, <2>2, <2>3, <2>4
  <2>6. PICK l, h \in Int : l = i * low /\ h = i * high
    OBVIOUS
  <2>7. l + i <= x - y /\ x - y <= h - i
    BY <2>2, <2>3, <2>6
  <2>8. low < p - q /\ p - q < high
    BY <2>2, <2>4
  <2>9. PICK j, k \in Int : j = (i + 1) * low /\ k = (i + 1) * high /\ j = l + low /\ k = h + high
    BY <2>6
  <2>10. j + (i + 1) <= (x + p) - (y + q) /\ (x + p) - (y + q) <= k - (i + 1)
    BY <2>7, <2>8, <2>9
  <2>11. j + (i + 1) <= f[i + 1] - g[i + 1] /\ f[i + 1] - g[i + 1] <= k - (i + 1)
    BY <2>5, <2>10
  <2> QED BY <2>9, <2>11
<1>5. N \in SUBSET Nat
  OBVIOUS
<1> HIDE DEF N, Within
<1>6. N = Nat
  BY <1>3, <1>4, <1>5, NaturalsFrom
<1>7. f[n] \in Int /\ g[n] \in Int /\ n * low \in Int /\ n * high \in Int
  OBVIOUS
<1>8. n * low + n <= f[n] - g[n] /\ f[n] - g[n] <= n * high - n
  <2>1. n \in N /\ n \in 0 .. n
    BY <1>6
  <2> QED BY <2>1 DEF N, Within
<1>9. n * low < f[n] - g[n] /\ f[n] - g[n] < n * high
  <2>1. PICK l, h, x, y \in Int : l = n * low /\ h = n * high /\ x = f[n] /\ y = g[n]
    BY <1>7
  <2>2. l + n <= x - y /\ x - y <= h - n
    BY <1>8, <2>1
  <2>3. l < x - y /\ x - y < h
    BY <2>2
  <2> QED BY <2>1, <2>3
<1> QED BY <1>1, <1>2, <1>7, <1>9

-----------------------------------------------------------------------------
(* A leg: what it costs to the tick, and what it is quoted at.              *)

LEMMA TotalSingle ==
  ASSUME NEW S, IsFiniteSet(S), NEW j \in S, NEW n \in Nat
  PROVE  Total([i \in S |-> IF i = j THEN n ELSE 0]) = n
<1> DEFINE w == [i \in S |-> IF i = j THEN n ELSE 0]
<1>1. w \in [S -> Nat] /\ w[j] = n /\ [w EXCEPT ![j] = 0] = [i \in S |-> 0]
  OBVIOUS
<1> HIDE DEF w
<1>2. Total(w) = Total([i \in S |-> 0]) + n
  BY <1>1, TotalSplit
<1>3. Total([i \in S |-> 0]) = 0
  BY TotalZero
<1>4. Total(w) = n
  BY <1>2, <1>3
<1> QED BY <1>4 DEF w

\* A walk costs no less than the best price for all of it, no more than a dollar each, and
\* no more than the best price where the best level suffices.
LEMMA WalkAndBest ==
  ASSUME NEW book, NEW side, NEW bids, bids = book[Opposite(side)], IsBids(bids),
         NEW levels, levels = AskLevels(book, side), IsLadder(levels),
         NEW quantity \in Nat \ {0}, Walked(levels, quantity).remaining = 0
  PROVE  LET best == Dollar - BestPrice(bids)
             cost == Walked(levels, quantity).cost
         IN  /\ DOMAIN bids # {} /\ best \in Nat /\ bids[BestPrice(bids)] \in Nat
             /\ quantity * best <= cost /\ cost <= quantity * Dollar
             /\ quantity <= bids[BestPrice(bids)] => cost <= quantity * best
<1> DEFINE S == DOMAIN bids
<1>1. S \in SUBSET (1 .. Dollar - 1) /\ IsFiniteSet(S) /\ \A p \in S : bids[p] \in Nat
  BY DEF IsBids
<1>2. PICK g : IsWay(g, bids, quantity) /\ Total(PriceOf(g)) = Walked(levels, quantity).cost
  BY WalkIsCheapest
<1>3. g \in [S -> Nat] /\ Total(g) = quantity
  BY <1>2 DEF IsWay
<1>4. \A w : IsWay(w, bids, quantity) => Walked(levels, quantity).cost <= Total(PriceOf(w))
  BY WalkIsCheapest
<1> HIDE DEF S
<1>5. S # {}
  <2> SUFFICES ASSUME S = {} PROVE FALSE
    OBVIOUS
  <2>1. g = [i \in S |-> 0]
    BY <1>3
  <2>2. Total([i \in S |-> 0]) = 0
    BY TotalZero
  <2> QED BY <1>3, <2>1, <2>2
<1> DEFINE top == Max(S)
<1>6. top \in S /\ \A p \in S : top >= p
  <2>1. S \in SUBSET Int
    BY <1>1, DollarType
  <2> QED BY <1>1, <1>5, <2>1, MaxOfIntegers
<1>7. BestPrice(bids) = top
  BY <1>5 DEF BestPrice, S
<1> HIDE DEF top
<1>8. Dollar \in Nat /\ top \in Nat /\ Dollar - top \in Nat
  BY <1>1, <1>6, DollarType
<1>9. PICK best \in Nat : best = Dollar - top
  BY <1>8
<1>10. PICK v : v = PriceOf(g) /\ v \in [S -> Nat] /\ \A p \in S : v[p] = g[p] * (Dollar - p)
  <2>1. PriceOf(g) \in [S -> Nat]
    BY <1>1, <1>3, PaidByIs
  <2>2. \A p \in S : PriceOf(g)[p] = g[p] * (Dollar - p)
    BY <1>3 DEF PriceOf
  <2> QED BY <2>1, <2>2
<1> DEFINE none == [p \in S |-> 0]
           scaled(k) == [p \in S |-> k * g[p]]
<1>11. ASSUME NEW k \in Nat PROVE scaled(k) \in [S -> Nat] /\ Total(scaled(k)) = k * quantity
  <2>1. \A p \in S : k * g[p] \in Nat
    BY <1>3
  <2>2. scaled(k) \in [S -> Nat]
    BY <2>1
  <2>3. none \in [S -> Nat] /\ Total(none) = 0
    BY TotalZero
  <2>4. \A p \in S : scaled(k)[p] = none[p] + k * g[p]
    BY <2>1
  <2> HIDE DEF none, scaled
  <2>5. Total(scaled(k)) = Total(none) + k * Total(g)
    <3>1. IsFiniteSet(S) /\ g \in [S -> Nat] /\ none \in [S -> Nat] /\ k \in Nat
      BY <1>1, <1>3, <2>3
    <3> QED BY ONLY <2>2, <2>4, <3>1, TotalLinear
  <2>6. k * quantity \in Nat
    OBVIOUS
  <2> QED BY <1>3, <2>2, <2>3, <2>5, <2>6
<1> HIDE DEF none
<1>12. \A p \in S : scaled(best)[p] <= v[p] /\ v[p] <= scaled(Dollar)[p]
  <2> SUFFICES ASSUME NEW p \in S PROVE best * g[p] <= v[p] /\ v[p] <= Dollar * g[p]
    OBVIOUS
  <2>1. PICK m \in Nat : m = g[p]
    BY <1>3
  <2>2. PICK e \in Nat : e = Dollar - p /\ best <= e /\ e <= Dollar
    BY <1>1, <1>6, <1>8, <1>9
  <2>3. m * best <= m * e /\ m * e <= m * Dollar /\ m * best = best * m /\ m * Dollar = Dollar * m
    BY <1>8, <2>2
  <2> QED BY <1>10, <2>1, <2>2, <2>3
<1> HIDE DEF scaled
<1>13. Total(scaled(best)) <= Total(v)
  <2>1. IsFiniteSet(S) /\ scaled(best) \in [S -> Nat] /\ v \in [S -> Nat]
        /\ \A p \in S : scaled(best)[p] <= v[p]
    BY <1>1, <1>10, <1>11, <1>12
  <2> QED BY ONLY <2>1, TotalMonotone
<1>14. Total(v) <= Total(scaled(Dollar))
  <2>1. IsFiniteSet(S) /\ scaled(Dollar) \in [S -> Nat] /\ v \in [S -> Nat]
        /\ \A p \in S : v[p] <= scaled(Dollar)[p]
    BY <1>1, <1>8, <1>10, <1>11, <1>12
  <2> QED BY ONLY <2>1, TotalMonotone
<1>15. /\ quantity * best <= Walked(levels, quantity).cost
       /\ Walked(levels, quantity).cost <= quantity * Dollar
  <2>1. best * quantity = quantity * best /\ Dollar * quantity = quantity * Dollar
    BY <1>8
  <2> QED BY <1>2, <1>8, <1>10, <1>11, <1>13, <1>14, <2>1
<1>16. ASSUME quantity <= bids[top] PROVE Walked(levels, quantity).cost <= quantity * best
  <2> DEFINE w == [p \in S |-> IF p = top THEN quantity ELSE 0]
  <2>1. w \in [S -> Nat] /\ \A p \in S : w[p] <= bids[p]
    BY <1>1, <1>6, <1>16
  <2>2. Total(w) = quantity
    <3>1. IsFiniteSet(S) /\ top \in S /\ quantity \in Nat
      BY <1>1, <1>6
    <3>2. Total([p \in S |-> IF p = top THEN quantity ELSE 0]) = quantity
      BY ONLY <3>1, TotalSingle
    <3> QED BY <3>2
  <2>3. PICK c \in Nat : c = quantity * best
    OBVIOUS
  <2>4. PriceOf(w) = [p \in S |-> IF p = top THEN c ELSE 0]
    <3>1. ASSUME NEW p \in S PROVE w[p] * (Dollar - p) = IF p = top THEN c ELSE 0
      <4>1. Dollar - p \in Int
        BY <1>1, <1>8
      <4>2. CASE p = top
        BY <1>9, <2>3, <4>2
      <4>3. CASE p # top
        <5>1. 0 * (Dollar - p) = 0
          BY <4>1
        <5> QED BY <4>3, <5>1
      <4> QED BY <4>2, <4>3
    <3>2. DOMAIN w = S
      OBVIOUS
    <3> HIDE DEF w
    <3> QED BY <3>1, <3>2 DEF PriceOf
  <2>5. Total(PriceOf(w)) = c
    <3>1. IsFiniteSet(S) /\ top \in S /\ c \in Nat
      BY <1>1, <1>6
    <3>2. Total([p \in S |-> IF p = top THEN c ELSE 0]) = c
      BY ONLY <3>1, TotalSingle
    <3> QED BY <2>4, <3>2
  <2>6. IsWay(w, bids, quantity)
    <3> HIDE DEF w
    <3> QED BY <2>1, <2>2 DEF IsWay, S
  <2> HIDE DEF w
  <2> QED BY <1>4, <2>3, <2>5, <2>6
<1>17. bids[top] \in Nat /\ DOMAIN bids # {}
  BY <1>1, <1>5, <1>6 DEF S
<1> QED BY <1>7, <1>8, <1>9, <1>15, <1>16, <1>17

(* What a leg costs before any rounding. *)
LegCost(r, leg) == Walked(AskLevels(r.books[leg.ticker], leg.side), r.quantity).cost

\* The cost a leg is quoted at is the true one, rounded up, and no more than a dollar each.
LEMMA LegIs ==
  ASSUME NEW r, IsRequest(r), r.quantity # 0, NEW leg, LegReason(r, leg) = "none"
  PROVE  LET bids == r.books[leg.ticker][Opposite(leg.side)]
             best == Dollar - BestPrice(bids)
             quoted == QuoteLeg(r, leg)
             fee == Fee(RuleFor(leg.ticker), LegCost(r, leg), r.quantity)
         IN  /\ LegCost(r, leg) \in Nat
             /\ quoted.cost \in Nat /\ quoted.fee \in Int /\ fee \in Int
             /\ WholeCents(quoted.cost)
             /\ LegCost(r, leg) <= quoted.cost /\ quoted.cost < LegCost(r, leg) + Cent
             /\ quoted.cost <= r.quantity * Dollar
             /\ - Cent < (quoted.cost + quoted.fee) - (LegCost(r, leg) + fee)
             /\ (quoted.cost + quoted.fee) - (LegCost(r, leg) + fee) < 2 * Cent
             /\ DOMAIN bids # {} /\ best \in Nat /\ bids[BestPrice(bids)] \in Nat
             /\ r.quantity * best <= LegCost(r, leg)
             /\ r.quantity <= bids[BestPrice(bids)] => LegCost(r, leg) <= r.quantity * best
<1>1. PICK book, side, offers, bids :
        /\ book = r.books[leg.ticker] /\ side = leg.side /\ offers = AskLevels(book, side)
        /\ bids = book[Opposite(side)]
  OBVIOUS
<1>2. PICK q \in Nat \ {0} : q = r.quantity
  BY DEF IsRequest
<1>3. PICK stand : stand = Walked(offers, q)
  OBVIOUS
<1>4. /\ IsLadder(offers) /\ stand \in Standing /\ stand.remaining = 0
      /\ QuoteLeg(r, leg).cost = QuantizeCost(stand.cost)
      /\ QuoteLeg(r, leg).cost \in Int /\ QuoteLeg(r, leg).fee \in Int
  BY <1>1, <1>2, <1>3, QuoteIs
<1>5. IsBids(bids)
  <2>1. IsBook(book)
    BY <1>1 DEF LegReason, IsRequest
  <2> QED BY <1>1, <2>1, BookBids
<1>6. stand.cost \in Nat /\ LegCost(r, leg) = stand.cost
  BY <1>1, <1>2, <1>3, <1>4 DEF Standing, LegCost
<1>7. PICK best, most : best = Dollar - BestPrice(bids) /\ most = bids[BestPrice(bids)]
  OBVIOUS
<1>8. /\ DOMAIN bids # {} /\ best \in Nat /\ most \in Nat
      /\ q * best <= stand.cost /\ stand.cost <= q * Dollar
      /\ q <= most => stand.cost <= q * best
  <2>1. IsLadder(offers) /\ Walked(offers, q).remaining = 0
    BY <1>3, <1>4
  <2> QED BY ZenonT(30), <1>1, <1>3, <1>5, <1>7, <2>1, WalkAndBest
<1>9. PICK cost \in Nat, quoted \in Int : cost = stand.cost /\ quoted = QuantizeCost(cost)
  BY <1>4, <1>6
<1>10. /\ cost <= quoted /\ quoted < cost + Cent /\ WholeCents(quoted) /\ quoted \in Nat
  BY <1>9, CostRoundsUp
<1>11. quoted <= q * Dollar
  <2>1. q * Dollar \in Int /\ WholeCents(q * Dollar)
    <3>1. Cent \in Nat /\ Dollar = 100 * Cent
      BY EconomicsConstants DEF Dollar
    <3>2. q * (100 * Cent) = (100 * q) * Cent /\ 100 * q \in Int /\ (100 * q) * Cent \in Int
      BY <3>1
    <3> QED BY <3>1, <3>2 DEF WholeCents
  <2>2. cost \in Int /\ cost <= q * Dollar
    BY <1>8, <1>9
  <2> QED BY <1>9, <2>1, <2>2, CostIsLeastWhole
<1>12. PICK f, t : f = Fee(RuleFor(leg.ticker), quoted, q) /\ t = Fee(RuleFor(leg.ticker), cost, q)
  OBVIOUS
<1>13. - Cent < (quoted + f) - (cost + t) /\ (quoted + f) - (cost + t) < 2 * Cent
  BY <1>10, <1>11, <1>12, LegRounding
<1>14. QuoteLeg(r, leg).cost = quoted /\ QuoteLeg(r, leg).fee = f /\ f \in Int /\ t \in Int
  <2>1. QuoteLeg(r, leg).cost = quoted
    BY <1>4, <1>9
  <2>2. QuoteLeg(r, leg).fee = Fee(RuleFor(leg.ticker), QuoteLeg(r, leg).cost, r.quantity)
    BY DEF QuoteLeg
  <2>3. t \in Int
    BY <1>12, FeeType
  <2> QED BY <1>2, <1>4, <1>12, <2>1, <2>2, <2>3
<1>15. LegCost(r, leg) = cost /\ Fee(RuleFor(leg.ticker), LegCost(r, leg), r.quantity) = t
  BY <1>2, <1>6, <1>9, <1>12
<1> QED BY <1>1, <1>2, <1>7, <1>8, <1>9, <1>10, <1>11, <1>13, <1>14, <1>15

-----------------------------------------------------------------------------
(* The edge.                                                               *)

\* What is accepted is quoted leg by leg.
LEMMA AcceptedLegs ==
  ASSUME PricingInv, evaluation.accepted
  PROVE  /\ Len(legs) \in Nat \ {0} /\ DOMAIN legs = 1 .. Len(legs)
         /\ IsRequest(request) /\ request.legs = legs /\ request.quantity \in Nat \ {0}
         /\ \A i \in DOMAIN legs : LegReason(request, legs[i]) = "none"
<1>1. /\ Registered /\ Asked /\ request.quantity \in Nat \ {0}
      /\ \A i \in DOMAIN legs : LegReason(request, legs[i]) = "none"
      /\ Partition => Len(legs) >= 2
  BY AcceptedIs
<1>2. Len(legs) \in Nat /\ DOMAIN legs = 1 .. Len(legs)
  BY <1>1 DEF Registered
<1>3. Len(legs) # 0
  <2>1. CASE Partition
    BY <1>1, <2>1
  <2>2. CASE ~ Partition
    BY <2>2 DEF Partition, ImplicationLegs
  <2> QED BY <2>1, <2>2
<1> QED BY <1>1, <1>2, <1>3 DEF Asked

\* The least cost of a leg, over all the ways of taking it, is what the walk comes to.
LEMMA LeastIsWalked ==
  ASSUME NEW leg, IsRequest(request), request.quantity # 0, LegReason(request, leg) = "none"
  PROVE  LeastCost(leg, request.quantity) = LegCost(request, leg)
<1>1. PICK r, q : r = request /\ q = request.quantity
  OBVIOUS
<1>2. PICK book, side, offers, bids :
        /\ book = r.books[leg.ticker] /\ side = leg.side /\ offers = AskLevels(book, side)
        /\ bids = book[Opposite(side)]
  OBVIOUS
<1>3. PICK ways : AreWays(ways, bids, q)
  BY DEF AreWays
<1>4. LeastCost(leg, q) = CheapestOf(ways)
  BY <1>1, <1>2, <1>3 DEF LeastCost, AreWays, CheapestOf
<1>5. IsLadder(offers) /\ Walked(offers, q).remaining = 0
  <2>1. IsRequest(r) /\ r.quantity # 0 /\ LegReason(r, leg) = "none" /\ q = r.quantity
    BY <1>1
  <2> QED BY <1>2, <2>1, QuoteIs
<1>6. IsBids(bids)
  <2>1. IsBook(book)
    BY <1>1, <1>2 DEF LegReason, IsRequest
  <2> QED BY <1>2, <2>1, BookBids
<1>7. q \in Nat \ {0}
  BY <1>1 DEF IsRequest
<1>8. CheapestOf(ways) = Walked(offers, q).cost
  <2>1. bids = book[Opposite(side)] /\ offers = AskLevels(book, side)
    BY <1>2
  <2> QED BY <1>3, <1>5, <1>6, <1>7, <2>1, LeastCostIs
<1>9. LegCost(request, leg) = Walked(offers, q).cost
  BY <1>1, <1>2 DEF LegCost
<1> QED BY <1>1, <1>4, <1>8, <1>9

\* What the legs cost and are charged is near what they would be unrounded.
LEMMA LegSums ==
  ASSUME PricingInv, evaluation.accepted
  PROVE  LET cost == [k \in DOMAIN legs |-> LeastCost(legs[k], request.quantity)]
             fee == [k \in DOMAIN legs |-> Fee(RuleFor(legs[k].ticker), cost[k], request.quantity)]
             spent == evaluation.acquisition + evaluation.fees
             true == SumOver(cost) + SumOver(fee)
         IN  /\ SumOver(cost) \in Int /\ SumOver(fee) \in Int /\ spent \in Int
             /\ - (Len(legs) * Cent) < spent - true
             /\ spent - true < 2 * (Len(legs) * Cent)
<1>1. PICK n, L, r, e : n = Len(legs) /\ L = legs /\ r = request /\ e = evaluation
  OBVIOUS
<1>2. /\ n \in Nat \ {0} /\ DOMAIN L = 1 .. n /\ IsRequest(r) /\ r.quantity # 0
      /\ \A i \in 1 .. n : LegReason(r, L[i]) = "none"
  BY <1>1, AcceptedLegs
<1>3. Cent \in Nat \ {0}
  BY EconomicsConstants
<1> DEFINE C == [k \in 1 .. n |-> QuoteLeg(r, L[k]).cost]
           F == [k \in 1 .. n |-> QuoteLeg(r, L[k]).fee]
           c == [k \in 1 .. n |-> LegCost(r, L[k])]
           f == [k \in 1 .. n |-> Fee(RuleFor(L[k].ticker), LegCost(r, L[k]), r.quantity)]
           A == [k \in 1 .. n |-> C[k] + F[k]]
           B == [k \in 1 .. n |-> c[k] + f[k]]
<1>4. ASSUME NEW i \in 1 .. n
      PROVE  /\ C[i] \in Int /\ F[i] \in Int /\ c[i] \in Int /\ f[i] \in Int /\ WholeCents(C[i])
             /\ - Cent < (C[i] + F[i]) - (c[i] + f[i]) /\ (C[i] + F[i]) - (c[i] + f[i]) < 2 * Cent
  <2>1. PICK leg : leg = L[i]
    OBVIOUS
  <2>2. LegReason(r, leg) = "none"
    BY <1>2, <2>1
  <2>3. PICK quoted, full, fee :
          /\ quoted = QuoteLeg(r, leg) /\ full = LegCost(r, leg)
          /\ fee = Fee(RuleFor(leg.ticker), full, r.quantity)
    OBVIOUS
  <2>4. /\ full \in Nat /\ quoted.cost \in Nat /\ quoted.fee \in Int /\ fee \in Int
        /\ WholeCents(quoted.cost)
        /\ - Cent < (quoted.cost + quoted.fee) - (full + fee)
        /\ (quoted.cost + quoted.fee) - (full + fee) < 2 * Cent
    BY <1>2, <2>2, <2>3, LegIs
  <2>5. C[i] = quoted.cost /\ F[i] = quoted.fee /\ c[i] = full /\ f[i] = fee
    BY <2>1, <2>3
  <2> HIDE DEF C, F, c, f
  <2> QED BY <2>4, <2>5
<1>5. /\ C \in [1 .. n -> Int] /\ F \in [1 .. n -> Int] /\ c \in [1 .. n -> Int]
      /\ f \in [1 .. n -> Int]
  BY <1>4
<1>6. [k \in DOMAIN L |-> QuoteLeg(r, L[k]).cost] = C /\ [k \in DOMAIN L |-> QuoteLeg(r, L[k]).fee] = F
  BY <1>2
<1>7. ASSUME NEW k \in DOMAIN legs PROVE LeastCost(legs[k], request.quantity) = c[k]
  <2>1. PICK leg : leg = legs[k]
    OBVIOUS
  <2>2. /\ IsRequest(request) /\ request.quantity # 0 /\ LegReason(request, leg) = "none"
        /\ k \in 1 .. n /\ leg = L[k]
    BY <1>1, <1>2, <2>1
  <2>3. LeastCost(leg, request.quantity) = LegCost(request, leg)
    BY <2>2, LeastIsWalked
  <2> QED BY <1>1, <2>1, <2>2, <2>3
<1> DEFINE cost == [k \in DOMAIN legs |-> LeastCost(legs[k], request.quantity)]
           fee == [k \in DOMAIN legs |-> Fee(RuleFor(legs[k].ticker), cost[k], request.quantity)]
<1>8. cost = c
  BY <1>1, <1>2, <1>7
<1>9. fee = f
  <2>1. \A k \in 1 .. n : cost[k] = LegCost(r, L[k])
    BY <1>8
  <2> HIDE DEF cost
  <2> QED BY <1>1, <1>2, <2>1
<1> HIDE DEF C, F, c, f, cost, fee
<1>10. A \in [1 .. n -> Int] /\ B \in [1 .. n -> Int]
  BY <1>5
<1>11. \A i \in 1 .. n : - Cent < A[i] - B[i] /\ A[i] - B[i] < 2 * Cent
  BY <1>4
<1>12. \A i \in 1 .. n : A[i] = C[i] + F[i] /\ B[i] = c[i] + f[i]
  BY <1>5
<1> HIDE DEF A, B
<1>13. /\ SumOver(C) \in Int /\ SumOver(F) \in Int
       /\ SumOver(A) = SumOver(C) + SumOver(F)
  <2>1. n \in Nat
    BY <1>2
  <2>2. \A i \in 1 .. n : A[i] = C[i] + F[i]
    BY <1>12
  <2> QED BY ONLY ZenonT(30), <1>5, <1>10, <2>1, <2>2, SumAdds
<1>14. /\ SumOver(c) \in Int /\ SumOver(f) \in Int
       /\ SumOver(B) = SumOver(c) + SumOver(f)
  <2>1. n \in Nat
    BY <1>2
  <2>2. \A i \in 1 .. n : B[i] = c[i] + f[i]
    BY <1>12
  <2> QED BY ONLY ZenonT(30), <1>5, <1>10, <2>1, <2>2, SumAdds
<1>15. n * (- Cent) < SumOver(A) - SumOver(B) /\ SumOver(A) - SumOver(B) < n * (2 * Cent)
  <2>1. n \in Nat \ {0} /\ - Cent \in Int /\ 2 * Cent \in Int
    BY <1>2, <1>3
  <2> QED BY <1>10, <1>11, <2>1, SumApart
<1>16. n * (- Cent) = - (n * Cent) /\ n * (2 * Cent) = 2 * (n * Cent) /\ n * Cent \in Int
  BY <1>2, <1>3
<1>17. e.acquisition = SumOver(C) /\ e.fees = SumOver(F)
  <2>1. e.acquisition = QuantizeCost(SumOver(C)) /\ e.fees = SumOver(F)
    BY <1>1, <1>6, AcceptedIs
  <2>2. WholeCents(SumOver(C))
    <3>1. n \in Nat /\ \A i \in 1 .. n : WholeCents(C[i])
      BY <1>2, <1>4
    <3> QED BY <1>5, <3>1, SumOfWhole
  <2>3. PICK s \in Int : s = SumOver(C)
    BY <1>13
  <2>4. QuantizeCost(s) <= s /\ QuantizeCost(s) >= s /\ QuantizeCost(s) \in Int
    BY <2>2, <2>3, CostIsLeastWhole, CostRoundsUp
  <2> QED BY <2>1, <2>3, <2>4
<1>18. PICK a, b, x, y \in Int : a = SumOver(C) /\ b = SumOver(F) /\ x = SumOver(c) /\ y = SumOver(f)
  BY <1>13, <1>14
<1>19. - (n * Cent) < (a + b) - (x + y) /\ (a + b) - (x + y) < 2 * (n * Cent)
  BY <1>13, <1>14, <1>15, <1>16, <1>18
<1>20. evaluation.acquisition = a /\ evaluation.fees = b /\ Len(legs) = n
  BY <1>1, <1>17, <1>18
<1>21. SumOver(cost) = x /\ SumOver(fee) = y
  BY <1>8, <1>9, <1>18
<1>22. PICK k \in Int : k = n * Cent /\ k = Len(legs) * Cent
  BY <1>16, <1>20
<1>23. /\ SumOver(cost) \in Int /\ SumOver(fee) \in Int
       /\ evaluation.acquisition + evaluation.fees \in Int
       /\ - k < (evaluation.acquisition + evaluation.fees) - (SumOver(cost) + SumOver(fee))
       /\ (evaluation.acquisition + evaluation.fees) - (SumOver(cost) + SumOver(fee)) < 2 * k
  BY <1>19, <1>20, <1>21, <1>22
<1> QED BY <1>22, <1>23 DEF cost, fee

\* What is promised and kept aside is near what it would be unrounded.
LEMMA PayoutRounds ==
  ASSUME PricingInv, evaluation.accepted
  PROVE  LET true == (MinimumPayout(table) - request.reserve) * request.quantity
             kept == evaluation.payout - evaluation.reserves
         IN  /\ true \in Int /\ kept \in Int
             /\ kept <= true /\ true < kept + Cent
<1>1. /\ Registered /\ Asked /\ request.quantity \in Nat \ {0}
      /\ Partition => /\ evaluation.payout = QuantizeProceeds(Dollar * request.quantity)
                      /\ evaluation.reserves = QuantizeCost(request.reserve * request.quantity)
      /\ ~ Partition => /\ MinimumPayout(table) \in Int /\ evaluation.reserves = 0
                        /\ evaluation.payout
                             = QuantizeProceeds(MinimumPayout(table) * request.quantity)
  BY AcceptedIs
<1>2. PICK q \in Nat \ {0}, s \in Nat : q = request.quantity /\ s = request.reserve
  BY <1>1 DEF Asked, IsRequest
<1>3. CASE Partition
  <2>1. MinimumPayout(table) = Dollar
    <3>1. table # {} /\ \A row \in table : row.payout = Dollar
      BY <1>1, <1>3 DEF Registered
    <3>2. {row.payout : row \in table} = {Dollar}
      BY <3>1
    <3>3. Min({Dollar}) = Dollar
      <4>1. PICK d \in Int : d = Dollar
        BY DollarType
      <4>2. {d} \in SUBSET Int /\ {d} # {} /\ IsFiniteSet({d})
        BY FS_Singleton
      <4>3. Min({d}) \in {d}
        BY <4>2, MinOfIntegers
      <4> QED BY <4>1, <4>3
    <3> QED BY <3>2, <3>3 DEF MinimumPayout
  <2>2. PICK d \in Int : d = Dollar
    BY DollarType
  <2>3. (d - s) * q = d * q - s * q /\ d * q \in Int /\ s * q \in Int
    OBVIOUS
  <2>4. QuantizeProceeds(d * q) = d * q
    <3>1. WholeCents(d * q)
      <4>1. PICK m \in Int : d = m * Cent
        BY <2>2, DollarType DEF WholeCents
      <4>2. (m * Cent) * q = (m * q) * Cent /\ m * q \in Int
        BY EconomicsConstants
      <4> QED BY <4>1, <4>2 DEF WholeCents
    <3> QED BY <2>3, <3>1, WholeProceeds
  <2>5. PICK k \in Int : k = QuantizeCost(s * q) /\ k >= s * q /\ k < s * q + Cent
    BY <2>3, CostRoundsUp
  <2>6. evaluation.payout = d * q /\ evaluation.reserves = k
    BY <1>1, <1>2, <1>3, <2>2, <2>4, <2>5
  <2>7. (MinimumPayout(table) - request.reserve) * request.quantity = d * q - s * q
    BY <1>2, <2>1, <2>2, <2>3
  <2>8. PICK x, y \in Int : x = d * q /\ y = s * q
    BY <2>3
  <2>9. /\ x - k <= x - y /\ x - y < (x - k) + Cent
    BY <2>5, <2>8, EconomicsConstants
  <2> QED BY <2>6, <2>7, <2>8, <2>9
<1>4. CASE ~ Partition
  <2>1. PICK m \in Int : m = MinimumPayout(table)
    BY <1>1, <1>4
  <2>2. s = 0
    BY <1>1, <1>2, <1>4 DEF Asked
  <2>3. PICK x \in Int : x = m * q /\ (m - s) * q = x
    BY <2>2
  <2>4. PICK p \in Int : p = QuantizeProceeds(x) /\ p <= x /\ x < p + Cent
    BY ProceedsRoundDown
  <2>5. evaluation.payout = p /\ evaluation.reserves = 0
    BY <1>1, <1>2, <1>4, <2>1, <2>3, <2>4
  <2>6. (MinimumPayout(table) - request.reserve) * request.quantity = x
    BY <1>2, <2>1, <2>3
  <2> QED BY <2>4, <2>5, <2>6
<1> QED BY <1>3, <1>4

-----------------------------------------------------------------------------
(* The survey.                                                             *)

BestOffer(books) == [t \in DOMAIN books |-> Dollar - BestPrice(books[t].no)]

Surveys(books, S, f) ==
  f = [T \in SUBSET S |->
         IF T = {} THEN 0
         ELSE (Dollar - BestPrice(books[CHOOSE x \in T : TRUE].no))
                + f[T \ {CHOOSE x \in T : TRUE}]]

\* The survey's price is the total of the best offers.
LEMMA TakerIs ==
  ASSUME NEW books, IsFiniteSet(DOMAIN books), BestOffer(books) \in [DOMAIN books -> Nat]
  PROVE  SurveyPrice(books).taker = Total(BestOffer(books))
<1> DEFINE S == DOMAIN books
           w == BestOffer(books)
           it == CHOOSE f : Surveys(books, DOMAIN books, f)
<1>1. SurveyPrice(books).taker = it[DOMAIN books]
  BY DEF SurveyPrice, MapThenSumSet, MapThenFoldSet, Surveys
<1>2. \A x \in S : w[x] = Dollar - BestPrice(books[x].no)
  BY DEF BestOffer
<1> HIDE DEF w
<1>3. \A f : Surveys(books, S, f) <=> Weighs(w, S, f)
  <2> SUFFICES ASSUME NEW f PROVE Surveys(books, S, f) <=> Weighs(w, S, f)
    OBVIOUS
  <2>1. \A T \in SUBSET S : T # {} => w[CHOOSE x \in T : TRUE]
                              = Dollar - BestPrice(books[CHOOSE x \in T : TRUE].no)
    <3> SUFFICES ASSUME NEW T \in SUBSET S, T # {}
                 PROVE  w[CHOOSE x \in T : TRUE]
                          = Dollar - BestPrice(books[CHOOSE x \in T : TRUE].no)
      OBVIOUS
    <3>1. (CHOOSE x \in T : TRUE) \in S
      OBVIOUS
    <3> QED BY <1>2, <3>1
  <2>2. [T \in SUBSET S |->
           IF T = {} THEN 0
           ELSE (Dollar - BestPrice(books[CHOOSE x \in T : TRUE].no))
                  + f[T \ {CHOOSE x \in T : TRUE}]]
        = [T \in SUBSET S |->
             IF T = {} THEN 0
             ELSE w[CHOOSE x \in T : TRUE] + f[T \ {CHOOSE x \in T : TRUE}]]
    BY <2>1
  <2> QED BY <2>2 DEF Surveys, Weighs
<1>4. IsFiniteSet(S) /\ w \in [S -> Nat]
  BY DEF w
<1>5. Surveys(books, S, it)
  <2>1. \E f : Weighs(w, S, f)
    BY <1>4, WeighsTotal
  <2>2. \E f : Surveys(books, S, f)
    BY <1>3, <2>1
  <2> QED BY <2>2
<1> HIDE DEF it
<1>6. Weighs(w, S, it)
  BY <1>3, <1>5
<1>7. it[S] = Total(w)
  BY <1>4, <1>6, WeighsTotal
<1> QED BY <1>1, <1>7 DEF w

\* An order no larger than the survey's depth is met by every leg's best offer.
LEMMA DepthIs ==
  ASSUME NEW books, IsFiniteSet(DOMAIN books), DOMAIN books # {},
         \A t \in DOMAIN books : books[t].no[BestPrice(books[t].no)] \in Nat
  PROVE  /\ SurveyPrice(books).depth \in Int
         /\ \A t \in DOMAIN books :
              SurveyPrice(books).depth <= books[t].no[BestPrice(books[t].no)]
<1> DEFINE S == DOMAIN books
           most == [t \in S |-> books[t].no[BestPrice(books[t].no)]]
           all == {most[t] : t \in S}
           set == {books[t].no[BestPrice(books[t].no)] : t \in S}
<1>1. SurveyPrice(books).depth = Min(set)
  BY DEF SurveyPrice
<1>2. set = all
  OBVIOUS
<1>3. most \in [S -> Nat] /\ most \in Surjection(S, all)
  BY DEF Surjection
<1>4. \A t \in S : most[t] = books[t].no[BestPrice(books[t].no)]
  OBVIOUS
<1> HIDE DEF most, set
<1>5. all \in SUBSET Int /\ all # {}
  BY <1>3
<1>6. IsFiniteSet(all)
  <2>1. IsFiniteSet(S)
    OBVIOUS
  <2> HIDE DEF S, all
  <2> QED BY <1>3, <2>1, FS_Surjection
<1>7. Min(all) \in Int /\ \A y \in all : Min(all) <= y
  <2> HIDE DEF all
  <2> QED BY <1>5, <1>6, MinOfIntegers
<1> QED BY <1>1, <1>2, <1>4, <1>7

\* What the survey reads off a leg of a partition.
LEMMA SurveyedLeg ==
  ASSUME PricingInv, evaluation.accepted, Partition, NEW i \in DOMAIN legs
  PROVE  LET bids == request.books[legs[i].ticker].no
             best == Dollar - BestPrice(bids)
             cost == QuoteLeg(request, legs[i]).cost
         IN  /\ DOMAIN bids # {} /\ best \in Nat /\ bids[BestPrice(bids)] \in Nat
             /\ cost \in Int /\ WholeCents(cost) /\ request.quantity * best <= cost
             /\ request.quantity <= bids[BestPrice(bids)] =>
                  cost < request.quantity * best + Cent
<1>1. PICK r, leg : r = request /\ leg = legs[i]
  OBVIOUS
<1>2. IsRequest(r) /\ r.quantity \in Nat \ {0} /\ LegReason(r, leg) = "none"
  BY <1>1, AcceptedLegs
<1>3. leg.side = "yes"
  <2>1. Registered
    BY AcceptedIs
  <2> QED BY <1>1, <2>1 DEF Registered
<1>4. PICK bids : bids = r.books[leg.ticker][Opposite(leg.side)] /\ bids = r.books[leg.ticker].no
  BY <1>3 DEF Opposite
<1>5. PICK best, most, cost, full, q :
        /\ best = Dollar - BestPrice(bids) /\ most = bids[BestPrice(bids)]
        /\ cost = QuoteLeg(r, leg).cost /\ full = LegCost(r, leg) /\ q = r.quantity
  OBVIOUS
<1>6. /\ DOMAIN bids # {} /\ best \in Nat /\ most \in Nat
      /\ full \in Nat /\ cost \in Nat /\ WholeCents(cost)
      /\ full <= cost /\ cost < full + Cent
      /\ q * best <= full /\ (q <= most => full <= q * best)
  BY <1>2, <1>4, <1>5, LegIs
<1>7. PICK x \in Int : x = q * best
  BY <1>2, <1>5, <1>6
<1>8. x <= cost /\ (q <= most => cost < x + Cent)
  BY <1>6, <1>7, EconomicsConstants
<1>9. /\ bids = request.books[legs[i].ticker].no /\ cost = QuoteLeg(request, legs[i]).cost
      /\ q = request.quantity
  BY <1>1, <1>4, <1>5
<1>10. /\ DOMAIN bids # {} /\ Dollar - BestPrice(bids) \in Nat /\ bids[BestPrice(bids)] \in Nat
       /\ cost \in Int /\ WholeCents(cost) /\ q * (Dollar - BestPrice(bids)) <= cost
       /\ q <= bids[BestPrice(bids)] => cost < q * (Dollar - BestPrice(bids)) + Cent
  BY <1>5, <1>6, <1>7, <1>8
<1> QED BY Zenon, <1>9, <1>10

\* What the survey makes of a partition.
LEMMA SurveyIs ==
  ASSUME PricingInv, evaluation.accepted, Partition
  PROVE  LET surveyed == SurveyPrice(request.books)
         IN  /\ Surveyed(request.books)
             /\ surveyed.taker * request.quantity <= evaluation.acquisition
             /\ request.quantity <= surveyed.depth =>
                  evaluation.acquisition < surveyed.taker * request.quantity + Len(legs) * Cent
<1>1. PICK n, L, r, books, q : /\ n = Len(legs) /\ L = legs /\ r = request
                               /\ books = request.books /\ q = request.quantity
  OBVIOUS
<1>2. /\ n \in Nat \ {0} /\ DOMAIN L = 1 .. n /\ IsRequest(r) /\ q \in Nat \ {0}
  BY <1>1, AcceptedLegs
<1>3. /\ DOMAIN books = {L[i].ticker : i \in 1 .. n}
      /\ \A i, j \in 1 .. n : L[i].ticker = L[j].ticker => i = j
  <2>1. Registered /\ Asked
    BY AcceptedIs
  <2> QED BY <1>1, <1>2, <2>1 DEF Registered, Asked, Apart
<1> DEFINE S == DOMAIN books
           s == [i \in 1 .. n |-> L[i].ticker]
           w == BestOffer(books)
           most(t) == books[t].no[BestPrice(books[t].no)]
           C == [i \in 1 .. n |-> QuoteLeg(r, L[i]).cost]
           b == [i \in 1 .. n |-> w[s[i]]]
           qb == [i \in 1 .. n |-> q * b[i]]
<1>4. ASSUME NEW i \in 1 .. n
      PROVE  /\ s[i] \in S /\ DOMAIN books[s[i]].no # {}
             /\ w[s[i]] \in Nat /\ most(s[i]) \in Nat
             /\ C[i] \in Int /\ WholeCents(C[i]) /\ q * w[s[i]] <= C[i]
             /\ q <= most(s[i]) => C[i] < q * w[s[i]] + Cent
  <2>1. PICK t : t = L[i].ticker /\ t = s[i] /\ t \in S
    BY <1>3
  <2>2. i \in DOMAIN legs /\ t = legs[i].ticker
    BY <1>1, <1>2, <2>1
  <2>3. PICK best, cost : best = Dollar - BestPrice(books[t].no) /\ cost = QuoteLeg(r, L[i]).cost
    OBVIOUS
  <2>4. /\ DOMAIN books[t].no # {} /\ best \in Nat /\ books[t].no[BestPrice(books[t].no)] \in Nat
        /\ cost \in Int /\ WholeCents(cost) /\ q * best <= cost
        /\ q <= books[t].no[BestPrice(books[t].no)] => cost < q * best + Cent
    BY <1>1, <2>2, <2>3, SurveyedLeg
  <2>5. w[t] = best /\ C[i] = cost
    BY <2>1, <2>3 DEF BestOffer
  <2> HIDE DEF w, C, s
  <2> QED BY <2>1, <2>4, <2>5
<1>5. /\ s \in [1 .. n -> S] /\ \A x \in S : \E i \in 1 .. n : s[i] = x
  BY <1>3
<1>6. Enumerates(s, n, S)
  <2>1. \A i, j \in 1 .. n : i < j => s[i] # s[j]
    BY <1>3
  <2> HIDE DEF s, S
  <2> QED BY <1>5, <2>1 DEF Enumerates
<1>7. IsFiniteSet(S) /\ S # {}
  <2>1. s \in Surjection(1 .. n, S)
    BY <1>5 DEF Surjection
  <2>2. n \in Int
    BY <1>2
  <2>3. IsFiniteSet(1 .. n)
    BY <2>2, FS_Interval
  <2>4. S # {}
    <3>1. 1 \in 1 .. n
      BY <1>2
    <3> QED BY <1>5, <3>1
  <2> HIDE DEF s, S
  <2> QED BY <2>1, <2>3, <2>4, FS_Surjection
<1>8. /\ w \in [S -> Nat]
      /\ \A t \in S : DOMAIN books[t].no # {} /\ most(t) \in Nat
  <2>1. \A t \in S : DOMAIN books[t].no # {} /\ most(t) \in Nat /\ w[t] \in Nat
    <3> HIDE DEF w, s, S, most
    <3> QED BY <1>4, <1>5
  <2>2. w = [t \in S |-> Dollar - BestPrice(books[t].no)]
    BY DEF BestOffer
  <2> QED BY <2>1, <2>2
<1>9. Surveyed(books)
  BY <1>8 DEF Surveyed
<1>10. SurveyPrice(books).taker = Total(w)
  <2>1. IsFiniteSet(DOMAIN books) /\ BestOffer(books) \in [DOMAIN books -> Nat]
    BY <1>7, <1>8
  <2> QED BY <2>1, TakerIs
<1>11. SurveyPrice(books).depth \in Int /\ \A t \in S : SurveyPrice(books).depth <= most(t)
  <2>1. IsFiniteSet(DOMAIN books) /\ DOMAIN books # {}
    BY <1>7
  <2>2. \A t \in DOMAIN books : books[t].no[BestPrice(books[t].no)] \in Nat
    BY <1>8
  <2> QED BY <2>1, <2>2, DepthIs
<1>12. Total(w) \in Nat
  <2> HIDE DEF w, S
  <2> QED BY <1>7, <1>8, TotalType
<1>13. /\ C \in [1 .. n -> Int] /\ \A i \in 1 .. n : WholeCents(C[i])
       /\ b \in [1 .. n -> Int] /\ qb \in [1 .. n -> Int]
       /\ \A i \in 1 .. n : b[i] = w[s[i]] /\ qb[i] = q * b[i]
  <2>1. \A i \in 1 .. n : b[i] \in Int /\ q * b[i] \in Int
    <3> SUFFICES ASSUME NEW i \in 1 .. n PROVE w[s[i]] \in Int /\ q * w[s[i]] \in Int
      OBVIOUS
    <3>1. PICK x \in Nat : x = w[s[i]]
      BY <1>4
    <3> QED BY <1>2, <3>1
  <2>2. C \in [1 .. n -> Int] /\ \A i \in 1 .. n : WholeCents(C[i])
    BY <1>4
  <2> HIDE DEF C, w, s
  <2> QED BY <2>1, <2>2
<1>14. ASSUME NEW i \in 1 .. n
       PROVE  qb[i] <= C[i] /\ (q <= SurveyPrice(books).depth => C[i] < qb[i] + Cent)
  <2>1. PICK x, d \in Int : x = qb[i] /\ d = SurveyPrice(books).depth
    BY <1>11, <1>13
  <2>2. x = q * w[s[i]]
    BY <1>13, <2>1
  <2>3. PICK m \in Nat : m = most(s[i])
    BY <1>4
  <2>4. s[i] \in S /\ C[i] \in Int /\ x <= C[i] /\ (q <= m => C[i] < x + Cent)
    BY <1>4, <2>2, <2>3
  <2>5. d <= m
    BY <1>11, <2>1, <2>3, <2>4
  <2> HIDE DEF C, qb, s, w, most
  <2> QED BY <1>2, <2>1, <2>4, <2>5
<1> HIDE DEF C, b, qb, s, w, S, most
<1>15. SumOver(b) = Total(w)
  <2>1. PICK run \in [0 .. n -> Int] : /\ run[0] = 0 /\ (\A i \in 1 .. n : run[i] = run[i - 1] + b[i])
                                       /\ SumOver(b) = run[n]
    BY <1>2, <1>13, SumRuns
  <2>2. AddsUp(run, n, w, s)
    BY <1>13, <2>1 DEF AddsUp
  <2>3. n \in Nat
    BY <1>2
  <2>4. run[n] = Total(w)
    BY ONLY <1>6, <1>7, <1>8, <2>2, <2>3, TotalListed
  <2> QED BY <2>1, <2>4
<1>16. SumOver(qb) \in Int /\ SumOver(qb) = Total(w) * q
  <2>1. /\ n \in Nat /\ b \in [1 .. n -> Int] /\ qb \in [1 .. n -> Int] /\ q \in Int
        /\ \A i \in 1 .. n : qb[i] = q * b[i]
    BY <1>2, <1>13
  <2>2. SumOver(qb) \in Int /\ SumOver(qb) = q * SumOver(b)
    BY ONLY <2>1, SumScaled
  <2>3. q * Total(w) = Total(w) * q
    BY <1>2, <1>12
  <2> QED BY <1>15, <2>2, <2>3
<1>17. evaluation.acquisition = SumOver(C) /\ SumOver(C) \in Int
  <2>1. evaluation.acquisition
          = QuantizeCost(SumOver([k \in DOMAIN legs |-> QuoteLeg(request, legs[k]).cost]))
    BY AcceptedIs
  <2>2. [k \in DOMAIN legs |-> QuoteLeg(request, legs[k]).cost] = C
    BY <1>1, <1>2 DEF C
  <2>3. n \in Nat /\ C \in [1 .. n -> Int] /\ \A i \in 1 .. n : WholeCents(C[i])
    BY <1>2, <1>13
  <2>4. SumOver(C) \in Int /\ WholeCents(SumOver(C))
    BY ONLY <2>3, SumOfWhole
  <2>5. PICK x \in Int : x = SumOver(C)
    BY <2>4
  <2>6. QuantizeCost(x) <= x /\ QuantizeCost(x) >= x /\ QuantizeCost(x) \in Int
    BY <2>4, <2>5, CostIsLeastWhole, CostRoundsUp
  <2> QED BY <2>1, <2>2, <2>5, <2>6
<1>18. SumOver(qb) <= SumOver(C)
  <2>1. n \in Nat /\ qb \in [1 .. n -> Int] /\ C \in [1 .. n -> Int]
    BY <1>2, <1>13
  <2>2. \A i \in 1 .. n : qb[i] <= C[i]
    BY <1>14
  <2> QED BY ONLY <2>1, <2>2, SumMonotone
<1>19. ASSUME q <= SurveyPrice(books).depth PROVE SumOver(C) - SumOver(qb) < n * Cent
  <2>1. n \in Nat \ {0} /\ qb \in [1 .. n -> Int] /\ C \in [1 .. n -> Int]
    BY <1>2, <1>13
  <2>2. PICK low, high \in Int : low = -1 /\ high = Cent
    BY EconomicsConstants
  <2>3. \A i \in 1 .. n : low < C[i] - qb[i] /\ C[i] - qb[i] < high
    <3> SUFFICES ASSUME NEW i \in 1 .. n PROVE low < C[i] - qb[i] /\ C[i] - qb[i] < high
      OBVIOUS
    <3>1. C[i] \in Int /\ qb[i] \in Int /\ qb[i] <= C[i] /\ C[i] < qb[i] + Cent
      BY <1>13, <1>14, <1>19
    <3> QED BY <2>2, <3>1
  <2>4. low \in Int /\ high \in Int
    OBVIOUS
  <2>5. SumOver(C) - SumOver(qb) < n * high
    BY ONLY <2>1, <2>3, <2>4, SumApart
  <2> QED BY <2>2, <2>5
<1>20. PICK a, t, k \in Int : a = SumOver(C) /\ t = SumOver(qb) /\ k = n * Cent
  BY <1>2, <1>16, <1>17, EconomicsConstants
<1>21. t <= a /\ (q <= SurveyPrice(books).depth => a < t + k)
  BY <1>18, <1>19, <1>20
<1>22. /\ evaluation.acquisition = a /\ SurveyPrice(request.books).taker * request.quantity = t
       /\ Len(legs) * Cent = k
  BY <1>1, <1>10, <1>16, <1>17, <1>20
<1> QED BY <1>1, <1>9, <1>21, <1>22

\* The edge that is reported is the true one but for the rounding of costs, fees and reserves.
LEMMA InvImpliesEdge ==
  ASSUME PricingInv PROVE EdgeIsWithinRounding
<1>1. SUFFICES ASSUME evaluation.accepted PROVE EdgeIsWithinRounding
  BY DEF EdgeIsWithinRounding
<1> DEFINE cost == [k \in DOMAIN legs |-> LeastCost(legs[k], request.quantity)]
           fee == [k \in DOMAIN legs |-> Fee(RuleFor(legs[k].ticker), cost[k], request.quantity)]
           gross == (MinimumPayout(table) - request.reserve) * request.quantity
<1>2. /\ evaluation.payout \in Int /\ evaluation.acquisition \in Int /\ evaluation.fees \in Int
      /\ evaluation.reserves \in Int /\ Len(evaluation.legs) = Len(legs)
  <2>1. evaluation.legs = [i \in DOMAIN legs |-> QuoteLeg(request, legs[i])]
    BY <1>1, AcceptedIs
  <2>2. Len(legs) \in Nat /\ DOMAIN legs = 1 .. Len(legs)
    BY <1>1, AcceptedLegs
  <2>3. Len(evaluation.legs) = Len(legs)
    BY <2>1, <2>2
  <2> QED BY <1>1, <2>3, AcceptedIs
<1>3. TrueEdge = gross - SumOver(cost) - SumOver(fee)
  <2> DEFINE costs == [k \in DOMAIN request.legs |-> LeastCost(request.legs[k], request.quantity)]
             fees == [k \in DOMAIN request.legs |->
                        Fee(RuleFor(request.legs[k].ticker), costs[k], request.quantity)]
  <2>1. request.legs = legs
    BY <1>1, AcceptedLegs
  <2>2. TrueEdge = gross - SumOver(costs) - SumOver(fees)
    BY DEF TrueEdge
  <2>3. costs = cost
    BY <2>1
  <2> HIDE DEF costs, cost
  <2>4. fees = fee
    BY <2>1, <2>3
  <2> HIDE DEF fees, fee, gross
  <2> QED BY <2>2, <2>3, <2>4
<1>4. PICK spent \in Int : spent = evaluation.acquisition + evaluation.fees
  BY <1>2
<1>5. PICK n \in Nat \ {0}, k \in Int : n = Len(legs) /\ k = n * Cent
  <2>1. PICK n \in Nat \ {0} : n = Len(legs)
    BY <1>1, AcceptedLegs
  <2>2. n * Cent \in Int
    BY EconomicsConstants
  <2> QED BY <2>1, <2>2
<1>6. /\ SumOver(cost) \in Int /\ SumOver(fee) \in Int
      /\ - k < spent - (SumOver(cost) + SumOver(fee))
      /\ spent - (SumOver(cost) + SumOver(fee)) < 2 * k
  BY <1>1, <1>4, <1>5, LegSums
<1> HIDE DEF cost, fee
<1>7. PICK c, f \in Int : c = SumOver(cost) /\ f = SumOver(fee)
  BY <1>6
<1>8. PICK g, kept \in Int : g = gross /\ kept = evaluation.payout - evaluation.reserves
  BY <1>1, PayoutRounds
<1>9. kept <= g /\ g < kept + Cent
  <2>1. /\ evaluation.payout - evaluation.reserves <= gross
        /\ gross < (evaluation.payout - evaluation.reserves) + Cent
    BY <1>1, PayoutRounds
  <2> HIDE DEF gross
  <2> QED BY <1>8, <2>1
<1> HIDE DEF gross
<1>10. TrueEdge = g - c - f /\ NetEdge(evaluation) = kept - spent
  <2>1. TrueEdge = g - c - f
    BY <1>3, <1>7, <1>8
  <2>2. PICK p, a, x, y \in Int : /\ p = evaluation.payout /\ a = evaluation.acquisition
                                  /\ x = evaluation.fees /\ y = evaluation.reserves
    BY <1>2
  <2>3. p - (a + x + y) = kept - spent
    BY <1>4, <1>8, <2>2
  <2> QED BY <2>1, <2>2, <2>3 DEF NetEdge
<1>11. (2 * n + 1) * Cent = 2 * k + Cent
  <2>1. PICK d \in Int : d = Cent
    BY EconomicsConstants
  <2>2. (2 * n + 1) * d = 2 * (n * d) + d
    OBVIOUS
  <2> QED BY <1>5, <2>1, <2>2
<1>12. kept - spent < (g - c - f) + k /\ kept - spent > (g - c - f) - (2 * k + Cent)
  BY <1>6, <1>7, <1>9, EconomicsConstants
<1>13. /\ NetEdge(evaluation) < TrueEdge + n * Cent
       /\ NetEdge(evaluation) > TrueEdge - (2 * n + 1) * Cent
  BY <1>5, <1>10, <1>11, <1>12
<1>14. Partition =>
         /\ Surveyed(request.books)
         /\ SurveyPrice(request.books).taker * request.quantity <= evaluation.acquisition
         /\ request.quantity <= SurveyPrice(request.books).depth =>
              evaluation.acquisition
                < SurveyPrice(request.books).taker * request.quantity + n * Cent
  BY <1>1, <1>5, SurveyIs
<1>15. Len(evaluation.legs) = n
  BY <1>2, <1>5
<1> QED BY <1>13, <1>14, <1>15 DEF EdgeIsWithinRounding

(* The edge a candidate is accepted on is the true edge to within a cent per *)
(* leg above and what rounds up below, where the true edge is taken over     *)
(* every way of filling the order; and the survey's price of the same books  *)
(* is never dearer, and the same to the cent per leg where the best quotes   *)
(* suffice.                                                                  *)
THEOREM ReportedEdgeIsTrue == Spec => []EdgeIsWithinRounding
<1>1. PricingInv => EdgeIsWithinRounding
  BY InvImpliesEdge
<1> QED BY <1>1, Invariance, PTL
=============================================================================
