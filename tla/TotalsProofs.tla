---------------------------- MODULE TotalsProofs ----------------------------
(***************************************************************************)
(* What the other proofs rest on: the least of a set of naturals, listing  *)
(* a finite set in order, folds over finite sets, and the totals of        *)
(* Totals.tla.                                                             *)
(***************************************************************************)
EXTENDS Totals, FiniteSetTheorems, WellFoundedInduction, TLAPS

\* A non-empty set of naturals has a least element.
LEMMA LeastNatural ==
  ASSUME NEW S \in SUBSET Nat, S # {}
  PROVE  \E n \in S : \A k \in S : n <= k
<1> DEFINE R == OpToRel(<, Nat)
<1>1. IsWellFoundedOn(R, Nat)
  BY NatLessThanWellFounded
<1>2. \E n \in S : \A k \in S : ~ (<<k, n>> \in R)
  <2> HIDE DEF R
  <2> QED BY <1>1, WFMin
<1>3. ASSUME NEW n \in S, NEW k \in S, ~ (<<k, n>> \in R)
      PROVE  n <= k
  <2>1. n \in Nat /\ k \in Nat
    OBVIOUS
  <2>2. <<k, n>> \in Nat \X Nat
    BY <2>1
  <2>3. ~ (k < n)
    BY <1>3, <2>2 DEF OpToRel
  <2> QED BY <2>1, <2>3
<1> QED BY <1>2, <1>3

\* Induction, over a set of naturals and over a set of finite sets: sets take the place of
\* the predicates no prover here can be given.
LEMMA NaturalsFrom ==
  ASSUME NEW N \in SUBSET Nat, 0 \in N, \A n \in N : n + 1 \in N
  PROVE  N = Nat
<1> DEFINE Missed == Nat \ N
<1>1. ASSUME Missed # {} PROVE FALSE
  <2>1. Missed \in SUBSET Nat
    OBVIOUS
  <2>2. PICK n \in Missed : \A k \in Missed : n <= k
    <3> HIDE DEF Missed
    <3> QED BY <1>1, <2>1, LeastNatural
  <2>3. n \in Nat /\ n \notin N /\ n # 0
    BY <2>2
  <2>4. n - 1 \in Nat /\ n - 1 \notin Missed
    BY <2>2, <2>3
  <2>5. (n - 1) + 1 \in N
    BY <2>4
  <2>6. (n - 1) + 1 = n
    BY <2>3
  <2> QED BY <2>3, <2>5, <2>6
<1> QED BY <1>1

LEMMA SubsetsFrom ==
  ASSUME NEW S, IsFiniteSet(S), NEW pick, \A T \in (SUBSET S) \ {{}} : pick[T] \in T,
         NEW Good, {} \in Good,
         \A T \in (SUBSET S) \ {{}} : T \ {pick[T]} \in Good => T \in Good
  PROVE  SUBSET S \subseteq Good
<1> DEFINE N == {n \in Nat : \A T \in SUBSET S : Cardinality(T) = n => T \in Good}
<1>1. \A T \in SUBSET S : IsFiniteSet(T) /\ Cardinality(T) \in Nat
  BY FS_Subset, FS_CardinalityType
<1>2. 0 \in N
  BY <1>1, FS_EmptySet
<1>3. ASSUME NEW n \in N PROVE n + 1 \in N
  <2>1. SUFFICES ASSUME NEW T \in SUBSET S, Cardinality(T) = n + 1 PROVE T \in Good
    OBVIOUS
  <2>2. n \in Nat
    OBVIOUS
  <2>3. T # {}
    <3>1. n + 1 # 0
      BY <2>2
    <3>2. Cardinality(T) # 0
      BY <2>1, <3>1
    <3> QED BY <1>1, <3>2, FS_EmptySet
  <2>4. PICK x \in T : x = pick[T]
    BY <2>3
  <2>5. Cardinality(T \ {x}) = Cardinality(T) - 1
    BY <1>1, FS_RemoveElement
  <2>6. Cardinality(T \ {x}) = n
    BY <2>1, <2>2, <2>5
  <2>7. T \ {x} \in SUBSET S
    OBVIOUS
  <2>8. T \ {x} \in Good
    BY <2>6, <2>7
  <2> QED BY <2>3, <2>4, <2>8
<1>4. N \in SUBSET Nat
  OBVIOUS
<1> HIDE DEF N
<1>5. N = Nat
  BY <1>2, <1>3, <1>4, NaturalsFrom
<1> QED BY <1>1, <1>5 DEF N

-----------------------------------------------------------------------------
(* Orders.  A finite set can be listed in any total order; an order is a    *)
(* set of pairs here.                                                       *)

IsTotal(R, S) == \A x, y \in S : x # y => <<x, y>> \in R \/ <<y, x>> \in R
IsTransitive(R, S) == \A x, y, z \in S : <<x, y>> \in R /\ <<y, z>> \in R => <<x, z>> \in R
IsLast(x, R, T) == x \in T /\ \A y \in T \ {x} : <<y, x>> \in R
Lists(s, R, T) ==
  /\ s \in [1 .. Cardinality(T) -> T]
  /\ \A i, j \in 1 .. Cardinality(T) : i < j => <<s[i], s[j]>> \in R

\* One of them comes last.
LEMMA LastExists ==
  ASSUME NEW S, IsFiniteSet(S), NEW R, IsTotal(R, S), IsTransitive(R, S)
  PROVE  \A T \in (SUBSET S) \ {{}} : \E x : IsLast(x, R, T)
<1> DEFINE pick == [T \in (SUBSET S) \ {{}} |-> CHOOSE x \in T : TRUE]
           Good == {T \in SUBSET S : T = {} \/ \E x : IsLast(x, R, T)}
<1>1. \A T \in (SUBSET S) \ {{}} : pick[T] \in T
  OBVIOUS
<1>2. {} \in Good
  OBVIOUS
<1>3. ASSUME NEW T \in (SUBSET S) \ {{}}, T \ {pick[T]} \in Good PROVE T \in Good
  <2>1. PICK x \in T : x = pick[T]
    BY <1>1
  <2>2. CASE T \ {x} = {}
    <3>1. IsLast(x, R, T)
      BY <2>1, <2>2 DEF IsLast
    <3> QED BY <3>1
  <2>3. CASE T \ {x} # {}
    <3>1. PICK m : IsLast(m, R, T \ {x})
      BY <1>3, <2>1, <2>3
    <3>2. m \in T /\ m # x /\ m \in S /\ x \in S /\ \A y \in T \ {x, m} : <<y, m>> \in R
      BY <2>1, <3>1 DEF IsLast
    <3>3. CASE <<m, x>> \in R
      <4>1. IsLast(x, R, T)
        BY <2>1, <3>2, <3>3 DEF IsLast, IsTransitive
      <4> QED BY <4>1
    <3>4. CASE <<x, m>> \in R
      <4>1. IsLast(m, R, T)
        BY <2>1, <3>2, <3>4 DEF IsLast
      <4> QED BY <4>1
    <3> QED BY <3>2, <3>3, <3>4 DEF IsTotal
  <2> QED BY <2>2, <2>3
<1> HIDE DEF Good, pick
<1>4. SUBSET S \subseteq Good
  BY <1>1, <1>2, <1>3, SubsetsFrom
<1> QED BY <1>4 DEF Good

LEMMA ListExists ==
  ASSUME NEW S, IsFiniteSet(S), NEW R, IsTotal(R, S), IsTransitive(R, S)
  PROVE  \E s : Lists(s, R, S)
<1> DEFINE pick == [T \in (SUBSET S) \ {{}} |-> CHOOSE x : IsLast(x, R, T)]
           Good == {T \in SUBSET S : \E s : Lists(s, R, T)}
<1>1. \A T \in (SUBSET S) \ {{}} : IsLast(pick[T], R, T)
  BY LastExists
<1>2. \A T \in (SUBSET S) \ {{}} : pick[T] \in T
  BY <1>1 DEF IsLast
<1>3. {} \in Good
  <2>1. Cardinality({}) = 0
    BY FS_EmptySet
  <2>2. Lists([i \in 1 .. Cardinality({}) |-> i], R, {})
    BY <2>1 DEF Lists
  <2> QED BY <2>2
<1>4. ASSUME NEW T \in (SUBSET S) \ {{}}, T \ {pick[T]} \in Good PROVE T \in Good
  <2>1. PICK x \in T : x = pick[T]
    BY <1>2
  <2>2. IsLast(x, R, T)
    BY <1>1, <2>1
  <2>3. PICK s : Lists(s, R, T \ {x})
    BY <1>4, <2>1
  <2>4. IsFiniteSet(T)
    BY FS_Subset
  <2> DEFINE n == Cardinality(T)
             t == [i \in 1 .. n |-> IF i = n THEN x ELSE s[i]]
  <2>5. n \in Nat /\ Cardinality(T \ {x}) = n - 1
    BY <2>4, FS_CardinalityType, FS_RemoveElement
  <2>6. /\ s \in [1 .. n - 1 -> T \ {x}]
        /\ \A i, j \in 1 .. n - 1 : i < j => <<s[i], s[j]>> \in R
    BY <2>3, <2>5 DEF Lists
  <2> HIDE DEF n
  <2>7. ASSUME NEW i \in 1 .. n, i # n PROVE i \in 1 .. n - 1
    BY <2>5, <2>7
  <2>8. t \in [1 .. n -> T]
    BY <2>6, <2>7
  <2>9. ASSUME NEW i \in 1 .. n, NEW j \in 1 .. n, i < j PROVE <<t[i], t[j]>> \in R
    <3>1. i # n /\ i \in 1 .. n - 1
      BY <2>5, <2>9
    <3>2. t[i] = s[i] /\ s[i] \in T \ {x}
      BY <2>6, <3>1
    <3>3. CASE j = n
      BY <2>2, <3>2, <3>3 DEF IsLast
    <3>4. CASE j # n
      BY <2>6, <2>7, <2>9, <3>1, <3>2, <3>4
    <3> QED BY <3>3, <3>4
  <2>10. Lists(t, R, T)
    BY <2>8, <2>9 DEF Lists, n
  <2> QED BY <2>10
<1> HIDE DEF Good, pick
<1>5. SUBSET S \subseteq Good
  BY <1>2, <1>3, <1>4, SubsetsFrom
<1> QED BY <1>5 DEF Good

-----------------------------------------------------------------------------
(* Folds.  MapThenFoldSet, and with it every fold of the library, is the    *)
(* value at the whole set of a function on its subsets: at the empty set    *)
(* the base, elsewhere one step on from the set without the element it      *)
(* picks.  That there is such a function is all a fold needs.               *)

FoldStep(base, pick, step, f, T) ==
  IF T = {} THEN base ELSE step[<<pick[T], f[T \ {pick[T]}]>>]

IsFold(base, pick, step, S, f) == f = [T \in SUBSET S |-> FoldStep(base, pick, step, f, T)]

\* Right on the subsets of at most n elements.
FoldsUpTo(base, pick, step, S, B, n, f) ==
  /\ f \in [SUBSET S -> B]
  /\ \A T \in SUBSET S : Cardinality(T) <= n => f[T] = FoldStep(base, pick, step, f, T)

LEMMA FoldStepType ==
  ASSUME NEW S, NEW B, NEW base \in B, NEW pick \in [(SUBSET S) \ {{}} -> S],
         NEW step \in [S \X B -> B], NEW f \in [SUBSET S -> B], NEW T \in SUBSET S
  PROVE  FoldStep(base, pick, step, f, T) \in B
<1>1. CASE T = {}
  BY <1>1 DEF FoldStep
<1>2. CASE T # {}
  <2>1. pick[T] \in S
    <3>1. T \in (SUBSET S) \ {{}}
      BY <1>2
    <3> QED BY <3>1
  <2>2. <<pick[T], f[T \ {pick[T]}]>> \in S \X B
    <3>1. T \ {pick[T]} \in SUBSET S
      OBVIOUS
    <3>2. f[T \ {pick[T]}] \in B
      BY <3>1
    <3> QED BY <2>1, <3>2
  <2>3. step[<<pick[T], f[T \ {pick[T]}]>>] \in B
    BY <2>2
  <2> QED BY <1>2, <2>3 DEF FoldStep
<1> QED BY <1>1, <1>2

LEMMA FoldsOneMore ==
  ASSUME NEW S, IsFiniteSet(S), NEW B, NEW base \in B,
         NEW pick \in [(SUBSET S) \ {{}} -> S], \A T \in (SUBSET S) \ {{}} : pick[T] \in T,
         NEW step \in [S \X B -> B], NEW n \in Nat,
         NEW f, FoldsUpTo(base, pick, step, S, B, n, f)
  PROVE  \E g : FoldsUpTo(base, pick, step, S, B, n + 1, g)
<1> DEFINE g == [T \in SUBSET S |-> FoldStep(base, pick, step, f, T)]
<1>1. f \in [SUBSET S -> B]
  BY DEF FoldsUpTo
<1>2. g \in [SUBSET S -> B]
  BY <1>1, FoldStepType
<1>3. ASSUME NEW T \in SUBSET S, Cardinality(T) <= n + 1
      PROVE  g[T] = FoldStep(base, pick, step, g, T)
  <2>1. CASE T = {}
    BY <2>1 DEF FoldStep
  <2>2. CASE T # {}
    <3> DEFINE R == T \ {pick[T]}
    <3>1. pick[T] \in T /\ R \in SUBSET S
      BY <2>2
    <3>2. IsFiniteSet(T)
      BY FS_Subset
    <3>3. Cardinality(R) = Cardinality(T) - 1
      <4>1. PICK x \in T : x = pick[T]
        BY <3>1
      <4>2. Cardinality(T \ {x}) = Cardinality(T) - 1
        BY <3>2, FS_RemoveElement
      <4> QED BY <4>1, <4>2
    <3>4. Cardinality(T) \in Nat
      BY <3>2, FS_CardinalityType
    <3>5. Cardinality(R) <= n
      BY <1>3, <3>3, <3>4
    <3>6. f[R] = FoldStep(base, pick, step, f, R)
      BY <3>1, <3>5 DEF FoldsUpTo
    <3>7. g[R] = f[R]
      BY <3>1, <3>6
    <3>8. g[T] = step[<<pick[T], f[R]>>]
      BY <2>2 DEF FoldStep
    <3> QED BY <2>2, <3>7, <3>8 DEF FoldStep
  <2> QED BY <2>1, <2>2
<1> HIDE DEF g
<1>4. FoldsUpTo(base, pick, step, S, B, n + 1, g)
  BY <1>2, <1>3 DEF FoldsUpTo
<1> QED BY <1>4

LEMMA FoldExists ==
  ASSUME NEW S, IsFiniteSet(S), NEW B, NEW base \in B,
         NEW pick \in [(SUBSET S) \ {{}} -> S], \A T \in (SUBSET S) \ {{}} : pick[T] \in T,
         NEW step \in [S \X B -> B]
  PROVE  \E f \in [SUBSET S -> B] : IsFold(base, pick, step, S, f)
<1> DEFINE Reached(n) == \E f : FoldsUpTo(base, pick, step, S, B, n, f)
           N == {n \in Nat : Reached(n)}
<1>1. Reached(0)
  <2> DEFINE f == [T \in SUBSET S |-> base]
  <2>1. f \in [SUBSET S -> B]
    OBVIOUS
  <2>2. ASSUME NEW T \in SUBSET S, Cardinality(T) <= 0 PROVE T = {}
    <3>1. IsFiniteSet(T)
      BY FS_Subset
    <3>2. Cardinality(T) \in Nat
      BY <3>1, FS_CardinalityType
    <3>3. Cardinality(T) = 0
      BY <2>2, <3>2
    <3> QED BY <3>1, <3>3, FS_EmptySet
  <2>3. FoldsUpTo(base, pick, step, S, B, 0, f)
    BY <2>1, <2>2 DEF FoldsUpTo, FoldStep
  <2> QED BY <2>3
<1>2. ASSUME NEW n \in Nat, Reached(n) PROVE Reached(n + 1)
  BY <1>2, FoldsOneMore
<1>3. N = Nat
  <2>1. N \in SUBSET Nat
    OBVIOUS
  <2>2. 0 \in N /\ \A n \in N : n + 1 \in N
    BY <1>1, <1>2
  <2> HIDE DEF N
  <2> QED BY <2>1, <2>2, NaturalsFrom
<1>4. Cardinality(S) \in Nat
  BY FS_CardinalityType
<1>5. PICK f : FoldsUpTo(base, pick, step, S, B, Cardinality(S), f)
  BY <1>3, <1>4
<1>6. \A T \in SUBSET S : Cardinality(T) <= Cardinality(S)
  BY FS_Subset
<1>7. f \in [SUBSET S -> B] /\ \A T \in SUBSET S : f[T] = FoldStep(base, pick, step, f, T)
  BY <1>5, <1>6 DEF FoldsUpTo
<1>8. IsFold(base, pick, step, S, f)
  BY <1>7 DEF IsFold
<1> QED BY <1>7, <1>8

-----------------------------------------------------------------------------
(* Totals.                                                                 *)

\* Only an item's own units, and finitely many.
LEMMA UnitsMember ==
  ASSUME NEW S, NEW w \in [S -> Nat], NEW x
  PROVE  x \in Units(w) <=> \E i \in S : x \in {i} \X (1 .. w[i])
  BY DEF Units

LEMMA UnitsFinite ==
  ASSUME NEW S, IsFiniteSet(S), NEW w \in [S -> Nat] PROVE IsFiniteSet(Units(w))
<1> DEFINE block == [i \in S |-> {i} \X (1 .. w[i])]
           blocks == {{i} \X (1 .. w[i]) : i \in S}
<1>1. block \in Surjection(S, blocks)
  BY DEF Surjection
<1>2. IsFiniteSet(blocks)
  BY <1>1, FS_Surjection
<1>3. \A b \in blocks : IsFiniteSet(b)
  <2> SUFFICES ASSUME NEW i \in S PROVE IsFiniteSet({i} \X (1 .. w[i]))
    OBVIOUS
  <2>1. IsFiniteSet({i})
    BY FS_Singleton
  <2>2. w[i] \in Nat
    OBVIOUS
  <2>3. IsFiniteSet(1 .. w[i])
    BY <2>2, FS_Interval
  <2> QED BY <2>1, <2>3, FS_Product
<1> HIDE DEF blocks
<1>4. IsFiniteSet(UNION blocks)
  BY <1>2, <1>3, FS_UNION
<1> QED BY <1>4 DEF Units, blocks

LEMMA TotalType ==
  ASSUME NEW S, IsFiniteSet(S), NEW w \in [S -> Nat] PROVE Total(w) \in Nat
  BY UnitsFinite, FS_CardinalityType DEF Total

\* Nothing in any item: nothing in all.
LEMMA TotalZero ==
  ASSUME NEW S PROVE Total([i \in S |-> 0]) = 0
<1> DEFINE w == [i \in S |-> 0]
<1>1. Units(w) = {}
  BY DEF Units
<1> HIDE DEF w
<1>2. Total(w) = 0
  BY <1>1, FS_EmptySet DEF Total
<1> QED BY <1>2 DEF w

\* A total is one item and the total of the rest.
LEMMA TotalSplit ==
  ASSUME NEW S, IsFiniteSet(S), NEW w \in [S -> Nat], NEW j \in S
  PROVE  Total(w) = Total([w EXCEPT ![j] = 0]) + w[j]
<1> DEFINE rest == [w EXCEPT ![j] = 0]
           own == {j} \X (1 .. w[j])
<1>1. IsFiniteSet({j}) /\ Cardinality({j}) = 1
  BY FS_Singleton
<1>2. w[j] \in Nat
  OBVIOUS
<1>3. IsFiniteSet(1 .. w[j]) /\ Cardinality(1 .. w[j]) = w[j]
  BY <1>2, FS_Interval
<1>4. IsFiniteSet(own) /\ Cardinality(own) = w[j]
  <2>1. IsFiniteSet(own) /\ Cardinality(own) = Cardinality({j}) * Cardinality(1 .. w[j])
    BY <1>1, <1>3, FS_Product
  <2> QED BY <1>1, <1>2, <1>3, <2>1
<1>5. rest \in [S -> Nat]
  OBVIOUS
<1>6. Units(w) = Units(rest) \cup own
  <2>1. ASSUME NEW x \in Units(w) PROVE x \in Units(rest) \cup own
    <3>1. PICK i \in S : x \in {i} \X (1 .. w[i])
      BY <2>1, UnitsMember
    <3>2. CASE i = j
      BY <3>1, <3>2
    <3>3. CASE i # j
      <4>1. x \in {i} \X (1 .. rest[i])
        BY <3>1, <3>3
      <4> QED BY <4>1, <1>5, UnitsMember
    <3> QED BY <3>2, <3>3
  <2>2. ASSUME NEW x \in Units(rest) PROVE x \in Units(w)
    <3>1. PICK i \in S : x \in {i} \X (1 .. rest[i])
      BY <2>2, <1>5, UnitsMember
    <3>2. i # j /\ rest[i] = w[i]
      BY <3>1
    <3>3. x \in {i} \X (1 .. w[i])
      BY <3>1, <3>2
    <3> QED BY <3>3, UnitsMember
  <2>3. own \subseteq Units(w)
    BY UnitsMember
  <2> QED BY <2>1, <2>2, <2>3
<1>7. Units(rest) \cap own = {}
  <2> SUFFICES ASSUME NEW x \in Units(rest), x \in own PROVE FALSE
    OBVIOUS
  <2>1. PICK i \in S : x \in {i} \X (1 .. rest[i])
    BY <1>5, UnitsMember
  <2>2. i = j /\ rest[i] = 0
    BY <2>1
  <2> QED BY <2>1, <2>2
<1> HIDE DEF rest, own
<1>8. IsFiniteSet(Units(rest))
  BY <1>5, UnitsFinite
<1>9. Cardinality(Units(rest) \cup own)
        = Cardinality(Units(rest)) + Cardinality(own) - Cardinality(Units(rest) \cap own)
  BY <1>4, <1>8, FS_Union
<1>10. Cardinality({}) = 0 /\ Cardinality(Units(rest)) \in Nat
  BY <1>8, FS_EmptySet, FS_CardinalityType
<1>11. Cardinality(Units(rest) \cap own) = 0
  BY <1>7, <1>10
<1>12. Cardinality(Units(rest) \cup own) = Cardinality(Units(rest)) + w[j]
  BY <1>2, <1>4, <1>9, <1>10, <1>11
<1>13. Total(w) = Total(rest) + w[j]
  BY <1>6, <1>12 DEF Total
<1> QED BY <1>13 DEF rest

\* Setting one item changes the total by what it changes the item.
LEMMA TotalSet ==
  ASSUME NEW S, IsFiniteSet(S), NEW w \in [S -> Nat], NEW j \in S, NEW n \in Nat
  PROVE  Total([w EXCEPT ![j] = n]) = Total(w) - w[j] + n
<1> DEFINE v == [w EXCEPT ![j] = n]
<1>1. v \in [S -> Nat] /\ v[j] = n /\ [v EXCEPT ![j] = 0] = [w EXCEPT ![j] = 0]
  OBVIOUS
<1>2. Total(w) = Total([w EXCEPT ![j] = 0]) + w[j]
  BY TotalSplit
<1>3. [w EXCEPT ![j] = 0] \in [S -> Nat]
  OBVIOUS
<1>4. Total([w EXCEPT ![j] = 0]) \in Nat /\ w[j] \in Nat
  BY <1>3, TotalType
<1> HIDE DEF v
<1>5. Total(v) = Total([v EXCEPT ![j] = 0]) + v[j]
  BY <1>1, TotalSplit
<1>6. Total(v) = Total(w) - w[j] + n
  BY <1>1, <1>2, <1>4, <1>5
<1> QED BY <1>6 DEF v

\* Items that map one to one into items at least as heavy weigh no more together.
LEMMA TotalInjects ==
  ASSUME NEW S, NEW T, IsFiniteSet(T), NEW v \in [S -> Nat], NEW w \in [T -> Nat], NEW f,
         \A i \in S : v[i] > 0 => f[i] \in T /\ v[i] <= w[f[i]],
         \A i, j \in S : v[i] > 0 /\ v[j] > 0 /\ f[i] = f[j] => i = j
  PROVE  Total(v) <= Total(w)
<1> DEFINE g == [u \in Units(v) |-> <<f[u[1]], u[2]>>]
<1>1. ASSUME NEW u \in Units(v)
      PROVE  u[1] \in S /\ v[u[1]] > 0 /\ u[2] \in 1 .. v[u[1]] /\ u = <<u[1], u[2]>>
  <2>1. PICK i \in S : u \in {i} \X (1 .. v[i])
    BY UnitsMember
  <2>2. v[i] \in Nat /\ u[1] = i /\ u[2] \in 1 .. v[i] /\ u = <<u[1], u[2]>>
    BY <2>1
  <2> QED BY <2>2
<1>2. ASSUME NEW u \in Units(v) PROVE g[u] \in Units(w)
  <2>1. f[u[1]] \in T /\ v[u[1]] <= w[f[u[1]]]
    BY <1>1
  <2>2. w[f[u[1]]] \in Nat /\ v[u[1]] \in Nat
    BY <1>1, <2>1
  <2>3. u[2] \in 1 .. w[f[u[1]]]
    BY <1>1, <2>1, <2>2
  <2>4. g[u] \in {f[u[1]]} \X (1 .. w[f[u[1]]])
    BY <2>3
  <2> QED BY <2>1, <2>4, UnitsMember
<1>3. ASSUME NEW x \in Units(v), NEW y \in Units(v), g[x] = g[y] PROVE x = y
  <2>1. f[x[1]] = f[y[1]] /\ x[2] = y[2]
    BY <1>3
  <2>2. x[1] = y[1]
    BY <1>1, <2>1
  <2> QED BY <1>1, <2>1, <2>2
<1>4. g \in Injection(Units(v), Units(w))
  BY <1>2, <1>3 DEF Injection, IsInjective
<1>5. IsFiniteSet(Units(w))
  BY UnitsFinite
<1> HIDE DEF g
<1> QED BY <1>4, <1>5, FS_Injection DEF Total

\* No item weighs more than before: nor does all of it.
LEMMA TotalMonotone ==
  ASSUME NEW S, IsFiniteSet(S), NEW v \in [S -> Nat], NEW w \in [S -> Nat],
         \A i \in S : v[i] <= w[i]
  PROVE  Total(v) <= Total(w)
<1> DEFINE f == [i \in S |-> i]
<1>1. \A i \in S : v[i] > 0 => f[i] \in S /\ v[i] <= w[f[i]]
  OBVIOUS
<1>2. \A i, j \in S : v[i] > 0 /\ v[j] > 0 /\ f[i] = f[j] => i = j
  OBVIOUS
<1> HIDE DEF f
<1> QED BY <1>1, <1>2, TotalInjects

\* One item may weigh anything now, and no other weighs more than before.
LEMMA TotalAdds ==
  ASSUME NEW S, IsFiniteSet(S), NEW v \in [S -> Nat], NEW w \in [S -> Nat], NEW j \in S,
         \A i \in S \ {j} : v[i] <= w[i]
  PROVE  Total(v) <= Total(w) + v[j]
<1> DEFINE u == [w EXCEPT ![j] = v[j]]
<1>1. u \in [S -> Nat] /\ \A i \in S : v[i] <= u[i]
  OBVIOUS
<1>2. v[j] \in Nat /\ w[j] \in Nat /\ Total(v) \in Nat /\ Total(w) \in Nat
  BY TotalType
<1>3. Total(u) = Total(w) - w[j] + v[j]
  BY <1>2, TotalSet
<1> HIDE DEF u
<1>4. Total(v) <= Total(u)
  BY <1>1, TotalMonotone
<1> QED BY <1>2, <1>3, <1>4

\* The items of a part of the whole: none, or one and the others.
Part(w, T) == [i \in DOMAIN w |-> IF i \in T THEN w[i] ELSE 0]

LEMMA TotalParts ==
  ASSUME NEW S, IsFiniteSet(S), NEW w \in [S -> Nat]
  PROVE  /\ \A T \in SUBSET S : Part(w, T) \in [S -> Nat] /\ Total(Part(w, T)) \in Nat
         /\ Total(Part(w, {})) = 0
         /\ \A T \in SUBSET S, x \in S : x \notin T =>
              Total(Part(w, T \cup {x})) = Total(Part(w, T)) + w[x]
         /\ Part(w, S) = w
<1>1. ASSUME NEW T \in SUBSET S
      PROVE  Part(w, T) \in [S -> Nat] /\ Total(Part(w, T)) \in Nat
  <2>1. Part(w, T) \in [S -> Nat]
    BY DEF Part
  <2> QED BY <2>1, TotalType
<1>2. Part(w, {}) = [i \in S |-> 0]
  BY DEF Part
<1>3. Total(Part(w, {})) = 0
  BY <1>2, TotalZero
<1>4. ASSUME NEW T \in SUBSET S, NEW x \in S, x \notin T
      PROVE  Total(Part(w, T \cup {x})) = Total(Part(w, T)) + w[x]
  <2> DEFINE v == Part(w, T \cup {x})
  <2>1. v \in [S -> Nat] /\ v[x] = w[x] /\ [v EXCEPT ![x] = 0] = Part(w, T)
    BY <1>4 DEF Part
  <2> HIDE DEF v
  <2>2. Total(v) = Total([v EXCEPT ![x] = 0]) + v[x]
    BY <2>1, TotalSplit
  <2> QED BY <2>1, <2>2 DEF v
<1>5. Part(w, S) = w
  BY DEF Part
<1> QED BY <1>1, <1>3, <1>4, <1>5

\* Totals are linear.
LEMMA TotalLinear ==
  ASSUME NEW S, IsFiniteSet(S), NEW u \in [S -> Nat], NEW v \in [S -> Nat], NEW w \in [S -> Nat],
         NEW k \in Nat, \A i \in S : u[i] = v[i] + k * w[i]
  PROVE  Total(u) = Total(v) + k * Total(w)
<1> DEFINE pick == [T \in (SUBSET S) \ {{}} |-> CHOOSE x \in T : TRUE]
           Good == {T \in SUBSET S : Total(Part(u, T)) = Total(Part(v, T)) + k * Total(Part(w, T))}
<1>1. \A T \in (SUBSET S) \ {{}} : pick[T] \in T
  OBVIOUS
<1>2. {} \in Good
  <2>1. Total(Part(u, {})) = 0 /\ Total(Part(v, {})) = 0 /\ Total(Part(w, {})) = 0
    BY TotalParts
  <2>2. 0 = 0 + k * 0
    OBVIOUS
  <2> QED BY <2>1, <2>2
<1>3. ASSUME NEW T \in (SUBSET S) \ {{}}, T \ {pick[T]} \in Good PROVE T \in Good
  <2>1. PICK x \in T : x = pick[T]
    BY <1>1
  <2>2. PICK R : R = T \ {x}
    OBVIOUS
  <2>3. R \in SUBSET S /\ x \in S /\ x \notin R /\ T = R \cup {x}
    BY <2>2
  <2>4. PICK a, b, c \in Nat : /\ a = Total(Part(u, R)) /\ b = Total(Part(v, R))
                               /\ c = Total(Part(w, R))
    BY <2>3, TotalParts
  <2>5. a = b + k * c
    BY <1>3, <2>1, <2>2, <2>4
  <2>6. /\ Total(Part(u, T)) = a + u[x] /\ Total(Part(v, T)) = b + v[x]
        /\ Total(Part(w, T)) = c + w[x]
    BY <2>3, <2>4, TotalParts
  <2>7. PICK d, e, f \in Nat : d = u[x] /\ e = v[x] /\ f = w[x]
    BY <2>3
  <2>8. d = e + k * f
    BY <2>3, <2>7
  <2>9. k * (c + f) = k * c + k * f /\ k * c \in Nat /\ k * f \in Nat
    OBVIOUS
  <2>10. a + d = (b + e) + k * (c + f)
    BY <2>5, <2>8, <2>9
  <2> QED BY <2>6, <2>7, <2>10
<1> HIDE DEF Good, pick
<1>4. SUBSET S \subseteq Good
  <2>1. IsFiniteSet(S)
    OBVIOUS
  <2> QED BY ONLY <1>1, <1>2, <1>3, <2>1, SubsetsFrom
<1>5. Total(Part(u, S)) = Total(Part(v, S)) + k * Total(Part(w, S))
  BY <1>4 DEF Good
<1>6. Part(u, S) = u /\ Part(v, S) = v /\ Part(w, S) = w
  BY TotalParts
<1> QED BY <1>5, <1>6

\* A total is what adding its items one after the other comes to.
Enumerates(s, n, S) ==
  /\ s \in [1 .. n -> S]
  /\ \A i, j \in 1 .. n : i < j => s[i] # s[j]
  /\ \A x \in S : \E i \in 1 .. n : s[i] = x
AddsUp(run, n, w, s) == run[0] = 0 /\ \A i \in 1 .. n : run[i] = run[i - 1] + w[s[i]]

LEMMA TotalListed ==
  ASSUME NEW S, IsFiniteSet(S), NEW w \in [S -> Nat],
         NEW n \in Nat, NEW s, Enumerates(s, n, S), NEW run, AddsUp(run, n, w, s)
  PROVE  run[n] = Total(w)
<1> USE DEF Enumerates, AddsUp
<1> DEFINE upTo(i) == {s[j] : j \in 1 .. i}
           N == {i \in Nat : i \in 0 .. n => run[i] = Total(Part(w, upTo(i)))}
<1>1. 0 \in N
  <2>1. upTo(0) = {}
    OBVIOUS
  <2> QED BY <2>1, TotalParts
<1>2. ASSUME NEW i \in N PROVE i + 1 \in N
  <2>1. SUFFICES ASSUME i + 1 \in 0 .. n PROVE run[i + 1] = Total(Part(w, upTo(i + 1)))
    OBVIOUS
  <2>2. i \in 0 .. n /\ i + 1 \in 1 .. n /\ (i + 1) - 1 = i
    BY <2>1
  <2>3. PICK x, R : x = s[i + 1] /\ R = upTo(i)
    OBVIOUS
  <2>4. \A j \in 1 .. i : j \in 1 .. n /\ j < i + 1
    BY <2>2
  <2>5. x \in S /\ R \in SUBSET S /\ x \notin R
    BY <2>2, <2>3, <2>4
  <2>6. upTo(i + 1) = R \cup {x}
    <3>1. 1 .. (i + 1) = (1 .. i) \cup {i + 1}
      BY <2>2
    <3> QED BY <2>3, <3>1
  <2>7. run[i] = Total(Part(w, R)) /\ run[i + 1] = run[i] + w[x]
    BY <2>2, <2>3
  <2>8. Total(Part(w, R \cup {x})) = Total(Part(w, R)) + w[x]
    BY SMTT(30), <2>5, TotalParts
  <2> QED BY <2>6, <2>7, <2>8
<1>3. N \in SUBSET Nat
  OBVIOUS
<1>4. upTo(n) = S
  OBVIOUS
<1> HIDE DEF N, upTo
<1>5. N = Nat
  BY <1>1, <1>2, <1>3, NaturalsFrom
<1>6. n \in 0 .. n
  OBVIOUS
<1> QED BY <1>4, <1>5, <1>6, TotalParts DEF N

=============================================================================
