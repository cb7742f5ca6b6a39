----------------------------- MODULE VenueProofs -----------------------------
(***************************************************************************)
(* What goes out to a venue: the budget its processes share, and the HTTP  *)
(* client the coroutines of one of them share.                             *)
(*                                                                         *)
(* The budget, for any processes, shares, ceiling and lifetime of a lease. *)
(* A claim sees the table as it was committed, so the proof keeps what     *)
(* ties a claim to the table: the leases it has not counted are about to   *)
(* be deleted, or met it, and what it counted only shrinks until its own    *)
(* is there.                                                               *)
(*                                                                         *)
(* The client, for any coroutines, attempts, thresholds and waits: who     *)
(* stands in the limiter's line and how long each has still to wait, and   *)
(* what the breaker's fields say of one another.                           *)
(***************************************************************************)
EXTENDS VenueBudget, VenueClient, TotalsProofs

\* What some leases claim is no more than what any set they are among does.
LEMMA ClaimedGrows ==
  ASSUME NEW r \in [Lease -> Nat], NEW B \in SUBSET Lease, NEW A \in SUBSET B
  PROVE  /\ Total([l \in A |-> r[l]]) <= Total([l \in B |-> r[l]])
         /\ Total([l \in A |-> r[l]]) \in Nat /\ Total([l \in B |-> r[l]]) \in Nat
<1> DEFINE v == [l \in A |-> r[l]]
           w == [l \in B |-> r[l]]
           f == [l \in A |-> l]
<1>1. IsFiniteSet(A) /\ IsFiniteSet(B)
  BY FS_Subset, BudgetConstants
<1>2. v \in [A -> Nat] /\ w \in [B -> Nat]
  OBVIOUS
<1>3. \A l \in A : v[l] > 0 => f[l] \in B /\ v[l] <= w[f[l]]
  OBVIOUS
<1>4. \A l, k \in A : v[l] > 0 /\ v[k] > 0 /\ f[l] = f[k] => l = k
  OBVIOUS
<1> HIDE DEF v, w, f
<1>5. Total(v) <= Total(w)
  BY <1>1, <1>2, <1>3, <1>4, TotalInjects
<1>6. Total(v) \in Nat /\ Total(w) \in Nat
  BY <1>1, <1>2, TotalType
<1> QED BY <1>5, <1>6 DEF v, w

\* A lease adds its own rate.
LEMMA ClaimedAdds ==
  ASSUME NEW r \in [Lease -> Nat], NEW B \in SUBSET Lease, NEW h \in B
  PROVE  Total([l \in B |-> r[l]]) <= Total([l \in B \ {h} |-> r[l]]) + r[h]
<1> DEFINE A == B \ {h}
           v == [l \in A |-> r[l]]
           w == [l \in B |-> r[l]]
           z == [w EXCEPT ![h] = 0]
           f == [l \in B |-> l]
<1>1. IsFiniteSet(A) /\ IsFiniteSet(B) /\ A \subseteq B
  BY FS_Subset, BudgetConstants
<1>2. v \in [A -> Nat] /\ w \in [B -> Nat] /\ z \in [B -> Nat]
  OBVIOUS
<1>3. \A l \in B : z[l] > 0 => f[l] \in A /\ z[l] <= v[f[l]]
  OBVIOUS
<1>4. \A l, k \in B : z[l] > 0 /\ z[k] > 0 /\ f[l] = f[k] => l = k
  OBVIOUS
<1>5. w[h] = r[h] /\ r[h] \in Nat
  OBVIOUS
<1>6. Total(w) = Total(z) + w[h]
  <2> HIDE DEF w
  <2> QED BY <1>1, <1>2, TotalSplit
<1> HIDE DEF A, v, w, z, f
<1>7. Total(z) <= Total(v)
  BY <1>1, <1>2, <1>3, <1>4, TotalInjects
<1>8. Total(v) \in Nat /\ Total(z) \in Nat
  BY <1>1, <1>2, TotalType
<1>9. Total(w) <= Total(v) + r[h]
  BY <1>5, <1>6, <1>7, <1>8
<1> QED BY <1>9 DEF v, w, A

-----------------------------------------------------------------------------
(* The invariant.                                                          *)

Leasing(c) == pc[c] # "off"

\* Who is not idle has a lease id of its own, given out at its share.
Handed ==
  /\ \A c \in Consumer : Leasing(c) => handle[c] \in Lease /\ rate[handle[c]] = Claim[c]
  /\ \A c, d \in Consumer : Leasing(c) /\ Leasing(d) /\ handle[c] = handle[d] => c = d

\* An id in the table, or about to be deleted from it, has been given out; what is about
\* to be deleted is stale, and only a transaction deletes.
GivenOut ==
  /\ \A l \in table : rate[l] > 0
  /\ \A c \in Consumer : \A l \in doomed[c] : rate[l] > 0 /\ age[l] > Ttl
  /\ \A c \in Consumer : ~InTransaction(c) => doomed[c] = {}

\* A claim in its transaction is young and not yet in the table.
Claiming ==
  \A c \in Consumer : InTransaction(c) => handle[c] \notin table /\ age[handle[c]] <= Ttl

\* Two claims in their transactions have met.
Met ==
  \A c, d \in Consumer : c # d /\ InTransaction(c) /\ InTransaction(d) =>
    handle[d] \in beside[handle[c]]

\* The leases in the table once c has committed that its claim did not meet.
Counted(c) == {l \in Active(c) : l \notin beside[handle[c]]}

\* Who has found room has it still, beside those it did not meet.
Room == \A c \in Consumer : pc[c] = "inserted" => Claimed(Counted(c)) + Claim[c] <= Ceiling

LeaseInv == TypeOK /\ Handed /\ GivenOut /\ Claiming /\ Met
Inv == LeaseInv /\ Room /\ LeasesFit

LEMMA InvInit == Init => Inv
<1> SUFFICES ASSUME Init PROVE Inv
  OBVIOUS
<1>1. Ttl \in Nat /\ Ceiling \in Nat
  BY BudgetConstants
<1>2. TypeOK
  <2>1. age \in [Lease -> 0 .. Ttl + 1]
    BY <1>1 DEF Init
  <2>2. handle \in [Consumer -> Lease \cup {NoLease}] /\ doomed \in [Consumer -> SUBSET Lease]
    BY DEF Init
  <2>3. beside \in [Lease -> SUBSET Lease] /\ rate \in [Lease -> Nat]
    BY DEF Init
  <2> QED BY <2>1, <2>2, <2>3 DEF Init, TypeOK
<1>3. Handed /\ GivenOut /\ Claiming /\ Met /\ Room
  <2>1. table = {} /\ \A c \in Consumer : pc[c] = "off" /\ doomed[c] = {}
    BY DEF Init
  <2>2. \A c \in Consumer : ~InTransaction(c) /\ ~Leasing(c) /\ pc[c] # "inserted"
    BY <2>1 DEF InTransaction, Leasing
  <2> QED BY <2>1, <2>2 DEF Handed, GivenOut, Claiming, Met, Room
<1>4. LeasesFit
  <2> SUFFICES ASSUME NEW leases \in SUBSET table PROVE Claimed(leases) <= Ceiling
    BY DEF LeasesFit
  <2>1. \A l \in leases : rate[l] = 0
    BY DEF Init
  <2>2. [l \in leases |-> rate[l]] = [l \in leases |-> 0]
    BY ONLY <2>1
  <2>3. Claimed(leases) = Total([l \in leases |-> 0])
    BY <2>2 DEF Claimed
  <2> QED BY <1>1, <2>3, TotalZero
<1> QED BY <1>2, <1>3, <1>4 DEF Inv, LeaseInv

-----------------------------------------------------------------------------
(* The operations, each on the invariant of leases.                        *)

LEMMA ExpireStaleKeeps ==
  ASSUME LeaseInv, NEW c \in Consumer, ExpireStale(c) PROVE LeaseInv'
<1>1. PICK l \in Lease : /\ rate[l] = 0
                         /\ handle' = [handle EXCEPT ![c] = l]
                         /\ rate' = [rate EXCEPT ![l] = Claim[c]]
                         /\ age' = [age EXCEPT ![l] = 0]
                         /\ beside' = [k \in Lease |-> IF k = l THEN Claims
                                                       ELSE IF k \in Claims THEN beside[k] \cup {l}
                                                       ELSE beside[k]]
  BY DEF ExpireStale
<1>2. /\ pc[c] = "off" /\ pc' = [pc EXCEPT ![c] = "open"]
      /\ doomed' = [doomed EXCEPT ![c] = Stale]
      /\ table' = table /\ crashes' = crashes
  BY DEF ExpireStale
<1>3. Claim[c] \in Nat /\ Claim[c] > 0 /\ Ttl \in Nat
  BY BudgetConstants
<1> USE DEF LeaseInv
<1>4. TypeOK'
  <2>1. \A d \in Consumer : InTransaction(d) => handle[d] \in Lease
    BY DEF Handed, Leasing, InTransaction
  <2>2. Claims \subseteq Lease
    BY <2>1 DEF Claims
  <2>3. beside' \in [Lease -> SUBSET Lease]
    BY <1>1, <2>2 DEF TypeOK
  <2>4. /\ pc' \in [Consumer -> {"off", "open", "inserted", "running"}]
        /\ handle' \in [Consumer -> Lease \cup {NoLease}]
        /\ doomed' \in [Consumer -> SUBSET Lease] /\ table' \subseteq Lease
    BY <1>1, <1>2 DEF TypeOK, Stale
  <2>5. rate' \in [Lease -> Nat] /\ age' \in [Lease -> 0 .. Ttl + 1] /\ crashes' \in Nat
    BY <1>1, <1>2, <1>3 DEF TypeOK
  <2> QED BY <2>3, <2>4, <2>5 DEF TypeOK
<1>5. \A d \in Consumer : d # c => pc'[d] = pc[d] /\ handle'[d] = handle[d] /\ doomed'[d] = doomed[d]
  BY <1>1, <1>2 DEF TypeOK
<1>6. pc'[c] = "open" /\ handle'[c] = l /\ doomed'[c] = Stale
  BY <1>1, <1>2 DEF TypeOK
<1>7. /\ rate'[l] = Claim[c] /\ age'[l] = 0
      /\ \A k \in Lease : k # l => rate'[k] = rate[k] /\ age'[k] = age[k]
  BY <1>1 DEF TypeOK
<1>8. \A d \in Consumer : Leasing(d) => handle[d] # l
  <2>1. \A d \in Consumer : Claim[d] > 0
    BY BudgetConstants
  <2> QED BY <1>1, <2>1 DEF Handed
<1>9. l \notin table /\ \A d \in Consumer : l \notin doomed[d]
  BY <1>1 DEF GivenOut
<1>10. Handed'
  BY <1>5, <1>6, <1>7, <1>8 DEF Handed, Leasing
<1>11. GivenOut'
  <2>1. \A k \in table' : rate'[k] > 0
    BY <1>2, <1>7, <1>9 DEF GivenOut, TypeOK
  <2>2. ASSUME NEW d \in Consumer, NEW k \in doomed'[d] PROVE rate'[k] > 0 /\ age'[k] > Ttl
    <3>1. CASE d = c
      BY <2>2, <3>1, <1>6, <1>7, <1>9 DEF GivenOut, Stale, TypeOK
    <3>2. CASE d # c
      BY <2>2, <3>2, <1>5, <1>7, <1>9 DEF GivenOut, TypeOK
    <3> QED BY <3>1, <3>2
  <2>3. \A d \in Consumer : ~InTransaction(d)' => doomed'[d] = {}
    BY <1>5, <1>6 DEF GivenOut, InTransaction
  <2> QED BY <2>1, <2>2, <2>3 DEF GivenOut
<1>12. Claiming'
  <2>1. ASSUME NEW d \in Consumer, d # c, InTransaction(d)
        PROVE  handle'[d] \notin table' /\ age'[handle'[d]] <= Ttl
    BY <2>1, <1>2, <1>5, <1>7, <1>8 DEF Claiming, Handed, Leasing, InTransaction
  <2>2. handle'[c] \notin table' /\ age'[handle'[c]] <= Ttl
    BY <1>2, <1>3, <1>6, <1>7, <1>9
  <2> QED BY <2>1, <2>2, <1>5 DEF Claiming, InTransaction
<1>13. Met'
  <2> SUFFICES ASSUME NEW d \in Consumer, NEW e \in Consumer, d # e,
                      InTransaction(d)', InTransaction(e)'
               PROVE  handle'[e] \in beside'[handle'[d]]
    BY DEF Met
  <2>1. \A x \in Consumer : x # c /\ InTransaction(x)' =>
          /\ InTransaction(x) /\ handle'[x] = handle[x] /\ handle[x] \in Claims
          /\ handle[x] \in Lease /\ handle[x] # l
    BY <1>5, <1>8 DEF InTransaction, Claims, Handed, Leasing
  <2>2. /\ beside'[l] = Claims
        /\ \A k \in Claims : k \in Lease /\ k # l => beside'[k] = beside[k] \cup {l}
    BY <1>1
  <2>3. CASE d = c
    BY <2>1, <2>2, <2>3, <1>6
  <2>4. CASE e = c
    BY <2>1, <2>2, <2>4, <1>6
  <2>5. CASE d # c /\ e # c
    <3>1. handle[e] \in beside[handle[d]]
      BY <2>1, <2>5 DEF Met
    <3> QED BY <2>1, <2>2, <2>5, <3>1
  <2> QED BY <2>3, <2>4, <2>5
<1> QED BY <1>4, <1>10, <1>11, <1>12, <1>13

LEMMA AcquireKeeps ==
  ASSUME LeaseInv, NEW c \in Consumer, Acquire(c) PROVE LeaseInv'
<1>1. /\ pc[c] = "open" /\ pc' = [pc EXCEPT ![c] = "inserted"]
      /\ UNCHANGED <<handle, doomed, table, rate, age, crashes, beside>>
  BY DEF Acquire
<1>2. /\ pc'[c] = "inserted" /\ \A d \in Consumer : d # c => pc'[d] = pc[d]
      /\ TypeOK'
  BY <1>1 DEF LeaseInv, TypeOK
<1>3. \A d \in Consumer : /\ InTransaction(d)' <=> InTransaction(d)
                          /\ Leasing(d)' <=> Leasing(d)
                          /\ pc'[d] = "running" <=> pc[d] = "running"
  BY <1>1, <1>2 DEF InTransaction, Leasing
<1>4. Handed' /\ GivenOut' /\ Claiming' /\ Met'
  BY <1>1, <1>3 DEF LeaseInv, Handed, GivenOut, Claiming, Met
<1> QED BY <1>2, <1>4 DEF LeaseInv

\* A rolled back claim, whether or not its id may be given out again.
LEMMA RollBackKeeps ==
  ASSUME LeaseInv, NEW c \in Consumer, Leasing(c), RollBack(c),
         table' = table, crashes' \in Nat,
         \/ rate' = rate /\ age' = age /\ beside' = beside
         \/ /\ InTransaction(c)
            /\ rate' = [rate EXCEPT ![handle[c]] = 0]
            /\ age' = [age EXCEPT ![handle[c]] = Ttl + 1]
            /\ beside' = [k \in Lease |-> IF k = handle[c] THEN {} ELSE beside[k] \ {handle[c]}]
  PROVE  LeaseInv'
<1> USE DEF LeaseInv
<1>1. Ttl \in Nat
  BY BudgetConstants
<1>2. handle[c] \in Lease
  BY DEF Handed
<1>3. TypeOK'
  <2>1. beside' \in [Lease -> SUBSET Lease]
    BY DEF TypeOK
  <2>2. rate' \in [Lease -> Nat] /\ age' \in [Lease -> 0 .. Ttl + 1]
    BY <1>1, <1>2 DEF TypeOK
  <2>3. /\ pc' \in [Consumer -> {"off", "open", "inserted", "running"}]
        /\ handle' \in [Consumer -> Lease \cup {NoLease}]
        /\ doomed' \in [Consumer -> SUBSET Lease]
    BY DEF RollBack, TypeOK
  <2> QED BY <2>1, <2>2, <2>3 DEF TypeOK
<1>4. /\ pc'[c] = "off" /\ doomed'[c] = {}
      /\ \A d \in Consumer : d # c => /\ pc'[d] = pc[d] /\ handle'[d] = handle[d]
                                      /\ doomed'[d] = doomed[d]
  BY DEF RollBack, TypeOK
<1>5. \A k \in Lease : k # handle[c] => rate'[k] = rate[k] /\ age'[k] = age[k]
  BY DEF TypeOK
<1>6. \A d \in Consumer : Leasing(d)' => d # c /\ Leasing(d)
  BY <1>4 DEF Leasing
<1>7. \A d \in Consumer : Leasing(d)' =>
        /\ handle'[d] = handle[d] /\ handle[d] # handle[c]
        /\ rate'[handle[d]] = rate[handle[d]] /\ age'[handle[d]] = age[handle[d]]
  BY <1>4, <1>5, <1>6 DEF Handed
<1>8. Handed'
  BY <1>6, <1>7 DEF Handed
<1>9. \/ rate' = rate /\ age' = age /\ beside' = beside
      \/ handle[c] \notin table /\ \A d \in Consumer : handle[c] \notin doomed[d]
  BY <1>1 DEF Claiming, GivenOut, TypeOK
<1>10. GivenOut'
  BY <1>4, <1>5, <1>9 DEF GivenOut, InTransaction, TypeOK
<1>11. \A d \in Consumer : InTransaction(d)' \/ pc'[d] = "running" => Leasing(d)'
  BY DEF InTransaction, Leasing
<1>12. Claiming'
  BY <1>4, <1>6, <1>7, <1>11 DEF Claiming, InTransaction
<1>13. Met'
  <2> SUFFICES ASSUME NEW d \in Consumer, NEW e \in Consumer, d # e,
                      InTransaction(d)', InTransaction(e)'
               PROVE  handle'[e] \in beside'[handle'[d]]
    BY DEF Met
  <2>1. \A x \in Consumer : InTransaction(x)' =>
          /\ InTransaction(x) /\ handle'[x] = handle[x]
          /\ handle[x] \in Lease /\ handle[x] # handle[c]
    BY <1>4, <1>6, <1>7, <1>11 DEF InTransaction, Handed
  <2>2. handle[e] \in beside[handle[d]]
    BY <2>1 DEF Met
  <2>3. \/ beside' = beside
        \/ \A k \in Lease : k # handle[c] => beside'[k] = beside[k] \ {handle[c]}
    OBVIOUS
  <2> QED BY <2>1, <2>2, <2>3
<1> QED BY <1>3, <1>8, <1>10, <1>12, <1>13

LEMMA RefuseKeeps ==
  ASSUME LeaseInv, NEW c \in Consumer, Refuse(c) PROVE LeaseInv'
<1>1. InTransaction(c) /\ Leasing(c)
  BY DEF Refuse, InTransaction, Leasing
<1>2. crashes' \in Nat
  BY DEF Refuse, LeaseInv, TypeOK
<1> QED BY <1>1, <1>2, RollBackKeeps DEF Refuse

LEMMA CrashKeeps ==
  ASSUME LeaseInv, NEW c \in Consumer, Crash(c) PROVE LeaseInv'
<1>1. crashes' \in Nat
  BY DEF Crash, LeaseInv, TypeOK
<1> QED BY <1>1, RollBackKeeps DEF Crash, Leasing

LEMMA StartKeeps ==
  ASSUME LeaseInv, NEW c \in Consumer, Start(c) PROVE LeaseInv'
<1> USE DEF LeaseInv
<1>1. /\ pc[c] = "inserted" /\ pc' = [pc EXCEPT ![c] = "running"]
      /\ table' = (table \ doomed[c]) \cup {handle[c]}
      /\ doomed' = [doomed EXCEPT ![c] = {}]
      /\ UNCHANGED <<handle, rate, age, crashes, beside>>
  BY DEF Start
<1>2. InTransaction(c) /\ Leasing(c)
  BY <1>1 DEF InTransaction, Leasing
<1>3. handle[c] \in Lease /\ rate[handle[c]] = Claim[c] /\ Claim[c] > 0 /\ age[handle[c]] <= Ttl
  BY <1>2, BudgetConstants DEF Handed, Claiming
<1>4. TypeOK'
  BY <1>1, <1>3 DEF TypeOK
<1>5. /\ pc'[c] = "running" /\ doomed'[c] = {}
      /\ \A d \in Consumer : d # c => pc'[d] = pc[d] /\ doomed'[d] = doomed[d]
  BY <1>1 DEF TypeOK
<1>6. \A d \in Consumer : Leasing(d)' => Leasing(d)
  BY <1>2, <1>5 DEF Leasing
<1>7. Handed'
  BY <1>1, <1>6 DEF Handed
<1>8. GivenOut'
  BY <1>1, <1>3, <1>5 DEF GivenOut, InTransaction
<1>9. Claiming'
  <2> SUFFICES ASSUME NEW d \in Consumer, InTransaction(d)'
               PROVE  handle'[d] \notin table' /\ age'[handle'[d]] <= Ttl
    BY DEF Claiming
  <2>1. d # c /\ InTransaction(d) /\ Leasing(d)
    BY <1>5 DEF InTransaction, Leasing
  <2>2. handle[d] # handle[c]
    BY <1>2, <2>1 DEF Handed
  <2> QED BY <1>1, <2>1, <2>2 DEF Claiming
<1>10. Met'
  <2>1. \A d \in Consumer : InTransaction(d)' => InTransaction(d)
    BY <1>5 DEF InTransaction
  <2> QED BY <1>1, <2>1 DEF Met
<1> QED BY <1>4, <1>7, <1>8, <1>9, <1>10

LEMMA HeartbeatKeeps ==
  ASSUME LeaseInv, NEW c \in Consumer, Heartbeat(c) PROVE LeaseInv'
<1> USE DEF LeaseInv
<1>1. /\ pc[c] = "running" /\ ~Locked(c, handle[c])
      /\ age' = age \/ age' = [age EXCEPT ![handle[c]] = 0]
      /\ UNCHANGED <<pc, handle, doomed, table, rate, crashes, beside>>
  BY DEF Heartbeat
<1>2. Ttl \in Nat /\ handle[c] \in Lease
  BY <1>1, BudgetConstants DEF Handed, Leasing
<1>3. TypeOK'
  BY <1>1, <1>2 DEF TypeOK
<1>4. \A d \in Consumer : handle[c] \notin doomed[d]
  BY <1>1 DEF Locked, GivenOut, InTransaction
<1>5. \A k \in Lease : age'[k] = age[k] \/ (k = handle[c] /\ age'[k] = 0)
  BY <1>1, <1>2 DEF TypeOK
<1>6. Handed'
  BY <1>1 DEF Handed, Leasing
<1>7. GivenOut'
  BY <1>1, <1>4, <1>5 DEF GivenOut, InTransaction, TypeOK
<1>8. Claiming' /\ Met'
  <2>1. \A d \in Consumer : Leasing(d) => handle[d] \in Lease
    BY DEF Handed
  <2>2. \A d \in Consumer : Leasing(d) /\ age[handle[d]] <= Ttl => age'[handle[d]] <= Ttl
    BY <1>2, <1>5, <2>1
  <2>3. \A d \in Consumer : InTransaction(d) => Leasing(d)
    BY DEF InTransaction, Leasing
  <2>4. Claiming'
    BY <1>1, <2>2, <2>3 DEF Claiming, InTransaction
  <2>5. Met'
    BY <1>1 DEF Met, InTransaction
  <2> QED BY <2>4, <2>5
<1> QED BY <1>3, <1>6, <1>7, <1>8

LEMMA ReleaseKeeps ==
  ASSUME LeaseInv, NEW c \in Consumer, Release(c) PROVE LeaseInv'
<1> USE DEF LeaseInv
<1>1. /\ pc[c] = "running" /\ ~Locked(c, handle[c])
      /\ table' = table \ {handle[c]}
      /\ pc' = [pc EXCEPT ![c] = "off"] /\ handle' = [handle EXCEPT ![c] = NoLease]
      /\ age' = [age EXCEPT ![handle[c]] = Ttl + 1]
      /\ UNCHANGED <<doomed, rate, crashes, beside>>
  BY DEF Release
<1>2. Ttl \in Nat /\ handle[c] \in Lease /\ Leasing(c)
  BY <1>1, BudgetConstants DEF Handed, Leasing
<1>3. TypeOK'
  BY <1>1, <1>2 DEF TypeOK
<1>4. /\ pc'[c] = "off"
      /\ \A d \in Consumer : d # c => pc'[d] = pc[d] /\ handle'[d] = handle[d]
  BY <1>1 DEF TypeOK
<1>5. age'[handle[c]] = Ttl + 1 /\ \A k \in Lease : k # handle[c] => age'[k] = age[k]
  BY <1>1, <1>2 DEF TypeOK
<1>6. \A d \in Consumer : Leasing(d)' =>
        /\ Leasing(d) /\ handle'[d] = handle[d] /\ pc'[d] = pc[d]
        /\ handle[d] \in Lease /\ handle[d] # handle[c] /\ age'[handle[d]] = age[handle[d]]
  <2> SUFFICES ASSUME NEW d \in Consumer, Leasing(d)'
               PROVE  /\ Leasing(d) /\ handle'[d] = handle[d] /\ pc'[d] = pc[d]
                      /\ handle[d] \in Lease /\ handle[d] # handle[c]
                      /\ age'[handle[d]] = age[handle[d]]
    OBVIOUS
  <2>1. d # c /\ Leasing(d)
    BY <1>4 DEF Leasing
  <2>2. handle[d] \in Lease /\ handle[d] # handle[c]
    BY <1>2, <2>1 DEF Handed
  <2> QED BY <1>4, <1>5, <2>1, <2>2
<1>7. Handed'
  BY <1>1, <1>6 DEF Handed
<1>8. GivenOut'
  <2>1. \A d \in Consumer : \A k \in doomed[d] : age'[k] > Ttl
    <3> SUFFICES ASSUME NEW d \in Consumer, NEW k \in doomed[d] PROVE age'[k] > Ttl
      OBVIOUS
    <3>1. k \in Lease /\ age[k] > Ttl
      BY DEF GivenOut, TypeOK
    <3> QED BY <1>2, <1>5, <3>1
  <2>2. \A d \in Consumer : ~InTransaction(d)' => ~InTransaction(d)
    BY <1>1, <1>4 DEF InTransaction
  <2> QED BY <1>1, <2>1, <2>2 DEF GivenOut
<1>9. Claiming' /\ Met'
  <2>1. \A d \in Consumer : InTransaction(d)' => Leasing(d)'
    BY DEF InTransaction, Leasing
  <2>2. Claiming'
    BY <1>1, <1>6, <2>1 DEF Claiming, InTransaction
  <2>3. Met'
    BY <1>1, <1>6, <2>1 DEF Met, InTransaction
  <2> QED BY <2>2, <2>3
<1> QED BY <1>3, <1>7, <1>8, <1>9

LEMMA TickKeeps ==
  ASSUME LeaseInv, Tick PROVE LeaseInv'
<1> USE DEF LeaseInv
<1>1. /\ \A c \in Consumer : InTransaction(c) => age[handle[c]] < Ttl
      /\ age' = [l \in Lease |-> IF age[l] <= Ttl THEN age[l] + 1 ELSE age[l]]
      /\ UNCHANGED <<pc, handle, doomed, table, rate, crashes, beside>>
  BY DEF Tick
<1>2. Ttl \in Nat
  BY BudgetConstants
<1>3. \A l \in Lease : age[l] \in 0 .. Ttl + 1 /\ age'[l] \in 0 .. Ttl + 1
  BY <1>1, <1>2 DEF TypeOK
<1>4. TypeOK'
  <2>1. age' \in [Lease -> 0 .. Ttl + 1]
    BY <1>1, <1>3
  <2> QED BY <1>1, <2>1 DEF TypeOK
<1>5. \A l \in Lease : age'[l] >= age[l] /\ age'[l] <= age[l] + 1
  BY <1>1, <1>2, <1>3
<1>6. Handed'
  BY <1>1 DEF Handed, Leasing
<1>7. GivenOut'
  <2>1. \A d \in Consumer : \A k \in doomed[d] : age'[k] > Ttl
    <3> SUFFICES ASSUME NEW d \in Consumer, NEW k \in doomed[d] PROVE age'[k] > Ttl
      OBVIOUS
    <3>1. k \in Lease /\ age[k] > Ttl
      BY DEF GivenOut, TypeOK
    <3> QED BY <1>2, <1>3, <1>5, <3>1
  <2> QED BY <1>1, <2>1 DEF GivenOut, InTransaction
<1>8. \A c \in Consumer : Leasing(c) => handle[c] \in Lease
  BY DEF Handed
<1>9. Claiming'
  <2> SUFFICES ASSUME NEW c \in Consumer, InTransaction(c)
               PROVE  handle[c] \notin table /\ age'[handle[c]] <= Ttl
    BY <1>1 DEF Claiming, InTransaction
  <2>1. handle[c] \in Lease
    BY <1>8 DEF InTransaction, Leasing
  <2> QED BY <1>1, <1>2, <1>3, <1>5, <2>1 DEF Claiming
<1>10. Met'
  BY <1>1 DEF Met, InTransaction
<1> QED BY <1>4, <1>6, <1>7, <1>9, <1>10

LEMMA LeaseInvNext == LeaseInv /\ [Next]_vars => LeaseInv'
<1> SUFFICES ASSUME LeaseInv, [Next]_vars PROVE LeaseInv'
  OBVIOUS
<1>1. CASE UNCHANGED vars
  BY <1>1 DEF vars, LeaseInv, TypeOK, Handed, GivenOut, Claiming, Met, Leasing, InTransaction
<1>2. CASE Tick
  BY <1>2, TickKeeps
<1>3. ASSUME NEW c \in Consumer,
             ExpireStale(c) \/ Acquire(c) \/ Refuse(c) \/ Start(c) \/ Heartbeat(c)
               \/ Release(c) \/ Crash(c)
      PROVE  LeaseInv'
  BY <1>3, ExpireStaleKeeps, AcquireKeeps, RefuseKeeps, StartKeeps, HeartbeatKeeps,
     ReleaseKeeps, CrashKeeps
<1> QED BY <1>1, <1>2, <1>3 DEF Next

-----------------------------------------------------------------------------
(* The ceiling.                                                            *)

\* Who has found room keeps it while the leases it counts grow by none.
LEMMA RoomKept ==
  ASSUME LeaseInv, Room, NEW d \in Consumer, pc[d] = "inserted",
         Counted(d)' \subseteq Counted(d), rate' \in [Lease -> Nat],
         \A l \in Counted(d)' : rate'[l] = rate[l]
  PROVE  Claimed(Counted(d))' + Claim[d] <= Ceiling
<1> DEFINE A == Counted(d)'
           B == Counted(d)
<1>1. B \in SUBSET Lease /\ A \in SUBSET B
  BY DEF LeaseInv, TypeOK, Counted, Active
<1>2. [l \in A |-> rate'[l]] = [l \in A |-> rate[l]]
  OBVIOUS
<1>3. Claimed(B) + Claim[d] <= Ceiling
  BY DEF Room
<1>4. rate \in [Lease -> Nat] /\ Claim[d] \in Nat /\ Ceiling \in Nat
  BY BudgetConstants DEF LeaseInv, TypeOK
<1> HIDE DEF A, B
<1>5. /\ Total([l \in A |-> rate[l]]) <= Total([l \in B |-> rate[l]])
      /\ Total([l \in A |-> rate[l]]) \in Nat /\ Total([l \in B |-> rate[l]]) \in Nat
  BY <1>1, <1>4, ClaimedGrows
<1>6. Total([l \in A |-> rate'[l]]) + Claim[d] <= Ceiling
  BY <1>2, <1>3, <1>4, <1>5 DEF Claimed
<1> QED BY <1>6 DEF A, Claimed

\* Leases that fit do while none is added, none changes, and none that met forgets it.
LEMMA FitsKept ==
  ASSUME LeasesFit, table' \subseteq table, \A l \in table' : rate'[l] = rate[l],
         \A l, k \in table' : l \in beside[k] => l \in beside'[k]
  PROVE  LeasesFit'
<1> SUFFICES ASSUME NEW leases \in SUBSET table', Apart(leases)'
             PROVE  Claimed(leases)' <= Ceiling
  BY DEF LeasesFit
<1>1. Apart(leases)
  BY DEF Apart
<1>2. Claimed(leases) <= Ceiling
  BY <1>1 DEF LeasesFit
<1>3. [l \in leases |-> rate'[l]] = [l \in leases |-> rate[l]]
  OBVIOUS
<1> QED BY <1>2, <1>3 DEF Claimed

LEMMA ExpireStaleFits ==
  ASSUME LeaseInv, LeaseInv', Room, LeasesFit, NEW c \in Consumer, ExpireStale(c)
  PROVE  Room' /\ LeasesFit'
<1> USE DEF LeaseInv
<1>1. PICK h \in Lease : /\ rate[h] = 0
                         /\ handle' = [handle EXCEPT ![c] = h]
                         /\ rate' = [rate EXCEPT ![h] = Claim[c]]
                         /\ beside' = [k \in Lease |-> IF k = h THEN Claims
                                                       ELSE IF k \in Claims THEN beside[k] \cup {h}
                                                       ELSE beside[k]]
  BY DEF ExpireStale
<1>2. /\ pc' = [pc EXCEPT ![c] = "open"] /\ doomed' = [doomed EXCEPT ![c] = Stale]
      /\ table' = table
  BY DEF ExpireStale
<1>3. \A d \in Consumer : d # c => /\ pc'[d] = pc[d] /\ handle'[d] = handle[d]
                                   /\ doomed'[d] = doomed[d]
  BY <1>1, <1>2 DEF TypeOK
<1>4. h \notin table /\ pc'[c] # "inserted" /\ rate' \in [Lease -> Nat]
  BY <1>1, <1>2 DEF GivenOut, TypeOK
<1>5. \A l \in Lease : l # h => rate'[l] = rate[l]
  BY <1>1 DEF TypeOK
<1>6. \A k \in Lease : k # h => beside[k] \subseteq beside'[k]
  BY <1>1
<1>7. ASSUME NEW d \in Consumer, pc'[d] = "inserted"
      PROVE  Claimed(Counted(d))' + Claim[d] <= Ceiling
  <2>1. d # c /\ pc[d] = "inserted"
    BY <1>3, <1>4, <1>7
  <2>2. handle[d] \in Lease /\ handle[d] # h
    <3>1. Leasing(d) /\ Claim[d] > 0
      BY <2>1, BudgetConstants DEF Leasing
    <3> QED BY <1>1, <3>1 DEF Handed
  <2>3. Counted(d)' \subseteq Counted(d)
    BY <1>2, <1>3, <1>6, <2>1, <2>2 DEF Counted, Active
  <2>4. \A l \in Counted(d)' : rate'[l] = rate[l]
    BY <1>2, <1>4, <1>5 DEF Counted, Active, TypeOK
  <2> QED BY <1>4, <2>1, <2>3, <2>4, RoomKept
<1>8. LeasesFit'
  <2>1. \A l \in table' : rate'[l] = rate[l]
    BY <1>2, <1>4, <1>5 DEF TypeOK
  <2>2. \A l, k \in table' : l \in beside[k] => l \in beside'[k]
    BY <1>2, <1>4, <1>6 DEF TypeOK
  <2>3. table' \subseteq table
    BY <1>2
  <2> QED BY <2>1, <2>2, <2>3, FitsKept
<1> QED BY <1>7, <1>8 DEF Room

LEMMA AcquireFits ==
  ASSUME LeaseInv, Room, LeasesFit, NEW c \in Consumer, Acquire(c)
  PROVE  Room' /\ LeasesFit'
<1>1. /\ pc' = [pc EXCEPT ![c] = "inserted"] /\ Fits(c)
      /\ UNCHANGED <<handle, doomed, table, rate, beside>>
  BY DEF Acquire
<1>2. rate \in [Lease -> Nat] /\ \A d \in Consumer : d # c => pc'[d] = pc[d]
  BY <1>1 DEF LeaseInv, TypeOK
<1>3. \A d \in Consumer : Counted(d)' = Counted(d)
  BY <1>1 DEF Counted, Active
<1>4. ASSUME NEW d \in Consumer, pc'[d] = "inserted"
      PROVE  Claimed(Counted(d))' + Claim[d] <= Ceiling
  <2>1. Claimed(Counted(d))' = Claimed(Counted(d))
    BY <1>1, <1>3 DEF Claimed
  <2>2. CASE d = c
    <3>1. Active(c) \in SUBSET Lease /\ Counted(c) \in SUBSET Active(c)
      BY DEF Active, Counted, LeaseInv, TypeOK
    <3>2. /\ Total([l \in Counted(c) |-> rate[l]]) <= Total([l \in Active(c) |-> rate[l]])
          /\ Total([l \in Counted(c) |-> rate[l]]) \in Nat
          /\ Total([l \in Active(c) |-> rate[l]]) \in Nat
      BY <1>2, <3>1, ClaimedGrows
    <3>3. Claimed(Active(c)) + Claim[c] <= Ceiling /\ Claim[c] \in Nat /\ Ceiling \in Nat
      BY <1>1, BudgetConstants DEF Fits
    <3> QED BY <2>1, <2>2, <3>2, <3>3 DEF Claimed
  <2>3. CASE d # c
    BY <1>2, <1>4, <2>1, <2>3 DEF Room
  <2> QED BY <2>2, <2>3
<1>5. LeasesFit'
  BY <1>1, FitsKept
<1> QED BY <1>4, <1>5 DEF Room

\* A claim rolled back or a lease released takes nothing from the room of others.
LEMMA LeavingFits ==
  ASSUME LeaseInv, LeaseInv', Room, LeasesFit, NEW c \in Consumer,
         Refuse(c) \/ Crash(c) \/ Release(c)
  PROVE  Room' /\ LeasesFit'
<1> USE DEF LeaseInv
<1>1. /\ pc' = [pc EXCEPT ![c] = "off"] /\ handle' = [handle EXCEPT ![c] = NoLease]
      /\ table' \subseteq table
  BY DEF Refuse, Crash, Release, RollBack
<1>2. \A d \in Consumer : d # c => /\ pc'[d] = pc[d] /\ handle'[d] = handle[d]
                                   /\ doomed'[d] = doomed[d]
  <2>1. doomed' = doomed \/ doomed' = [doomed EXCEPT ![c] = {}]
    BY DEF Refuse, Crash, Release, RollBack
  <2> QED BY <1>1, <2>1 DEF TypeOK
<1>3. pc'[c] # "inserted" /\ rate' \in [Lease -> Nat] /\ table' \subseteq Lease
  BY <1>1 DEF TypeOK
<1>4. /\ \A l \in table' : rate'[l] = rate[l]
      /\ \A k \in Lease : \A l \in table' : k # handle[c] \/ beside' = beside =>
           (l \in beside'[k] <=> l \in beside[k])
      /\ beside' = beside \/ handle[c] \notin table'
  <2>1. CASE Refuse(c)
    <3>1. handle[c] \in Lease /\ handle[c] \notin table
      BY <2>1 DEF Refuse, Handed, Leasing, Claiming, InTransaction
    <3>2. /\ rate' = [rate EXCEPT ![handle[c]] = 0] /\ table' = table
          /\ beside' = [k \in Lease |-> IF k = handle[c] THEN {} ELSE beside[k] \ {handle[c]}]
      BY <2>1 DEF Refuse
    <3>3. \A l \in table' : rate'[l] = rate[l]
      BY <3>1, <3>2 DEF TypeOK
    <3>4. \A k \in Lease : k # handle[c] => beside'[k] = beside[k] \ {handle[c]}
      BY <3>2
    <3>5. \A k \in Lease : \A l \in table' : k # handle[c] => (l \in beside'[k] <=> l \in beside[k])
      BY <3>1, <3>2, <3>4
    <3>6. beside' = beside =>
            \A k \in Lease : \A l \in table' : l \in beside'[k] <=> l \in beside[k]
      OBVIOUS
    <3> QED BY <3>1, <3>2, <3>3, <3>5, <3>6
  <2>2. CASE Crash(c) \/ Release(c)
    BY <2>2 DEF Crash, Release
  <2> QED BY <2>1, <2>2
<1>5. ASSUME NEW d \in Consumer, pc'[d] = "inserted"
      PROVE  Claimed(Counted(d))' + Claim[d] <= Ceiling
  <2>1. d # c /\ pc[d] = "inserted" /\ handle'[d] = handle[d] /\ doomed'[d] = doomed[d]
    BY <1>2, <1>3, <1>5
  <2>2. handle[d] \in Lease
    BY <2>1 DEF Handed, Leasing
  <2>3. Leasing(c)
    BY DEF Refuse, Crash, Release, Leasing
  <2>4. handle[d] # handle[c]
    BY <2>1, <2>3 DEF Handed, Leasing
  <2>5. Counted(d)' \subseteq Counted(d)
    BY <1>1, <1>4, <2>1, <2>2, <2>4 DEF Counted, Active
  <2>6. \A l \in Counted(d)' : rate'[l] = rate[l]
    BY <1>4 DEF Counted, Active
  <2> QED BY <1>3, <2>1, <2>5, <2>6, RoomKept
<1>6. LeasesFit'
  <2>1. \A l, k \in table' : l \in beside[k] => l \in beside'[k]
    BY <1>3, <1>4
  <2> QED BY <1>1, <1>4, <2>1, FitsKept
<1> QED BY <1>5, <1>6 DEF Room

\* The lease that starts counted all those it did not meet.
LEMMA StartFits ==
  ASSUME LeaseInv, LeaseInv', Room, LeasesFit, NEW c \in Consumer, Start(c)
  PROVE  Room' /\ LeasesFit'
<1> USE DEF LeaseInv
<1> DEFINE h == handle[c]
<1>1. /\ pc[c] = "inserted" /\ pc' = [pc EXCEPT ![c] = "running"]
      /\ table' = (table \ doomed[c]) \cup {h} /\ doomed' = [doomed EXCEPT ![c] = {}]
      /\ UNCHANGED <<handle, rate, beside>>
  BY DEF Start
<1>2. \A d \in Consumer : d # c => pc'[d] = pc[d] /\ doomed'[d] = doomed[d]
  BY <1>1 DEF TypeOK
<1>3. InTransaction(c) /\ h \in Lease /\ rate[h] = Claim[c] /\ pc'[c] # "inserted"
  BY <1>1 DEF InTransaction, Handed, Leasing, TypeOK
<1>4. rate \in [Lease -> Nat] /\ Ceiling \in Nat /\ Claim[c] \in Nat /\ table' \subseteq Lease
  BY BudgetConstants DEF TypeOK
<1>5. ASSUME NEW d \in Consumer, pc'[d] = "inserted"
      PROVE  Claimed(Counted(d))' + Claim[d] <= Ceiling
  <2>1. d # c /\ pc[d] = "inserted" /\ doomed'[d] = doomed[d]
    BY <1>2, <1>3, <1>5
  <2>2. h \in beside[handle[d]]
    BY <1>3, <2>1 DEF Met, InTransaction
  <2>3. Counted(d)' \subseteq Counted(d)
    BY <1>1, <2>1, <2>2 DEF Counted, Active
  <2>4. rate' = rate
    BY <1>1
  <2> QED BY <1>4, <2>1, <2>3, <2>4, RoomKept
<1>6. LeasesFit'
  <2> SUFFICES ASSUME NEW leases \in SUBSET table', Apart(leases)'
               PROVE  Claimed(leases)' <= Ceiling
    BY DEF LeasesFit
  <2>1. Apart(leases) /\ Claimed(leases)' = Claimed(leases)
    BY <1>1 DEF Apart, Claimed
  <2>2. CASE h \notin leases
    <3>1. leases \in SUBSET table
      BY <1>1, <2>2
    <3> QED BY <2>1, <3>1 DEF LeasesFit
  <2>3. CASE h \in leases
    <3>1. leases \ {h} \in SUBSET Counted(c) /\ Counted(c) \in SUBSET Lease
      BY <1>1, <2>1, <2>3 DEF Apart, Counted, Active, TypeOK
    <3>2. Claimed(Counted(c)) + Claim[c] <= Ceiling
      BY <1>1 DEF Room
    <3> HIDE DEF h
    <3>3. /\ Total([l \in leases \ {h} |-> rate[l]]) <= Total([l \in Counted(c) |-> rate[l]])
          /\ Total([l \in leases \ {h} |-> rate[l]]) \in Nat
          /\ Total([l \in Counted(c) |-> rate[l]]) \in Nat
      BY <1>4, <3>1, ClaimedGrows
    <3>4. leases \in SUBSET Lease
      BY <1>4
    <3>5. Total([l \in leases |-> rate[l]]) <= Total([l \in leases \ {h} |-> rate[l]]) + rate[h]
      BY <1>4, <2>3, <3>4, ClaimedAdds
    <3>6. Total([l \in leases |-> rate[l]]) \in Nat
      BY <1>4, <3>4, ClaimedGrows
    <3>7. Total([l \in leases |-> rate[l]]) <= Ceiling
      BY <1>3, <1>4, <3>2, <3>3, <3>5, <3>6 DEF Claimed
    <3> QED BY <2>1, <3>7 DEF Claimed
  <2> QED BY <2>2, <2>3
<1> QED BY <1>5, <1>6 DEF Room

LEMMA FitNext == Inv /\ [Next]_vars /\ LeaseInv' => Room' /\ LeasesFit'
<1> SUFFICES ASSUME Inv, [Next]_vars, LeaseInv' PROVE Room' /\ LeasesFit'
  OBVIOUS
<1> USE DEF Inv
<1>1. ASSUME UNCHANGED <<pc, handle, doomed, table, rate, beside>> PROVE Room' /\ LeasesFit'
  <2>1. Room'
    BY <1>1 DEF Room, Counted, Active, Claimed
  <2>2. LeasesFit'
    BY <1>1, FitsKept
  <2> QED BY <2>1, <2>2
<1>2. CASE Tick \/ UNCHANGED vars
  BY <1>1, <1>2 DEF Tick, vars
<1>3. ASSUME NEW c \in Consumer,
             ExpireStale(c) \/ Acquire(c) \/ Refuse(c) \/ Start(c) \/ Heartbeat(c)
               \/ Release(c) \/ Crash(c)
      PROVE  Room' /\ LeasesFit'
  <2>1. CASE Heartbeat(c)
    BY <1>1, <2>1 DEF Heartbeat
  <2> QED BY <1>3, <2>1, ExpireStaleFits, AcquireFits, LeavingFits, StartFits
<1> QED BY <1>2, <1>3 DEF Next

\* The inductive invariant of the lease table and the consumers that claim in it.
THEOREM Invariance == Spec => []Inv
<1>1. Inv /\ [Next]_vars => Inv'
  BY LeaseInvNext, FitNext DEF Inv
<1> QED BY <1>1, InvInit, PTL DEF Spec

\* Every variable keeps its shape.
THEOREM TypeCorrect == Spec => []TypeOK
<1>1. Inv => TypeOK
  BY DEF Inv, LeaseInv
<1> QED BY <1>1, Invariance, PTL

\* Leases granted one after another fit under the ceiling, however many consumers there
\* are and whatever they claim: two that exceed it by meeting excuse no third
\* (budget.py:16-20).
THEOREM GrantedLeasesFit == Spec => []LeasesFit
<1>1. Inv => LeasesFit
  BY DEF Inv
<1> QED BY <1>1, Invariance, PTL

\* Nobody loses a live share, not to a claim that found it stale and commits after a late
\* heartbeat: what is about to be deleted is stale as long as its row is locked
\* (budget.py:22-24).
THEOREM LiveSharesStay == Spec => LiveShareStays
<1> DEFINE Stays == \A c \in Consumer :
                      pc[c] = "running" /\ pc'[c] = "running" /\ handle[c] \in table \ Stale =>
                        handle[c] \in table'
<1>1. Inv /\ [Next]_vars => Stays
  <2> SUFFICES ASSUME LeaseInv, [Next]_vars, NEW c \in Consumer,
                      pc[c] = "running", pc'[c] = "running", handle[c] \in table \ Stale
               PROVE  handle[c] \in table'
    BY DEF Inv
  <2>1. ASSUME NEW d \in Consumer, Start(d) PROVE handle[c] \in table'
    BY <2>1 DEF Start, LeaseInv, GivenOut, Stale
  <2>2. ASSUME NEW d \in Consumer, Release(d) PROVE handle[c] \in table'
    <3>1. d # c /\ Leasing(c) /\ Leasing(d)
      BY <2>2 DEF Release, LeaseInv, TypeOK, Leasing
    <3>2. handle[c] # handle[d]
      BY <3>1 DEF LeaseInv, Handed
    <3> QED BY <2>2, <3>2 DEF Release
  <2>3. ASSUME NEW d \in Consumer,
               ExpireStale(d) \/ Acquire(d) \/ Refuse(d) \/ Heartbeat(d) \/ Crash(d)
        PROVE  table' = table
    BY <2>3 DEF ExpireStale, Acquire, Refuse, Heartbeat, Crash
  <2>4. CASE Tick \/ UNCHANGED vars
    BY <2>4 DEF Tick, vars
  <2> QED BY <2>1, <2>2, <2>3, <2>4 DEF Next
<1>2. Spec => [][Stays]_vars
  BY <1>1, Invariance, PTL DEF Spec
<1> QED BY <1>2 DEF LiveShareStays

-----------------------------------------------------------------------------
(* The client's breaker.                                                   *)

BreakerType ==
  /\ failures \in 0 .. Threshold
  /\ tripAge \in 0 .. CooldownMax
  /\ cooldown \in Cooldown .. CooldownMax
  /\ probed \in 0 .. CooldownMax

BreakerFlags == tripped \in BOOLEAN /\ probing \in BOOLEAN /\ up \in BOOLEAN

\* A probe that is out waited as long as the breaker says; one that failed has doubled it.
ProbeInv ==
  /\ probing => probed = cooldown
  /\ ~probing /\ probed # 0 => cooldown = Least(probed * 2, CooldownMax)

BreakerInv == BreakerType /\ BreakerFlags /\ BreakerAgrees /\ ProbeInv

LEMMA ClientNumbers ==
  /\ Interval \in Nat /\ Interval >= 1 /\ MaxAttempts \in Nat /\ MaxAttempts >= 1
  /\ Threshold \in Nat /\ Threshold >= 1
  /\ Backoff \in Nat /\ Backoff >= 1 /\ BackoffMax \in Nat /\ Backoff <= BackoffMax
  /\ Cooldown \in Nat /\ Cooldown >= 1 /\ CooldownMax \in Nat /\ Cooldown <= CooldownMax
  BY ClientConstants

LEMMA BreakerInit == ClientInit => BreakerInv
<1> SUFFICES ASSUME ClientInit PROVE BreakerInv
  OBVIOUS
<1>1. BreakerType
  BY ClientNumbers DEF ClientInit, BreakerType
<1>2. BreakerFlags
  BY DEF ClientInit, BreakerFlags
<1>3. BreakerAgrees
  BY ClientNumbers DEF ClientInit, BreakerAgrees
<1>4. ProbeInv
  BY DEF ClientInit, ProbeInv
<1> QED BY <1>1, <1>2, <1>3, <1>4 DEF BreakerInv

\* A failed probe starts a longer wait; any other failure counts.
LEMMA RefusedKeeps ==
  ASSUME BreakerInv, Refused, up' = up, probed' = probed PROVE BreakerInv'
<1>1. BreakerFlags'
  BY DEF Refused, Trip, BreakerInv, BreakerFlags
<1>2. /\ failures \in 0 .. Threshold /\ tripAge \in 0 .. CooldownMax
      /\ cooldown \in Cooldown .. CooldownMax /\ probed \in 0 .. CooldownMax
  BY DEF BreakerInv, BreakerType
<1>3. failures' \in 0 .. Threshold
  BY <1>2, ClientNumbers DEF Refused, Least
<1>4. tripAge' \in 0 .. CooldownMax
  <2>1. tripAge' = 0 \/ tripAge' = tripAge
    BY DEF Refused, Trip
  <2> QED BY <1>2, <2>1, ClientNumbers
<1>5. Least(cooldown * 2, CooldownMax) \in Cooldown .. CooldownMax
  BY <1>2, ClientNumbers DEF Least
<1>6. cooldown' \in Cooldown .. CooldownMax
  <2>1. cooldown' = cooldown \/ cooldown' = Least(cooldown * 2, CooldownMax)
    BY DEF Refused
  <2> QED BY <1>2, <1>5, <2>1
<1>7. BreakerType'
  BY <1>2, <1>3, <1>4, <1>6 DEF BreakerType
<1>8. CASE probing
  <2>1. tripped /\ failures = Threshold /\ probed = cooldown
    BY <1>8 DEF BreakerInv, BreakerAgrees, ProbeInv
  <2>2. failures' = Threshold
    BY <2>1, ClientNumbers DEF Refused, Least
  <2>3. tripped' /\ ~ probing' /\ cooldown' = Least(cooldown * 2, CooldownMax)
    BY <1>8 DEF Refused, Trip
  <2>4. BreakerAgrees' /\ ProbeInv'
    BY <2>1, <2>2, <2>3 DEF BreakerAgrees, ProbeInv
  <2> QED BY <1>1, <1>7, <2>4 DEF BreakerInv
<1>9. CASE ~ probing
  <2>1. ~ probing' /\ cooldown' = cooldown
    BY <1>9 DEF Refused
  <2>2. BreakerAgrees'
    <3>1. CASE failures + 1 >= Threshold
      <4>1. failures' = Threshold
        BY <1>2, <3>1, ClientNumbers DEF Refused, Least
      <4>2. tripped'
        BY <3>1 DEF Refused, Trip
      <4> QED BY <4>1, <4>2 DEF BreakerAgrees
    <3>2. CASE ~ (failures + 1 >= Threshold)
      <4>1. failures' # Threshold /\ failures # Threshold
        BY <1>2, <3>2, ClientNumbers DEF Refused, Least
      <4>2. tripped' = tripped
        BY <1>9, <3>2 DEF Refused, Trip
      <4> QED BY <1>9, <2>1, <4>1, <4>2 DEF BreakerInv, BreakerAgrees
    <3> QED BY <3>1, <3>2
  <2>3. ProbeInv'
    BY <1>9, <2>1 DEF BreakerInv, ProbeInv
  <2> QED BY <1>1, <1>7, <2>2, <2>3 DEF BreakerInv
<1> QED BY <1>8, <1>9

LEMMA AnsweredKeeps ==
  ASSUME BreakerInv, Answered, up' = up, probed' = 0 PROVE BreakerInv'
<1>1. BreakerType'
  BY ClientNumbers DEF Answered, BreakerType
<1>2. BreakerFlags'
  BY DEF Answered, BreakerInv, BreakerFlags
<1>3. BreakerAgrees'
  BY ClientNumbers DEF Answered, BreakerAgrees
<1>4. ProbeInv'
  BY DEF Answered, ProbeInv
<1> QED BY <1>1, <1>2, <1>3, <1>4 DEF BreakerInv

LEMMA BreakerStays ==
  ASSUME BreakerInv, UNCHANGED <<breaker, probed>>, up' \in BOOLEAN PROVE BreakerInv'
  BY DEF breaker, BreakerInv, BreakerType, BreakerFlags, BreakerAgrees, ProbeInv

LEMMA BreakerNext == BreakerInv /\ [ClientNext]_clientVars => BreakerInv'
<1> SUFFICES ASSUME BreakerInv, [ClientNext]_clientVars PROVE BreakerInv'
  OBVIOUS
<1>1. up \in BOOLEAN
  BY DEF BreakerInv, BreakerFlags
<1>2. CASE \E c \in Caller : Enter(c) \/ Depart(c) \/ Retry(c)
  BY <1>1, <1>2, BreakerStays DEF Enter, Depart, Retry
<1>3. ASSUME NEW c \in Caller, EnterHalfOpen(c) PROVE BreakerInv'
  <2>1. /\ UNCHANGED <<failures, tripped, tripAge, cooldown, up>>
        /\ probed' = IF probing THEN probed ELSE cooldown
    BY <1>3 DEF EnterHalfOpen
  <2>2. tripped /\ probing' = TRUE
    BY <1>3 DEF EnterHalfOpen
  <2>3. probed' = cooldown
    BY <2>1 DEF BreakerInv, ProbeInv
  <2>4. probed' \in 0 .. CooldownMax
    BY <2>3, ClientNumbers DEF BreakerInv, BreakerType
  <2>5. BreakerType'
    BY <2>1, <2>4 DEF BreakerInv, BreakerType
  <2>6. BreakerFlags'
    BY <2>1, <2>2 DEF BreakerInv, BreakerFlags
  <2>7. BreakerAgrees' /\ ProbeInv'
    BY <2>1, <2>2, <2>3 DEF BreakerInv, BreakerAgrees, ProbeInv
  <2> QED BY <2>5, <2>6, <2>7 DEF BreakerInv
<1>4. ASSUME NEW c \in Caller, TransportError(c) PROVE BreakerInv'
  <2>1. Refused /\ up' = up /\ probed' = probed
    BY <1>4 DEF TransportError
  <2> QED BY <2>1, RefusedKeeps
<1>5. ASSUME NEW c \in Caller, Busy(c) \/ Settled(c) PROVE BreakerInv'
  <2>1. Answered /\ up' = up /\ probed' = 0
    BY <1>5 DEF Busy, Settled
  <2> QED BY <2>1, AnsweredKeeps
<1>6. CASE Outage
  <2>1. UNCHANGED <<breaker, probed>> /\ up' \in BOOLEAN
    BY <1>6 DEF Outage
  <2> QED BY <2>1, BreakerStays
<1>7. CASE ClientTick
  <2>1. /\ UNCHANGED <<failures, tripped, cooldown, probing, up, probed>>
        /\ tripAge' = tripAge \/ tripAge' = Least(tripAge + 1, CooldownMax)
    BY <1>7 DEF ClientTick
  <2>2. tripAge' \in 0 .. CooldownMax
    BY <2>1, ClientNumbers DEF Least, BreakerInv, BreakerType
  <2>3. BreakerType'
    BY <2>1, <2>2 DEF BreakerInv, BreakerType
  <2>4. BreakerFlags' /\ BreakerAgrees' /\ ProbeInv'
    BY <2>1 DEF BreakerInv, BreakerFlags, BreakerAgrees, ProbeInv
  <2> QED BY <2>3, <2>4 DEF BreakerInv
<1>8. CASE UNCHANGED clientVars
  <2>1. UNCHANGED <<breaker, probed>> /\ up' \in BOOLEAN
    BY <1>1, <1>8 DEF clientVars
  <2> QED BY <2>1, BreakerStays
<1>9. \/ \E c \in Caller : Enter(c) \/ Depart(c) \/ Retry(c)
      \/ \E c \in Caller : EnterHalfOpen(c)
      \/ \E c \in Caller : TransportError(c)
      \/ \E c \in Caller : Busy(c) \/ Settled(c)
      \/ Outage \/ ClientTick \/ UNCHANGED clientVars
  BY DEF ClientNext, Resume
<1> QED BY <1>2, <1>3, <1>4, <1>5, <1>6, <1>7, <1>8, <1>9

LEMMA BreakerHolds == ClientSpec => []BreakerInv
  BY BreakerInit, BreakerNext, PTL DEF ClientSpec

\* The circuit is open exactly while the last Threshold requests all failed, and closed it
\* is back at its first wait, in whatever order the calls that are out are answered
\* (http.py:251-272).
THEOREM BreakerNeverDisagrees == ClientSpec => []BreakerAgrees
<1>1. BreakerInv => BreakerAgrees
  BY DEF BreakerInv
<1> QED BY <1>1, BreakerHolds, PTL

\* Unless the venue answered in between, every probe has waited twice as long as the one
\* before, up to the longest wait (http.py:55-65).
THEOREM ProbesAlwaysBackOff == ClientSpec => ProbesBackOff
<1> DEFINE Step == ~probing /\ probing' /\ probed # 0 => probed' = Least(probed * 2, CooldownMax)
<1>1. BreakerInv /\ [ClientNext]_clientVars => [Step]_clientVars
  <2> SUFFICES ASSUME BreakerInv, [ClientNext]_clientVars, ~probing, probing', probed # 0
               PROVE  probed' = Least(probed * 2, CooldownMax)
    OBVIOUS
  <2>1. cooldown = Least(probed * 2, CooldownMax)
    BY DEF BreakerInv, ProbeInv
  <2>2. ASSUME probing' = probing \/ ~ probing' PROVE FALSE
    BY <2>2
  <2>3. \/ \E c \in Caller : EnterHalfOpen(c)
        \/ UNCHANGED breaker \/ Refused \/ Answered \/ UNCHANGED probing
    BY DEF ClientNext, Resume, Enter, Depart, Retry, TransportError, Busy, Settled, Outage,
           ClientTick, clientVars
  <2>4. PICK c \in Caller : EnterHalfOpen(c)
    BY <2>2, <2>3 DEF breaker, Refused, Answered
  <2>5. probed' = cooldown
    BY <2>4 DEF EnterHalfOpen
  <2> QED BY <2>1, <2>5
<1> HIDE DEF Step
<1>2. ClientSpec => [][Step]_clientVars
  BY <1>1, BreakerHolds, PTL DEF ClientSpec
<1> QED BY <1>2 DEF Step, ProbesBackOff

-----------------------------------------------------------------------------
(* The client's calls and its limiter.                                     *)

\* A call that sleeps has an attempt left.
CallInv ==
  /\ call \in [Caller -> Call]
  /\ \A c \in Caller : call[c].pc = "sleep" => call[c].attempt < MaxAttempts

\* Only whoever waits for the lock is in line, once.  The gap is counted from the last
\* request; the holder of the lock waits for it, and whoever comes after waits a whole
\* interval more.
LineInv ==
  /\ line \in Seq(Caller)
  /\ \A c \in Caller : call[c].pc = "line" <=> \E i \in DOMAIN line : line[i] = c
  /\ \A i, j \in DOMAIN line : line[i] = line[j] => i = j

GapInv ==
  /\ gap \in 0 .. Interval /\ sinceSent \in 0 .. Interval
  /\ gap + sinceSent >= Interval
  /\ line # <<>> => call[line[1]].wait + sinceSent >= Interval
  /\ \A i \in DOMAIN line : i > 1 => call[line[i]].wait = Interval

LimiterInv == CallInv /\ LineInv /\ GapInv

LEMMA LimiterInit == ClientInit => LimiterInv
<1> SUFFICES ASSUME ClientInit PROVE LimiterInv
  OBVIOUS
<1>1. NoCall \in Call /\ NoCall.pc = "idle"
  BY ClientNumbers DEF NoCall, Call
<1>2. CallInv
  BY <1>1 DEF ClientInit, CallInv
<1>3. LineInv
  BY <1>1 DEF ClientInit, LineInv
<1>4. GapInv
  BY ClientNumbers DEF ClientInit, GapInv
<1> QED BY <1>2, <1>3, <1>4 DEF LimiterInv

\* Somebody new in line.
LEMMA JoinKeeps ==
  ASSUME LimiterInv, NEW c \in Caller, call[c].pc # "line", NEW asked \in Call,
         Join(c, asked), gap' = gap, sinceSent' = sinceSent
  PROVE  LimiterInv'
<1> DEFINE n == Len(line)
           w == IF line = <<>> THEN gap ELSE Interval
           new == [asked EXCEPT !.pc = "line", !.wait = w]
<1>1. /\ line \in Seq(Caller) /\ n \in Nat /\ DOMAIN line = 1 .. n
      /\ call \in [Caller -> Call] /\ gap \in 0 .. Interval
  BY DEF LimiterInv, CallInv, LineInv, GapInv
<1>2. new \in Call /\ new.pc = "line" /\ new.wait = w
  <2>1. w \in 0 .. Interval + BackoffMax
    BY <1>1, ClientNumbers
  <2> HIDE DEF w
  <2> QED BY <2>1 DEF Call
<1>3. line' = Append(line, c) /\ call' = [call EXCEPT ![c] = new]
  BY DEF Join
<1>4. /\ line' \in Seq(Caller) /\ DOMAIN line' = 1 .. n + 1 /\ line'[n + 1] = c
      /\ \A i \in 1 .. n : line'[i] = line[i]
  BY <1>1, <1>3
<1> HIDE DEF n, new
<1>5. /\ call' \in [Caller -> Call] /\ call'[c] = new
      /\ \A d \in Caller \ {c} : call'[d] = call[d]
  BY <1>1, <1>2, <1>3
<1>6. \A i \in 1 .. n : line[i] \in Caller \ {c}
  BY <1>1 DEF LimiterInv, LineInv
<1>7. CallInv'
  BY <1>2, <1>5 DEF LimiterInv, CallInv
<1>8. LineInv'
  <2>1. ASSUME NEW d \in Caller
        PROVE  call'[d].pc = "line" <=> \E i \in 1 .. n + 1 : line'[i] = d
    <3>1. CASE d = c
      BY <1>1, <1>2, <1>4, <1>5, <3>1
    <3>2. CASE d # c
      <4>1. call[d].pc = "line" <=> \E i \in 1 .. n : line[i] = d
        BY <1>1 DEF LimiterInv, LineInv
      <4>2. (\E i \in 1 .. n : line[i] = d) <=> \E i \in 1 .. n + 1 : line'[i] = d
        BY <1>1, <1>4, <3>2
      <4> QED BY <1>5, <3>2, <4>1, <4>2
    <3> QED BY <3>1, <3>2
  <2>2. ASSUME NEW i \in 1 .. n + 1, NEW j \in 1 .. n + 1, line'[i] = line'[j] PROVE i = j
    <3>1. CASE i \in 1 .. n /\ j \in 1 .. n
      BY SMTT(20), <1>1, <1>4, <2>2, <3>1 DEF LimiterInv, LineInv
    <3>2. CASE i = n + 1 /\ j = n + 1
      BY <3>2
    <3>3. CASE (i = n + 1 /\ j \in 1 .. n) \/ (i \in 1 .. n /\ j = n + 1)
      BY <1>4, <1>6, <2>2, <3>3
    <3> QED BY <1>1, <3>1, <3>2, <3>3
  <2> QED BY <1>4, <2>1, <2>2 DEF LineInv
<1>9. GapInv'
  <2>1. CASE line = <<>>
    <3>1. n = 0
      BY <2>1 DEF n
    <3>2. line'[1] = c /\ call'[c].wait = gap
      BY <1>2, <1>4, <1>5, <2>1, <3>1
    <3> QED BY <1>4, <3>1, <3>2 DEF LimiterInv, GapInv
  <2>2. CASE line # <<>>
    <3>1. n >= 1 /\ line'[1] = line[1] /\ line[1] \in Caller \ {c} /\ call'[c].wait = Interval
      BY <1>1, <1>2, <1>4, <1>5, <1>6, <2>2 DEF n
    <3>2. call'[line'[1]].wait + sinceSent' >= Interval
      BY <1>5, <2>2, <3>1 DEF LimiterInv, GapInv
    <3>3. \A i \in 1 .. n + 1 : i > 1 => call'[line'[i]].wait = Interval
      <4> SUFFICES ASSUME NEW i \in 1 .. n + 1, i > 1 PROVE call'[line'[i]].wait = Interval
        OBVIOUS
      <4>1. CASE i = n + 1
        BY <1>4, <3>1, <4>1
      <4>2. CASE i \in 1 .. n
        BY <1>1, <1>4, <1>5, <1>6, <4>2 DEF LimiterInv, GapInv
      <4> QED BY <1>1, <4>1, <4>2
    <3> QED BY <1>4, <3>2, <3>3 DEF LimiterInv, GapInv
  <2> QED BY <2>1, <2>2
<1> QED BY <1>7, <1>8, <1>9 DEF LimiterInv

\* The holder of the lock sends, and the next in line becomes the holder.
LEMMA DepartKeeps ==
  ASSUME LimiterInv, NEW c \in Caller, Depart(c) PROVE LimiterInv'
<1> DEFINE n == Len(line)
           new == [call[c] EXCEPT !.pc = "flight"]
<1>1. /\ line \in Seq(Caller) /\ line # <<>> /\ line[1] = c /\ n \in Nat /\ n >= 1
      /\ DOMAIN line = 1 .. n /\ call \in [Caller -> Call]
  BY DEF Depart, AtFront, LimiterInv, LineInv, CallInv
<1>2. /\ line' = Tail(line) /\ gap' = Interval /\ sinceSent' = 0
      /\ call' = [call EXCEPT ![c] = new]
  BY <1>1 DEF Depart
<1>3. new \in Call /\ new.pc = "flight"
  BY <1>1 DEF Call
<1>4. /\ line' \in Seq(Caller) /\ DOMAIN line' = 1 .. n - 1
      /\ \A i \in 1 .. n - 1 : line'[i] = line[i + 1]
  BY <1>1, <1>2
<1> HIDE DEF n, new
<1>5. /\ call' \in [Caller -> Call] /\ call'[c] = new
      /\ \A d \in Caller \ {c} : call'[d] = call[d]
  BY <1>1, <1>2, <1>3
<1>6. \A i \in 1 .. n - 1 : i + 1 \in 1 .. n /\ i + 1 # 1 /\ line[i + 1] \in Caller \ {c}
  BY <1>1 DEF LimiterInv, LineInv
<1>7. CallInv'
  BY <1>3, <1>5 DEF LimiterInv, CallInv
<1>8. LineInv'
  <2>1. ASSUME NEW d \in Caller
        PROVE  call'[d].pc = "line" <=> \E i \in 1 .. n - 1 : line'[i] = d
    <3>1. CASE d = c
      BY <1>3, <1>4, <1>5, <1>6, <3>1
    <3>2. CASE d # c
      <4>1. call[d].pc = "line" <=> \E i \in 1 .. n : line[i] = d
        BY <1>1 DEF LimiterInv, LineInv
      <4>2. ASSUME NEW i \in 1 .. n, line[i] = d PROVE \E j \in 1 .. n - 1 : line'[j] = d
        <5>1. i # 1 /\ i - 1 \in 1 .. n - 1 /\ (i - 1) + 1 = i
          BY <1>1, <3>2, <4>2
        <5>2. line'[i - 1] = line[(i - 1) + 1]
          BY <1>4, <5>1
        <5> QED BY <4>2, <5>1, <5>2
      <4>3. ASSUME NEW j \in 1 .. n - 1, line'[j] = d PROVE \E i \in 1 .. n : line[i] = d
        BY <1>4, <1>6, <4>3
      <4> QED BY <1>5, <3>2, <4>1, <4>2, <4>3
    <3> QED BY <3>1, <3>2
  <2>2. ASSUME NEW i \in 1 .. n - 1, NEW j \in 1 .. n - 1, line'[i] = line'[j] PROVE i = j
    <3>1. line[i + 1] = line[j + 1] /\ i + 1 \in 1 .. n /\ j + 1 \in 1 .. n
      BY <1>4, <1>6, <2>2
    <3>2. i + 1 = j + 1
      BY <1>1, <3>1 DEF LimiterInv, LineInv
    <3> QED BY <1>1, <3>2
  <2> QED BY <1>4, <2>1, <2>2 DEF LineInv
<1>9. GapInv'
  <2>1. \A i \in 1 .. n - 1 : call'[line'[i]].wait = Interval
    <3> SUFFICES ASSUME NEW i \in 1 .. n - 1 PROVE call'[line'[i]].wait = Interval
      OBVIOUS
    <3>1. i + 1 \in DOMAIN line /\ i + 1 > 1
      BY <1>1, <1>6
    <3>2. call[line[i + 1]].wait = Interval
      BY <3>1 DEF LimiterInv, GapInv
    <3> QED BY <1>4, <1>5, <1>6, <3>2
  <2>2. line' # <<>> => 1 \in 1 .. n - 1
    BY <1>1, <1>4
  <2>3. call'[line'[1]].wait = Interval \/ line' = <<>>
    BY <2>1, <2>2
  <2>4. gap' \in 0 .. Interval /\ sinceSent' \in 0 .. Interval /\ gap' + sinceSent' >= Interval
    BY <1>2, ClientNumbers
  <2>5. line' # <<>> => call'[line'[1]].wait + sinceSent' >= Interval
    BY <1>2, <2>3, ClientNumbers
  <2> QED BY <1>4, <2>1, <2>4, <2>5 DEF GapInv
<1> QED BY <1>7, <1>8, <1>9 DEF LimiterInv

\* A call outside the line changes and stays outside.
LEMMA OutsideKeeps ==
  ASSUME LimiterInv, NEW c \in Caller, call[c].pc # "line", NEW new \in Call,
         new.pc # "line", new.pc = "sleep" => new.attempt < MaxAttempts,
         call' = [call EXCEPT ![c] = new], line' = line, gap' = gap, sinceSent' = sinceSent
  PROVE  LimiterInv'
<1>1. /\ call \in [Caller -> Call] /\ line \in Seq(Caller)
      /\ \A i \in DOMAIN line : line[i] \in Caller /\ call[line[i]].pc = "line"
  BY DEF LimiterInv, CallInv, LineInv
<1>2. /\ call' \in [Caller -> Call] /\ call'[c] = new
      /\ \A d \in Caller \ {c} : call'[d] = call[d]
  BY <1>1
<1>3. \A i \in DOMAIN line : call'[line[i]] = call[line[i]]
  BY <1>1, <1>2
<1>4. CallInv'
  BY <1>2 DEF LimiterInv, CallInv
<1>5. LineInv'
  BY <1>1, <1>2 DEF LimiterInv, LineInv
<1>6. line # <<>> => 1 \in DOMAIN line
  BY <1>1
<1>7. GapInv'
  BY <1>3, <1>6 DEF LimiterInv, GapInv
<1> QED BY <1>4, <1>5, <1>7 DEF LimiterInv

\* The backoff ladder: the attempts are counted, and the next sleep is bounded.
LEMMA SleepOrEndFacts ==
  ASSUME LimiterInv, NEW c \in Caller, call[c].pc = "flight", SleepOrEnd(c),
         line' = line, gap' = gap, sinceSent' = sinceSent
  PROVE  LimiterInv'
<1> DEFINE old == call[c]
           asleep == [old EXCEPT !.pc = "sleep", !.wait = old.delay,
                                 !.delay = Least(@ * 2, BackoffMax)]
           new == IF old.attempt = MaxAttempts THEN NoCall ELSE asleep
<1>1. /\ old \in Call /\ old.attempt \in 0 .. MaxAttempts /\ old.delay \in 0 .. BackoffMax
      /\ old.pc # "line"
  BY DEF LimiterInv, CallInv, Call
<1>2. call' = [call EXCEPT ![c] = new]
  BY DEF SleepOrEnd
<1> HIDE DEF old
<1>3. asleep \in Call /\ asleep.pc = "sleep" /\ asleep.attempt = old.attempt
  <2>1. Least(old.delay * 2, BackoffMax) \in 0 .. BackoffMax
    BY <1>1, ClientNumbers DEF Least
  <2>2. old.delay \in 0 .. Interval + BackoffMax
    BY <1>1, ClientNumbers
  <2> QED BY <1>1, <2>1, <2>2 DEF Call
<1> HIDE DEF asleep
<1>4. NoCall \in Call /\ NoCall.pc = "idle"
  BY ClientNumbers DEF NoCall, Call
<1>5. new \in Call /\ new.pc # "line" /\ (new.pc = "sleep" => new.attempt < MaxAttempts)
  BY <1>1, <1>3, <1>4, ClientNumbers
<1> HIDE DEF new
<1>6. call[c].pc # "line"
  OBVIOUS
<1> QED BY <1>2, <1>5, <1>6, OutsideKeeps

\* Time passes for the holder of the lock, and for nobody else in line.
LEMMA ClientTickKeeps ==
  ASSUME LimiterInv, ClientTick PROVE LimiterInv'
<1>1. /\ call \in [Caller -> Call] /\ line \in Seq(Caller)
      /\ gap \in 0 .. Interval /\ sinceSent \in 0 .. Interval
      /\ \A i \in DOMAIN line : line[i] \in Caller /\ call[line[i]].pc = "line"
  BY DEF LimiterInv, CallInv, LineInv, GapInv
<1>2. /\ line' = line /\ gap' = Less(gap) /\ sinceSent' = Least(sinceSent + 1, Interval)
      /\ call' = [c \in Caller |-> IF Sleeping(c) THEN [call[c] EXCEPT !.wait = Less(@)]
                                                  ELSE call[c]]
  BY DEF ClientTick
<1>3. \A c \in Caller :
        /\ call[c].wait \in 0 .. Interval + BackoffMax
        /\ call'[c] = IF Sleeping(c) THEN [call[c] EXCEPT !.wait = Less(call[c].wait)]
                                     ELSE call[c]
  BY <1>1, <1>2 DEF Call
<1>4. \A c \in Caller : /\ call'[c] \in Call /\ call'[c].pc = call[c].pc
                        /\ call'[c].attempt = call[c].attempt
                        /\ call'[c].wait = IF Sleeping(c) THEN Less(call[c].wait)
                                                          ELSE call[c].wait
  <2> SUFFICES ASSUME NEW c \in Caller
               PROVE  /\ call'[c] \in Call /\ call'[c].pc = call[c].pc
                      /\ call'[c].attempt = call[c].attempt
                      /\ call'[c].wait = IF Sleeping(c) THEN Less(call[c].wait)
                                                        ELSE call[c].wait
    OBVIOUS
  <2>1. Less(call[c].wait) \in 0 .. Interval + BackoffMax
    <3>1. \A w \in 0 .. Interval + BackoffMax : Less(w) \in 0 .. Interval + BackoffMax
      BY ClientNumbers DEF Less
    <3>2. call[c].wait \in 0 .. Interval + BackoffMax
      BY <1>3
    <3> HIDE DEF Less
    <3> QED BY <3>1, <3>2
  <2>2. call[c] \in Call
    BY <1>1
  <2> HIDE DEF Sleeping, Less
  <2> QED BY <1>3, <2>1, <2>2 DEF Call
<1>5. CallInv'
  <2>1. call' \in [Caller -> Call]
    BY <1>2, <1>4
  <2> QED BY <1>4, <2>1 DEF LimiterInv, CallInv
<1>6. LineInv'
  BY <1>2, <1>4 DEF LimiterInv, LineInv
<1>7. GapInv'
  <2>1. /\ gap' \in 0 .. Interval /\ sinceSent' \in 0 .. Interval
        /\ gap' + sinceSent' >= Interval
    <3>1. gap + sinceSent >= Interval
      BY DEF LimiterInv, GapInv
    <3>2. Interval \in Nat
      BY ClientNumbers
    <3>3. \A g, s \in 0 .. Interval : g + s >= Interval =>
            /\ Less(g) \in 0 .. Interval /\ Least(s + 1, Interval) \in 0 .. Interval
            /\ Less(g) + Least(s + 1, Interval) >= Interval
      BY ONLY <3>2 DEF Less, Least
    <3> HIDE DEF Less, Least
    <3> QED BY <1>1, <1>2, <3>1, <3>3
  <2>2. ASSUME line # <<>> PROVE call'[line[1]].wait + sinceSent' >= Interval
    <3>1. line[1] \in Caller
      BY <1>1, <2>2
    <3>2. PICK w \in Nat : w = call[line[1]].wait
      <4>1. call[line[1]].wait \in 0 .. Interval + BackoffMax
        BY <1>3, <3>1
      <4> QED BY <4>1, ClientNumbers
    <3>3. call'[line[1]].wait \in {w, Less(w)}
      BY <1>4, <3>1, <3>2
    <3>4. w + sinceSent >= Interval
      BY <2>2, <3>2 DEF LimiterInv, GapInv
    <3>5. \A v \in {w, Less(w)} : v + sinceSent' >= Interval
      <4>1. sinceSent' = IF sinceSent + 1 <= Interval THEN sinceSent + 1 ELSE Interval
        BY <1>2 DEF Least
      <4>2. Less(w) = IF w > 0 THEN w - 1 ELSE 0
        BY DEF Less
      <4>3. sinceSent \in Int /\ w \in Int /\ w >= 0 /\ Interval \in Int
        BY <1>1, <3>2, ClientNumbers
      <4> QED BY <3>4, <4>1, <4>2, <4>3
    <3> QED BY <3>3, <3>5
  <2>3. ASSUME NEW i \in DOMAIN line, i > 1 PROVE call'[line[i]].wait = Interval
    <3>1. line # <<>> /\ 1 \in DOMAIN line /\ line[i] # line[1]
      BY <1>1, <2>3 DEF LimiterInv, LineInv
    <3>2. ~ Sleeping(line[i])
      BY <1>1, <3>1 DEF Sleeping, AtFront
    <3>3. call[line[i]].wait = Interval
      BY <2>3 DEF LimiterInv, GapInv
    <3> QED BY <1>1, <1>4, <3>2, <3>3
  <2> QED BY <1>2, <2>1, <2>2, <2>3 DEF GapInv
<1> QED BY <1>5, <1>6, <1>7 DEF LimiterInv

LEMMA LimiterNext == LimiterInv /\ [ClientNext]_clientVars => LimiterInv'
<1> SUFFICES ASSUME LimiterInv, [ClientNext]_clientVars PROVE LimiterInv'
  OBVIOUS
<1>1. NoCall \in Call /\ NoCall.pc = "idle"
  BY ClientNumbers DEF NoCall, Call
<1>2. FirstAttempt \in Call
  <2>1. 1 \in 0 .. MaxAttempts /\ Backoff \in 0 .. BackoffMax
    BY ClientNumbers
  <2> QED BY <1>1, <2>1 DEF FirstAttempt, Call
<1>3. ASSUME NEW c \in Caller, Enter(c) \/ EnterHalfOpen(c) PROVE LimiterInv'
  <2>1. /\ call[c].pc # "line" /\ Join(c, FirstAttempt) /\ gap' = gap
        /\ sinceSent' = sinceSent
    BY <1>3 DEF Enter, EnterHalfOpen
  <2> QED BY <1>2, <2>1, JoinKeeps
<1>4. ASSUME NEW c \in Caller, Retry(c) PROVE LimiterInv'
  <2> DEFINE again == [call[c] EXCEPT !.attempt = @ + 1]
  <2>1. call[c] \in Call /\ call[c].attempt < MaxAttempts
    BY <1>4 DEF Retry, LimiterInv, CallInv
  <2>2. again \in Call
    <3>1. call[c].attempt + 1 \in 0 .. MaxAttempts
      BY <2>1, ClientNumbers DEF Call
    <3> QED BY <2>1, <3>1 DEF Call
  <2>3. /\ call[c].pc # "line" /\ Join(c, again) /\ gap' = gap /\ sinceSent' = sinceSent
    BY <1>4 DEF Retry
  <2>4. PICK asked \in Call : asked = again
    BY <2>2
  <2>5. Join(c, asked)
    BY <2>3, <2>4
  <2> QED BY <2>3, <2>5, JoinKeeps
<1>5. CASE \E c \in Caller : Depart(c)
  BY <1>5, DepartKeeps
<1>6. ASSUME NEW c \in Caller, TransportError(c) \/ Busy(c) PROVE LimiterInv'
  <2>1. /\ call[c].pc = "flight" /\ SleepOrEnd(c)
        /\ line' = line /\ gap' = gap /\ sinceSent' = sinceSent
    BY <1>6 DEF TransportError, Busy
  <2> QED BY <2>1, SleepOrEndFacts
<1>7. ASSUME NEW c \in Caller, Settled(c) PROVE LimiterInv'
  <2>1. /\ call[c].pc # "line" /\ call' = [call EXCEPT ![c] = NoCall]
        /\ line' = line /\ gap' = gap /\ sinceSent' = sinceSent
    BY <1>7 DEF Settled
  <2>2. NoCall.pc # "line" /\ (NoCall.pc = "sleep" => NoCall.attempt < MaxAttempts)
    BY <1>1
  <2> QED BY <1>1, <2>1, <2>2, OutsideKeeps
<1>8. CASE Outage \/ UNCHANGED clientVars
  BY <1>8 DEF Outage, clientVars, LimiterInv, CallInv, LineInv, GapInv
<1>9. CASE ClientTick
  BY <1>9, ClientTickKeeps
<1>10. \/ \E c \in Caller : Enter(c) \/ EnterHalfOpen(c)
       \/ \E c \in Caller : Retry(c)
       \/ \E c \in Caller : Depart(c)
       \/ \E c \in Caller : TransportError(c) \/ Busy(c)
       \/ \E c \in Caller : Settled(c)
       \/ Outage \/ UNCHANGED clientVars \/ ClientTick
  BY DEF ClientNext, Resume
<1> QED BY <1>3, <1>4, <1>5, <1>6, <1>7, <1>8, <1>9, <1>10

LEMMA LimiterHolds == ClientSpec => []LimiterInv
  BY LimiterInit, LimiterNext, PTL DEF ClientSpec

\* Every variable of the client has the shape the code gives it (http.py:121-164).
THEOREM ClientTypeCorrect == ClientSpec => []ClientTypeOK
<1>1. BreakerInv /\ LimiterInv => ClientTypeOK
  BY DEF BreakerInv, BreakerType, BreakerFlags, LimiterInv, CallInv, LineInv, GapInv,
         ClientTypeOK
<1> QED BY <1>1, BreakerHolds, LimiterHolds, PTL

\* Two requests are an interval apart, however many coroutines call, retry and wake up at
\* once (http.py:79-83).
THEOREM RequestsStaySpaced == ClientSpec => Spaced
<1> DEFINE Step == \A c \in Caller : Departs(c) => sinceSent >= Interval
<1>1. LimiterInv /\ [ClientNext]_clientVars => [Step]_clientVars
  <2> SUFFICES ASSUME LimiterInv, [ClientNext]_clientVars, NEW c \in Caller, Departs(c)
               PROVE  sinceSent >= Interval
    OBVIOUS
  <2>1. call[c].pc = "line" /\ call'[c].pc = "flight" /\ call \in [Caller -> Call]
    BY DEF Departs, LimiterInv, CallInv
  <2>2. \A d \in Caller : Join(d, FirstAttempt) \/ Join(d, [call[d] EXCEPT !.attempt = @ + 1])
                            => call'[c].pc # "flight"
    BY ZenonT(30), <2>1 DEF Join, FirstAttempt, NoCall, LimiterInv, CallInv, Call
  <2>3. \A d \in Caller : SleepOrEnd(d) => call'[c].pc # "flight"
    BY <2>1 DEF SleepOrEnd, NoCall, LimiterInv, CallInv, Call
  <2>4. \A d \in Caller : Settled(d) => call'[c].pc # "flight"
    BY <2>1 DEF Settled, NoCall
  <2>5. ClientTick => call'[c].pc # "flight"
    BY <2>1 DEF ClientTick, LimiterInv, CallInv, Call
  <2>6. call' # call
    BY <2>1
  <2>7. PICK d \in Caller : Depart(d)
    <3>1. \/ \E d \in Caller : \/ Join(d, FirstAttempt)
                               \/ Join(d, [call[d] EXCEPT !.attempt = @ + 1])
                               \/ SleepOrEnd(d) \/ Settled(d) \/ Depart(d)
          \/ ClientTick \/ call' = call
      BY DEF ClientNext, Resume, Enter, EnterHalfOpen, Retry, TransportError, Busy, Outage,
             clientVars
    <3> QED BY <2>1, <2>2, <2>3, <2>4, <2>5, <2>6, <3>1
  <2>8. d = c
    BY <2>1, <2>7 DEF Depart
  <2>9. line # <<>> /\ line[1] = c /\ call[c].wait = 0
    BY <2>7, <2>8 DEF Depart, AtFront, LimiterInv, LineInv
  <2>10. 0 + sinceSent >= Interval /\ sinceSent \in 0 .. Interval
    BY <2>9 DEF LimiterInv, GapInv
  <2> QED BY <2>10, ClientNumbers
<1> HIDE DEF Step
<1>2. ClientSpec => [][Step]_clientVars
  BY <1>1, LimiterHolds, PTL DEF ClientSpec
<1> QED BY <1>2 DEF Step, Spaced

=============================================================================
