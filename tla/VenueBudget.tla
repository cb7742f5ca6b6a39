----------------------------- MODULE VenueBudget -----------------------------
(***************************************************************************)
(* The venue's request budget (venues/budget.py), shared by the processes  *)
(* that spend it through cli._venue_budget: each leases a share in the     *)
(* database before its first request, and gives it back when it stops.     *)
(*                                                                         *)
(* A consumer's lease is claimed in one transaction: stale leases are      *)
(* deleted, the live ones added up, its own inserted.  Its statements are  *)
(* separate steps, under PostgreSQL's READ COMMITTED: a statement sees what *)
(* was committed when it began, and only rows are locked.  Time passes in  *)
(* ticks.                                                                  *)
(***************************************************************************)
EXTENDS Totals

CONSTANTS
  Consumer,     (* processes that spend the venue's budget                  *)
  Lease,        (* lease ids: the database never gives one out twice        *)
  Claim,        (* requests per second each consumer leases                 *)
  Sends,        (* requests per second its client is built to send          *)
  Ceiling,      (* budget.DEFAULT_CEILING                                   *)
  Ttl,          (* budget.LEASE_TTL, in ticks                               *)
  MaxCrashes    (* bound on processes that die without releasing            *)

ASSUME BudgetConstants ==
  /\ IsFiniteSet(Consumer) /\ IsFiniteSet(Lease)
  /\ Claim \in [Consumer -> Nat \ {0}] /\ Sends \in [Consumer -> Nat]
  /\ Ceiling \in Nat \ {0}
  /\ Ttl \in Nat
  /\ MaxCrashes \in Nat

NoLease == "no lease"

VARIABLES
  pc,        (* "off", "open" (stale leases deleted), "inserted", "running" *)
  handle,    (* the lease each consumer was handed, or NoLease              *)
  doomed,    (* leases a transaction has deleted and not yet committed      *)
  table,     (* the committed rows of venue_lease                           *)
  rate,      (* what each id given out claims, 0 if it has not been          *)
  age,       (* ticks since the row's heartbeat_ts, saturated; of no row: past Ttl *)
  crashes,
  beside     (* history: of each lease, those claimed while its claim was in its transaction *)

vars == <<pc, handle, doomed, table, rate, age, crashes, beside>>

Init ==
  /\ pc = [c \in Consumer |-> "off"]
  /\ handle = [c \in Consumer |-> NoLease]
  /\ doomed = [c \in Consumer |-> {}]
  /\ table = {}
  /\ rate = [l \in Lease |-> 0]
  /\ age = [l \in Lease |-> Ttl + 1]
  /\ crashes = 0
  /\ beside = [l \in Lease |-> {}]

InTransaction(c) == pc[c] \in {"open", "inserted"}
Claims == {handle[c] : c \in {d \in Consumer : InTransaction(d)}}

NothingLocked(c, l) == FALSE   \* mutant: the deleted rows are not locked

\* A row another transaction has deleted is locked until that one ends.
Locked(c, l) == \E d \in Consumer \ {c} : l \in doomed[d]

NothingStale == {}   \* mutant: leases do not expire
Stale == {l \in table : age[l] > Ttl}

Claimed(leases) == Total([l \in leases |-> rate[l]])

\* acquire_lease until budget._expire_stale has run.  Its clock is read once, here: the
\* lease it may insert is as old as the claim.
ExpireStale(c) ==
  /\ pc[c] = "off"
  /\ \A l \in Stale : ~Locked(c, l)
  /\ \E l \in Lease :
       /\ rate[l] = 0
       /\ handle' = [handle EXCEPT ![c] = l]
       /\ rate' = [rate EXCEPT ![l] = Claim[c]]
       /\ age' = [age EXCEPT ![l] = 0]
       /\ beside' = [k \in Lease |-> IF k = l THEN Claims
                                     ELSE IF k \in Claims THEN beside[k] \cup {l}
                                     ELSE beside[k]]
  /\ pc' = [pc EXCEPT ![c] = "open"]
  /\ doomed' = [doomed EXCEPT ![c] = Stale]
  /\ UNCHANGED <<table, crashes>>

\* budget.active_leases, as of that clock.
Active(c) == table \ doomed[c]

\* Mutant: the share asked for is left out of the comparison.
FitsBefore(c) == Claimed(Active(c)) <= Ceiling

Fits(c) == Claimed(Active(c)) + Claim[c] <= Ceiling

\* The live total is read and the row inserted, unseen by others until it is committed.
Acquire(c) ==
  /\ pc[c] = "open"
  /\ Fits(c)
  /\ pc' = [pc EXCEPT ![c] = "inserted"]
  /\ UNCHANGED <<handle, doomed, table, rate, age, crashes, beside>>

\* The transaction of c is rolled back, its row with it.
RollBack(c) ==
  /\ pc' = [pc EXCEPT ![c] = "off"]
  /\ handle' = [handle EXCEPT ![c] = NoLease]
  /\ doomed' = [doomed EXCEPT ![c] = {}]

\* BudgetExceeded: the command exits, and has taken no id.
Refuse(c) ==
  /\ pc[c] = "open"
  /\ ~Fits(c)
  /\ RollBack(c)
  /\ rate' = [rate EXCEPT ![handle[c]] = 0]
  /\ age' = [age EXCEPT ![handle[c]] = Ttl + 1]
  /\ beside' = [k \in Lease |-> IF k = handle[c] THEN {} ELSE beside[k] \ {handle[c]}]
  /\ UNCHANGED <<table, crashes>>

\* The session's commit: the command may make its first request.
Start(c) ==
  /\ pc[c] = "inserted"
  /\ table' = (table \ doomed[c]) \cup {handle[c]}
  /\ pc' = [pc EXCEPT ![c] = "running"]
  /\ doomed' = [doomed EXCEPT ![c] = {}]
  /\ UNCHANGED <<handle, rate, age, crashes, beside>>

\* budget.heartbeat: FALSE, and nothing refreshed, if the lease is gone.  Nothing under
\* src/ calls it, so it comes late or never as well.
Heartbeat(c) ==
  /\ pc[c] = "running"
  /\ ~Locked(c, handle[c])
  /\ age' = IF handle[c] \in table THEN [age EXCEPT ![handle[c]] = 0] ELSE age
  /\ UNCHANGED <<pc, handle, doomed, table, rate, crashes, beside>>

\* budget.release_lease, when the command ends.
Release(c) ==
  /\ pc[c] = "running"
  /\ ~Locked(c, handle[c])
  /\ table' = table \ {handle[c]}
  /\ pc' = [pc EXCEPT ![c] = "off"]
  /\ handle' = [handle EXCEPT ![c] = NoLease]
  /\ age' = [age EXCEPT ![handle[c]] = Ttl + 1]
  /\ UNCHANGED <<doomed, rate, crashes, beside>>

\* The process dies: an open transaction is rolled back, a lease it held stays.
Crash(c) ==
  /\ crashes < MaxCrashes
  /\ pc[c] # "off"
  /\ RollBack(c)
  /\ crashes' = crashes + 1
  /\ UNCHANGED <<table, rate, age, beside>>

\* A transaction is shorter than a lease.
Tick ==
  /\ \A c \in Consumer : InTransaction(c) => age[handle[c]] < Ttl
  /\ \E l \in Lease : age[l] <= Ttl
  /\ age' = [l \in Lease |-> IF age[l] <= Ttl THEN age[l] + 1 ELSE age[l]]
  /\ UNCHANGED <<pc, handle, doomed, table, rate, crashes, beside>>

Next ==
  \/ \E c \in Consumer :
       ExpireStale(c) \/ Acquire(c) \/ Refuse(c) \/ Start(c) \/ Heartbeat(c) \/ Release(c)
         \/ Crash(c)
  \/ Tick

Spec == Init /\ [][Next]_vars

\* The database answers, and time passes however often a transaction opens (which holds
\* up a tick in the model only).
Fairness ==
  /\ \A c \in Consumer : WF_vars(Acquire(c) \/ Refuse(c) \/ Start(c))
  /\ SF_vars(Tick)

LiveSpec == Spec /\ Fairness

-----------------------------------------------------------------------------

\* Every variable has the shape the code gives it.
TypeOK ==
  /\ pc \in [Consumer -> {"off", "open", "inserted", "running"}]
  /\ handle \in [Consumer -> Lease \cup {NoLease}]
  /\ doomed \in [Consumer -> SUBSET Lease]
  /\ table \subseteq Lease
  /\ rate \in [Lease -> Nat]
  /\ age \in [Lease -> 0 .. Ttl + 1]
  /\ crashes \in Nat
  /\ beside \in [Lease -> SUBSET Lease]

Apart(leases) == \A l, k \in leases : l \notin beside[k]

\* Leases granted one after another fit under the ceiling together, through crashes,
\* refusals, expiry, late heartbeats and releases in any order, and whatever other claims
\* met: the row a claim left out of its total as stale is gone when its own is there
\* (budget.py:16-20).
LeasesFit == \A leases \in SUBSET table : Apart(leases) => Claimed(leases) <= Ceiling

\* Not so of the rows together: two claims in their transactions at once do not see each
\* other (LeaseRace.cfg).
RowsWithinCeiling == Claimed(table) <= Ceiling

\* Nor of what is sent, without any two claims meeting: a client is not built to the share
\* its command leased, and a lease nobody refreshes is given away (Overspend.cfg).
SentWithinCeiling ==
  (\A l \in Lease : beside[l] = {}) =>
    Total([c \in Consumer |-> IF pc[c] = "running" THEN Sends[c] ELSE 0]) <= Ceiling

\* A share is taken back from nobody who runs on a live lease, not even by a claim that
\* found the lease stale and commits after a late heartbeat, nor by a release of another
\* consumer (budget.py:22-24).
LiveShareStays ==
  [][ \A c \in Consumer :
        pc[c] = "running" /\ pc'[c] = "running" /\ handle[c] \in table \ Stale =>
          handle[c] \in table' ]_vars

\* A consumer that died without releasing does not lock the venue out: its lease stops
\* counting (budget.py:22-28).
DeadShareReturns ==
  \A l \in Lease :
    l \in table /\ (\A c \in Consumer : handle[c] # l) ~> l \notin table \ Stale

=============================================================================
