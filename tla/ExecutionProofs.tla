--------------------------- MODULE ExecutionProofs ---------------------------
(* Theorems about Execution, for every value of its constants. *)
EXTENDS Execution, TotalsProofs, TLAPS

-----------------------------------------------------------------------------
(* The operators on rows keep a row a row.                                 *)

LEMMA ProductIsNat == ASSUME NEW m \in Nat, NEW n \in Nat PROVE m * n \in Nat
  OBVIOUS

LEMMA NotionalType == ASSUME NEW p \in Prices PROVE Notional(p) \in Nat
<1>1. p \in Nat /\ Quantity \in Nat /\ NumLegs \in Nat
  BY ExecutionConstants
<1>2. p * Quantity \in Nat
  BY <1>1, ProductIsNat
<1> QED BY <1>1, <1>2, ProductIsNat DEF Notional

LEMMA BlankLegType == BlankLeg \in LegRow
  BY ExecutionConstants DEF BlankLeg, LegRow, NoOutcome, Outcome

LEMMA NewRowType ==
  ASSUME NEW s \in OrderState \cup {NoRow}, NEW n \in Nat, NEW e \in Nat
  PROVE  NewRow(s, n, e) \in Row
  BY BlankLegType, ExecutionConstants DEF NewRow, Row

LEMMA WaitBounds == 0 \in 0 .. ApprovalTtl + 1
  BY ExecutionConstants

LEMMA TransitionType ==
  ASSUME NEW r \in Row, NEW s \in OrderState
  PROVE  Transition(r, s) \in Row
  BY WaitBounds DEF Transition, Row

LEMMA RecordBuyType ==
  ASSUME NEW r \in Row, NEW l \in Leg, NEW o \in Outcome,
         NEW f \in 0 .. Quantity, NEW c \in Nat
  PROVE  RecordBuy(r, l, o, f, c) \in Row
<1>1. r.leg \in [Leg -> LegRow] /\ r.spent \in Nat
  BY DEF Row
<1>2. [r.leg[l] EXCEPT !.buy = o, !.bought = f] \in LegRow
  BY <1>1 DEF LegRow
<1>3. r.spent + c \in Nat
  BY <1>1
<1> QED BY <1>1, <1>2, <1>3 DEF RecordBuy, Row

LEMMA RecordSellType ==
  ASSUME NEW r \in Row, NEW l \in Leg, NEW o \in Outcome,
         NEW f \in 0 .. Quantity, NEW c \in Nat
  PROVE  RecordSell(r, l, o, f, c) \in Row
<1>1. r.leg \in [Leg -> LegRow] /\ r.recovered \in Nat
  BY DEF Row
<1>2. [r.leg[l] EXCEPT !.sell = o, !.sold = f] \in LegRow
  BY <1>1 DEF LegRow
<1>3. r.recovered + c \in Nat
  BY <1>1
<1> QED BY <1>1, <1>2, <1>3 DEF RecordSell, Row

LEMMA OpenIntentType ==
  ASSUME NEW n \in Nat, NEW e \in Nat
  PROVE  OpenIntent(n, e) \in Row
  BY NewRowType DEF OpenIntent, OrderState

LEMMA ExpireStaleType ==
  ASSUME NEW rows \in [Intent -> Row]
  PROVE  ExpireStale(rows) \in [Intent -> Row]
<1>1. \A i \in Intent : Transition(rows[i], "EXPIRED") \in Row
  BY TransitionType DEF OrderState
<1> QED BY <1>1 DEF ExpireStale

LEMMA ConsiderType ==
  ASSUME NEW rows, NEW n \in Nat, NEW e \in Nat, NEW a
  PROVE  Consider(rows, n, e, a) \in Row
<1>1. {"RISK_APPROVED", "AWAITING_HUMAN", "RISK_REJECTED"} \subseteq OrderState
  BY DEF OrderState
<1>2. OpenIntent(n, e) \in Row
  BY OpenIntentType
<1>3. Transition(OpenIntent(n, e), "RISK_REJECTED") \in Row
  BY <1>1, <1>2, TransitionType
<1>4. Transition(OpenIntent(n, e), "RISK_APPROVED") \in Row
  BY <1>1, <1>2, TransitionType
<1>5. Transition(Transition(OpenIntent(n, e), "RISK_APPROVED"), "AWAITING_HUMAN") \in Row
  BY <1>1, <1>4, TransitionType
<1> QED BY <1>3, <1>5 DEF Consider

LEMMA OpenedType ==
  ASSUME NEW r \in Row, NEW n \in Nat, NEW e \in Nat
  PROVE  Opened(r, n, e) \in Row
<1>1. {"RISK_APPROVED", "SUBMITTING"} \subseteq OrderState
  BY DEF OrderState
<1>2. OpenIntent(n, e) \in Row
  BY OpenIntentType
<1>3. Transition(OpenIntent(n, e), "RISK_APPROVED") \in Row
  BY <1>1, <1>2, TransitionType
<1>4. Transition(Transition(OpenIntent(n, e), "RISK_APPROVED"), "SUBMITTING") \in Row
  BY <1>1, <1>3, TransitionType
<1>5. Transition(r, "SUBMITTING") \in Row
  BY <1>1, TransitionType
<1> QED BY <1>4, <1>5 DEF Opened

-----------------------------------------------------------------------------
(* Type correctness.                                                       *)

LEMMA LegFacts == 1 \in Leg /\ NumLegs \in Leg /\ Leg \subseteq Nat
  BY ExecutionConstants DEF Leg

LEMMA ZeroQuantity == 0 \in 0 .. Quantity /\ Quantity \in 0 .. Quantity
  BY ExecutionConstants

LEMMA PlaceType ==
  ASSUME TypeOK, NEW i \in Intent, NEW l \in Leg, Place(i, l)
  PROVE  order' \in [Intent -> [Leg -> VenueOrder]]
<1>1. "open" \in Status
  BY DEF Status
<1>2. order \in [Intent -> [Leg -> VenueOrder]]
  BY DEF TypeOK
<1>3. [order[i][l] EXCEPT !.buy = "open"] \in VenueOrder
  BY <1>1, <1>2 DEF VenueOrder
<1>4. [order EXCEPT ![i][l].buy = "open"] \in [Intent -> [Leg -> VenueOrder]]
  BY <1>2, <1>3
<1> QED BY <1>2, <1>4 DEF Place

LEMMA SellType ==
  ASSUME TypeOK, NEW i \in Intent, NEW l \in Leg, NEW q \in 0 .. Quantity, Sell(i, l, q)
  PROVE  order' \in [Intent -> [Leg -> VenueOrder]]
<1>1. "open" \in Status
  BY DEF Status
<1>2. order \in [Intent -> [Leg -> VenueOrder]]
  BY DEF TypeOK
<1>3. order[i][l] \in VenueOrder
  BY <1>2
<1>4. [order[i][l] EXCEPT !.sell = "open", !.sale = q] \in VenueOrder
  BY <1>1, <1>3 DEF VenueOrder
<1> QED BY <1>2, <1>4 DEF Sell

LEMMA SubmitType ==
  ASSUME TypeOK, NEW i \in Intent, NEW p \in Prices, NEW e \in Nat, Submit(i, p, e)
  PROVE  /\ row' \in [Intent -> Row]
         /\ run' \in [Intent -> Coroutine]
         /\ order' \in [Intent -> [Leg -> VenueOrder]]
<1>1. Opened(row[i], Notional(p), e) \in Row
  BY OpenedType, NotionalType DEF TypeOK
<1>2. row' \in [Intent -> Row]
  BY <1>1 DEF Submit, TypeOK
<1>3. p \in Nat
  BY ExecutionConstants
<1>4. [pc |-> "buy", leg |-> 1, price |-> p, got |-> NothingGot] \in Coroutine
  BY <1>3, LegFacts, ZeroQuantity DEF Coroutine, NothingGot
<1>5. run' \in [Intent -> Coroutine]
  BY <1>4 DEF Submit, TypeOK
<1>6. order' \in [Intent -> [Leg -> VenueOrder]]
  BY LegFacts, PlaceType DEF Submit
<1> QED BY <1>2, <1>5, <1>6

\* What the coroutine of an intent holds.
LEMMA RunFacts ==
  ASSUME TypeOK, NEW i \in Intent
  PROVE  /\ run[i] \in Coroutine
         /\ run[i].leg \in Leg /\ run[i].price \in Nat
         /\ run[i].got \in [Leg -> 0 .. Quantity]
         /\ row[i] \in Row
         /\ \A l \in Leg : /\ order[i][l] \in VenueOrder
                          /\ order[i][l].bought \in 0 .. Quantity
                          /\ order[i][l].sale \in 0 .. Quantity
                          /\ held[i][l] \in Int
<1>1. run[i] \in Coroutine /\ row[i] \in Row
  BY DEF TypeOK
<1>2. run[i].leg \in Leg /\ run[i].price \in Nat /\ run[i].got \in [Leg -> 0 .. Quantity]
  BY <1>1 DEF Coroutine
<1>3. ASSUME NEW l \in Leg
      PROVE  /\ order[i][l] \in VenueOrder
             /\ order[i][l].bought \in 0 .. Quantity
             /\ order[i][l].sale \in 0 .. Quantity
             /\ held[i][l] \in Int
  <2>1. order[i][l] \in VenueOrder /\ held[i][l] \in Int
    BY DEF TypeOK
  <2> QED BY <2>1 DEF VenueOrder
<1> QED BY <1>1, <1>2, <1>3

LEMMA CostIsNat ==
  ASSUME NEW f \in 0 .. Quantity, NEW p \in Nat PROVE f * p \in Nat
<1>1. f \in Nat
  BY ExecutionConstants
<1> QED BY <1>1, ProductIsNat

LEMMA BoughtType ==
  ASSUME TypeOK, NEW i \in Intent
  PROVE  Bought(i) \in Row /\ Acquired(i) \in [Leg -> 0 .. Quantity]
<1>1. order[i][run[i].leg].bought \in 0 .. Quantity
  BY RunFacts
<1>2. order[i][run[i].leg].bought * run[i].price \in Nat
  BY <1>1, RunFacts, CostIsNat
<1>3. BuyOutcome(order[i][run[i].leg].bought) \in Outcome
  BY DEF BuyOutcome, Outcome
<1>4. Bought(i) \in Row
  BY <1>1, <1>2, <1>3, RunFacts, RecordBuyType DEF Bought
<1>5. Acquired(i) \in [Leg -> 0 .. Quantity]
  BY <1>1, RunFacts DEF Acquired
<1> QED BY <1>4, <1>5

LEMMA SoldType ==
  ASSUME TypeOK, NEW i \in Intent PROVE Sold(i) \in Row
<1>1. order[i][run[i].leg].sale \in 0 .. Quantity
  BY RunFacts
<1>2. order[i][run[i].leg].sale * run[i].price \in Nat
  BY <1>1, RunFacts, CostIsNat
<1>3. SellOutcome(order[i][run[i].leg].sale, run[i].got[run[i].leg]) \in Outcome
  BY DEF SellOutcome, Outcome
<1> QED BY <1>1, <1>2, <1>3, RunFacts, RecordSellType DEF Sold

\* A row replaced by a row of the right shape.
LEMMA OneRow ==
  ASSUME TypeOK, NEW i \in Intent, NEW r \in Row, row' = [row EXCEPT ![i] = r]
  PROVE  row' \in [Intent -> Row]
  BY DEF TypeOK

LEMMA TypeInit == Init => TypeOK
<1> SUFFICES ASSUME Init PROVE TypeOK
  OBVIOUS
<1>1. Absent \in Row
  BY NewRowType DEF Absent
<1>2. row \in [Intent -> Row] /\ durable \in [Intent -> Row]
  BY <1>1 DEF Init
<1>3. Idle \in Coroutine
  BY LegFacts, ZeroQuantity DEF Idle, Coroutine, NothingGot
<1>4. NoOrder \in VenueOrder
  BY ZeroQuantity DEF NoOrder, VenueOrder, Status
<1>5. order \in [Intent -> [Leg -> VenueOrder]]
  BY <1>4 DEF Init
<1>6. report \in [Intent -> Finding]
  BY DEF Init, Finding
<1> QED BY <1>2, <1>3, <1>5, <1>6 DEF Init, TypeOK

LEMMA LoopType == ASSUME TypeOK, Loop PROVE TypeOK'
<1>1. CASE Sweep
  <2>1. row' \in [Intent -> Row]
    BY <1>1, ExpireStaleType DEF Sweep, TypeOK
  <2> QED BY <1>1, <2>1 DEF Sweep, TypeOK
<1>2. ASSUME NEW i \in Intent, NEW p \in Prices, NEW e \in Edges, NEW a \in QuoteAges,
             Cycle(i, p, e, a)
      PROVE  TypeOK'
  <2>1. e \in Nat
    BY ExecutionConstants
  <2>2. Consider(ExpireStale(row), Notional(p), e, a) \in Row
    BY <2>1, NotionalType, ConsiderType
  <2>3. ExpireStale(row) \in [Intent -> Row]
    BY ExpireStaleType DEF TypeOK
  <2>4. row' \in [Intent -> Row]
    BY <1>2, <2>2, <2>3 DEF Cycle
  <2> QED BY <1>2, <2>4 DEF Cycle, TypeOK
<1> QED BY <1>1, <1>2 DEF Loop

LEMMA OperatorType == ASSUME TypeOK, NEW i \in Intent, Operator(i) PROVE TypeOK'
<1>1. {"REJECTED", "EXPIRED"} \subseteq OrderState
  BY DEF OrderState
<1>2. CASE Decline(i)
  <2>1. row' \in [Intent -> Row]
    BY <1>1, <1>2, RunFacts, TransitionType, OneRow DEF Decline
  <2> QED BY <1>2, <2>1 DEF Decline, TypeOK
<1>3. ASSUME NEW p \in Prices, NEW a \in QuoteAges, ApproveRefused(i, p, a)
      PROVE  TypeOK'
  <2>1. row' \in [Intent -> Row]
    BY <1>1, <1>3, RunFacts, TransitionType, OneRow DEF ApproveRefused
  <2> QED BY <1>3, <2>1 DEF ApproveRefused, TypeOK
<1>4. ASSUME NEW p \in Prices, NEW a \in QuoteAges, Approve(i, p, a)
      PROVE  TypeOK'
  <2>1. row[i].edge \in Nat
    BY RunFacts DEF Row
  <2>2. /\ row' \in [Intent -> Row]
        /\ run' \in [Intent -> Coroutine]
        /\ order' \in [Intent -> [Leg -> VenueOrder]]
    BY <1>4, <2>1, SubmitType DEF Approve
  <2> QED BY <1>4, <2>2 DEF Approve, TypeOK
<1> QED BY <1>2, <1>3, <1>4 DEF Operator

LEMMA CallerType == ASSUME TypeOK, NEW i \in Intent, Caller(i) PROVE TypeOK'
<1>1. ASSUME NEW p \in Prices, NEW e \in Edges, NEW a \in QuoteAges, NEW h \in BOOLEAN,
             ExecuteDirectly(i, p, e, a, h)
      PROVE  TypeOK'
  <2>1. e \in Nat
    BY ExecutionConstants
  <2>2. /\ row' \in [Intent -> Row]
        /\ run' \in [Intent -> Coroutine]
        /\ order' \in [Intent -> [Leg -> VenueOrder]]
    BY <1>1, <2>1, SubmitType DEF ExecuteDirectly
  <2> QED BY <1>1, <2>2 DEF ExecuteDirectly, TypeOK
<1>2. CASE BeginReconcile(i)
  <2>1. "RECONCILING" \in OrderState
    BY DEF OrderState
  <2>2. row' \in [Intent -> Row]
    BY <1>2, <2>1, RunFacts, TransitionType, OneRow DEF BeginReconcile
  <2> QED BY <1>2, <2>2 DEF BeginReconcile, TypeOK
<1>3. CASE Reconcile(i)
  <2> DEFINE target == NextState(report[i])
  <2>1. target \in OrderState
    BY DEF NextState, OrderState
  <2>2. row' \in [Intent -> Row]
    BY <1>3, <2>1, RunFacts, TransitionType, OneRow DEF Reconcile
  <2>3. report' \in [Intent -> Finding]
    BY <1>3 DEF Reconcile, TypeOK, Finding
  <2> QED BY <1>3, <2>2, <2>3 DEF Reconcile, TypeOK
<1>4. ASSUME NEW stray \in BOOLEAN, ReadPositions(i, stray) PROVE TypeOK'
  <2>1. Verdict([l \in Leg |-> Position(i, l)], stray) \in Finding
    BY DEF Verdict, Finding
  <2>2. report' \in [Intent -> Finding]
    BY <1>4, <2>1 DEF ReadPositions, TypeOK
  <2> QED BY <1>4, <2>2 DEF ReadPositions, TypeOK
<1> QED BY <1>1, <1>2, <1>3, <1>4 DEF Caller

\* Every step of an acquisition moves its row, its coroutine and perhaps an order.
LEMMA ResumeType == ASSUME TypeOK, NEW i \in Intent, Resume(i) PROVE TypeOK'
<1> DEFINE Parts == /\ row' \in [Intent -> Row]
                    /\ run' \in [Intent -> Coroutine]
                    /\ order' \in [Intent -> [Leg -> VenueOrder]]
<1>1. {"FILLED", "FAILED", "UNKNOWN"} \subseteq OrderState /\ "unknown" \in Outcome
  BY DEF OrderState, Outcome
<1>2. Idle \in Coroutine
  BY LegFacts, ZeroQuantity DEF Idle, Coroutine, NothingGot
<1>3. /\ run \in [Intent -> Coroutine] /\ order \in [Intent -> [Leg -> VenueOrder]]
      /\ run[i] \in Coroutine /\ row[i] \in Row /\ run[i].leg \in Leg
  BY RunFacts DEF TypeOK
<1>4. Bought(i) \in Row /\ Sold(i) \in Row /\ Acquired(i) \in [Leg -> 0 .. Quantity]
  BY BoughtType, SoldType
<1>5. CASE NextLeg(i)
  <2>1. run[i].leg + 1 \in Leg
    BY <1>3, <1>5, ExecutionConstants DEF NextLeg, Leg
  <2>2. [run[i] EXCEPT !.leg = run[i].leg + 1, !.got[run[i].leg] = Quantity] \in Coroutine
    BY <1>3, <2>1, ZeroQuantity DEF Coroutine
  <2>3. row' \in [Intent -> Row]
    BY <1>4, <1>5, OneRow DEF NextLeg
  <2>4. run' \in [Intent -> Coroutine]
    BY <1>3, <1>5, <2>2 DEF NextLeg
  <2>5. order' \in [Intent -> [Leg -> VenueOrder]]
    BY <1>5, <2>1, PlaceType DEF NextLeg
  <2> QED BY <1>5, <2>3, <2>4, <2>5 DEF NextLeg, TypeOK
<1>6. CASE Complete(i)
  <2>1. Parts
    BY <1>1, <1>2, <1>3, <1>4, <1>6, OneRow, TransitionType DEF Complete
  <2> QED BY <1>6, <2>1 DEF Complete, TypeOK
<1>7. CASE GiveUp(i)
  <2>1. Parts
    BY <1>1, <1>2, <1>3, <1>4, <1>7, OneRow, TransitionType DEF GiveUp
  <2> QED BY <1>7, <2>1 DEF GiveUp, TypeOK
<1>8. CASE Unwind(i)
  <2>1. PICK l \in Leg :
          /\ run' = [run EXCEPT ![i] = [@ EXCEPT !.pc = "sell", !.leg = l, !.got = Acquired(i)]]
          /\ Sell(i, l, Acquired(i)[l])
    BY <1>8 DEF Unwind
  <2>2. [run[i] EXCEPT !.pc = "sell", !.leg = l, !.got = Acquired(i)] \in Coroutine
    BY <1>3, <1>4 DEF Coroutine
  <2>3. Acquired(i)[l] \in 0 .. Quantity
    BY <1>4
  <2>4. Parts
    BY <1>3, <1>4, <1>8, <2>1, <2>2, <2>3, OneRow, SellType DEF Unwind
  <2> QED BY <1>8, <2>4 DEF Unwind, TypeOK
<1>9. CASE BuyLost(i)
  <2>1. RecordBuy(row[i], run[i].leg, "unknown", 0, 0) \in Row
    BY <1>1, <1>3, ZeroQuantity, RecordBuyType
  <2>2. Parts
    BY <1>1, <1>2, <1>3, <1>9, <2>1, OneRow, TransitionType DEF BuyLost
  <2> QED BY <1>9, <2>2 DEF BuyLost, TypeOK
<1>10. CASE NextSale(i)
  <2>1. PICK l \in Leg : /\ run' = [run EXCEPT ![i].leg = l]
                         /\ Sell(i, l, run[i].got[l])
    BY <1>10 DEF NextSale
  <2>2. [run[i] EXCEPT !.leg = l] \in Coroutine
    BY <1>3 DEF Coroutine
  <2>3. run[i].got[l] \in 0 .. Quantity
    BY RunFacts
  <2>4. Parts
    BY <1>3, <1>4, <1>10, <2>1, <2>2, <2>3, OneRow, SellType DEF NextSale
  <2> QED BY <1>10, <2>4 DEF NextSale, TypeOK
<1>11. CASE Unwound(i)
  <2>1. Parts
    BY <1>1, <1>2, <1>3, <1>4, <1>11, OneRow, TransitionType DEF Unwound
  <2> QED BY <1>11, <2>1 DEF Unwound, TypeOK
<1>12. CASE SellLost(i)
  <2>1. RecordSell(row[i], run[i].leg, "unknown", 0, 0) \in Row
    BY <1>1, <1>3, ZeroQuantity, RecordSellType
  <2>2. Parts
    BY <1>1, <1>2, <1>3, <1>12, <2>1, OneRow, TransitionType DEF SellLost
  <2> QED BY <1>12, <2>2 DEF SellLost, TypeOK
<1> QED BY <1>5, <1>6, <1>7, <1>8, <1>9, <1>10, <1>11, <1>12 DEF Resume

LEMMA VenueType ==
  ASSUME TypeOK, NEW i \in Intent, NEW l \in Leg, Venue(i, l) PROVE TypeOK'
<1>1. "done" \in Status
  BY DEF Status
<1>2. order \in [Intent -> [Leg -> VenueOrder]] /\ held \in [Intent -> [Leg -> Int]]
  BY DEF TypeOK
<1>3. order[i][l] \in VenueOrder /\ held[i][l] \in Int
  BY <1>2
<1>4. ASSUME NEW f \in 0 .. Quantity, VenueBuys(i, l, f) PROVE TypeOK'
  <2>1. f \in Int /\ held[i][l] + f \in Int
    BY <1>3
  <2>2. [order[i][l] EXCEPT !.buy = "done", !.bought = f] \in VenueOrder
    BY <1>1, <1>3 DEF VenueOrder
  <2>3. order' \in [Intent -> [Leg -> VenueOrder]]
    BY <1>2, <1>4, <2>2 DEF VenueBuys
  <2>4. held' \in [Intent -> [Leg -> Int]]
    BY <1>2, <1>4, <2>1 DEF VenueBuys
  <2> QED BY <1>4, <2>3, <2>4 DEF VenueBuys, TypeOK
<1>5. ASSUME NEW f \in 0 .. Quantity, VenueSells(i, l, f) PROVE TypeOK'
  <2>1. f \in Int /\ held[i][l] - f \in Int
    BY <1>3
  <2>2. [order[i][l] EXCEPT !.sell = "done", !.sale = f] \in VenueOrder
    BY <1>1, <1>3 DEF VenueOrder
  <2>3. order' \in [Intent -> [Leg -> VenueOrder]]
    BY <1>2, <1>5, <2>2 DEF VenueSells
  <2>4. held' \in [Intent -> [Leg -> Int]]
    BY <1>2, <1>5, <2>1 DEF VenueSells
  <2> QED BY <1>5, <2>3, <2>4 DEF VenueSells, TypeOK
<1> QED BY <1>4, <1>5 DEF Venue

LEMMA TickType == ASSUME TypeOK, Tick PROVE TypeOK'
<1>1. ASSUME NEW i \in Intent
      PROVE  IF row[i].state = "AWAITING_HUMAN" /\ row[i].waited <= ApprovalTtl
               THEN [row[i] EXCEPT !.waited = @ + 1] \in Row ELSE row[i] \in Row
  <2>1. row[i] \in Row
    BY DEF TypeOK
  <2>2. row[i].waited \in 0 .. ApprovalTtl + 1
    BY <2>1 DEF Row
  <2>3. ASSUME row[i].waited <= ApprovalTtl
        PROVE  row[i].waited + 1 \in 0 .. ApprovalTtl + 1
    BY <2>2, <2>3, ExecutionConstants
  <2> QED BY <2>1, <2>3 DEF Row
<1>2. row' \in [Intent -> Row]
  BY <1>1 DEF Tick
<1> QED BY <1>2 DEF Tick, TypeOK

LEMMA HaltType == ASSUME TypeOK, TripHalt \/ ClearHalt PROVE TypeOK'
<1>1. halt' \in HaltCause \cup {NotHalted}
  <2>1. Alarms \subseteq HaltCause
    BY ExecutionConstants
  <2>2. {"daily_loss", "reconciliation"} \subseteq HaltCause
    BY DEF HaltCause
  <2> QED BY <2>1, <2>2 DEF TripHalt, ClearHalt, Clear, Trip, CheckDailyLoss,
                            CheckUnresolved, TypeOK
<1> QED BY <1>1 DEF TripHalt, ClearHalt, TypeOK

LEMMA FaultType == ASSUME TypeOK, Fault PROVE TypeOK'
<1>1. Idle \in Coroutine
  BY LegFacts, ZeroQuantity DEF Idle, Coroutine, NothingGot
<1>2. CASE Commit
  BY <1>2 DEF Commit, TypeOK
<1>3. ASSUME NEW i \in Intent, Abort(i) PROVE TypeOK'
  BY <1>1, <1>3 DEF Abort, TypeOK
<1>4. ASSUME NEW sold \in AmountsSold, Crash(sold) PROVE TypeOK'
  <2>1. "none" \in Status
    BY DEF Status
  <2>2. \A i \in Intent, l \in Leg : order[i][l] \in VenueOrder /\ held[i][l] \in Int
    BY RunFacts
  <2>3. \A i \in Intent, l \in Leg :
          [order[i][l] EXCEPT !.sell = "none", !.sale = 0] \in VenueOrder
    BY <2>1, <2>2, ZeroQuantity DEF VenueOrder
  <2>4. order' \in [Intent -> [Leg -> VenueOrder]]
    BY <1>4, <2>3 DEF Crash
  <2>5. sold \in [OpenSales -> 0 .. Quantity]
    BY DEF AmountsSold
  <2>6. \A i \in Intent, l \in Leg :
          <<i, l>> \in OpenSales => held[i][l] - sold[<<i, l>>] \in Int
    BY <2>2, <2>5
  <2>7. held' \in [Intent -> [Leg -> Int]]
    BY <1>4, <2>2, <2>6 DEF Crash
  <2>8. row' \in [Intent -> Row] /\ durable' \in [Intent -> Row]
    BY <1>4 DEF Crash, TypeOK
  <2>9. run' \in [Intent -> Coroutine]
    BY <1>1, <1>4 DEF Crash
  <2>10. /\ standing' \in [Intent -> BOOLEAN]
         /\ faults' \in Nat
         /\ halt' \in HaltCause \cup {NotHalted}
    <3>1. standing' = standing /\ faults' = faults + 1 /\ halt' = NotHalted
      BY <1>4 DEF Crash
    <3>2. standing \in [Intent -> BOOLEAN] /\ faults \in Nat
      BY DEF TypeOK
    <3> QED BY <3>1, <3>2
  <2>11. report' \in [Intent -> Finding]
    BY <1>4 DEF Crash, Finding
  <2> QED BY <2>4, <2>7, <2>8, <2>9, <2>10, <2>11 DEF TypeOK
<1> QED BY <1>2, <1>3, <1>4 DEF Fault

LEMMA TypeNext == ASSUME TypeOK, [Next]_vars PROVE TypeOK'
<1>1. CASE UNCHANGED vars
  BY <1>1 DEF vars, TypeOK
<1>2. ASSUME NEW i \in Intent, Suspend(i) PROVE TypeOK'
  BY <1>2 DEF Suspend, TypeOK
<1> QED BY <1>1, <1>2, LoopType, OperatorType, ResumeType, CallerType, VenueType, TickType,
           HaltType, FaultType DEF Next

\* Every variable keeps the shape the code gives it, whatever happens.
THEOREM TypeCorrect == Spec => []TypeOK
  BY TypeInit, TypeNext, PTL DEF Spec

-----------------------------------------------------------------------------
(* The inductive invariant.  The venue's side: a leg that is not decided   *)
(* has bought nothing; a leg never holds more than it bought; and nothing  *)
(* is offered for sale, so every leg holds what it bought, until some leg  *)
(* has fallen short for good.                                              *)

Short(i) == \E l \in Leg : order[i][l].buy = "done" /\ order[i][l].bought < Quantity

InFull(i, l) == order[i][l].buy = "done" /\ order[i][l].bought = Quantity

VenueInv ==
  \A i \in Intent, l \in Leg :
    /\ order[i][l].buy # "done" => order[i][l].bought = 0
    /\ held[i][l] <= order[i][l].bought
    /\ order[i][l].sell # "none" \/ held[i][l] # order[i][l].bought => Short(i)

\* The coroutine's side: legs are placed in order, each after the one before it filled
\* in full; and only a basket that fell short is unwound.
RunInv ==
  \A i \in Intent :
    /\ run[i].pc = "buy" => \A l \in Leg : l < run[i].leg => InFull(i, l)
    /\ run[i].pc = "sell" => Short(i)

\* A basket is FILLED in a row of this session or of the last commit, or a check has
\* found it so and was not applied yet.
Filled(i) ==
  row[i].state = "FILLED" \/ durable[i].state = "FILLED" \/ report[i] = "held_in_full"

\* The rows' side.
FilledInv ==
  ~SharedTickers => \A i \in Intent : Filled(i) => \A l \in Leg : InFull(i, l)

UncertainState == {"UNKNOWN", "RECONCILING", "FILLED", "FAILED", "INCIDENT"}

UncertainInv ==
  \A i \in Intent :
    /\ Uncertain(row[i]) => row[i].state \in UncertainState
    /\ Uncertain(durable[i]) => durable[i].state \in UncertainState
    /\ run[i].pc # "idle" => row[i].state = "SUBMITTING"
    /\ Submitted(durable[i]) => Submitted(row[i])

IInv == TypeOK /\ VenueInv /\ RunInv /\ FilledInv /\ UncertainInv

-----------------------------------------------------------------------------
(* What a step may do to the venue.                                        *)

Still == UNCHANGED <<order, held>>
Placing == \E i \in Intent, l \in Leg : Place(i, l) /\ held' = held
Offering ==
  \E i \in Intent, l \in Leg, q \in 0 .. Quantity : Sell(i, l, q) /\ Short(i) /\ held' = held
Buying == \E i \in Intent, l \in Leg, f \in 0 .. Quantity : VenueBuys(i, l, f)
Selling == \E i \in Intent, l \in Leg, f \in 0 .. Quantity : VenueSells(i, l, f)
Crashing == \E sold \in AmountsSold : Crash(sold)

LEMMA VenueSteps ==
  ASSUME TypeOK, RunInv, [Next]_vars
  PROVE  Still \/ Placing \/ Offering \/ Buying \/ Selling \/ Crashing
<1>1. CASE UNCHANGED vars
  BY <1>1 DEF vars, Still
<1>2. CASE Loop
  BY <1>2 DEF Loop, Sweep, Cycle, Still
<1>3. ASSUME NEW i \in Intent, Operator(i)
      PROVE  Still \/ Placing
  BY <1>3, LegFacts DEF Operator, Decline, ApproveRefused, Approve, Submit, Still, Placing
<1>4. ASSUME NEW i \in Intent, Caller(i)
      PROVE  Still \/ Placing
  BY <1>4, LegFacts DEF Caller, ExecuteDirectly, BeginReconcile, ReadPositions, Reconcile,
                        Submit, Still, Placing
<1>5. ASSUME NEW i \in Intent, Resume(i)
      PROVE  Still \/ Placing \/ Offering
  <2>1. CASE NextLeg(i)
    <3>1. run[i].leg + 1 \in Leg
      BY <2>1, RunFacts, ExecutionConstants DEF NextLeg, Leg
    <3> QED BY <2>1, <3>1 DEF NextLeg, Placing
  <2>2. CASE Complete(i) \/ GiveUp(i) \/ BuyLost(i) \/ Unwound(i) \/ SellLost(i)
    BY <2>2 DEF Complete, GiveUp, BuyLost, Unwound, SellLost, Still
  <2>3. CASE Unwind(i)
    <3>1. Short(i)
      BY <2>3, RunFacts DEF Unwind, BuyAnswered, Short
    <3>2. PICK l \in Leg : Sell(i, l, Acquired(i)[l])
      BY <2>3 DEF Unwind
    <3>3. Acquired(i)[l] \in 0 .. Quantity
      BY BoughtType
    <3> QED BY <2>3, <3>1, <3>2, <3>3 DEF Unwind, Offering
  <2>4. CASE NextSale(i)
    <3>1. Short(i)
      BY <2>4 DEF NextSale, SellAnswered, RunInv
    <3>2. PICK l \in Leg : Sell(i, l, run[i].got[l])
      BY <2>4 DEF NextSale
    <3>3. run[i].got[l] \in 0 .. Quantity
      BY RunFacts
    <3> QED BY <2>4, <3>1, <3>2, <3>3 DEF NextSale, Offering
  <2> QED BY <1>5, <2>1, <2>2, <2>3, <2>4 DEF Resume
<1>6. ASSUME NEW i \in Intent, NEW l \in Leg, Venue(i, l)
      PROVE  Buying \/ Selling
  BY <1>6 DEF Venue, Buying, Selling
<1>7. ASSUME NEW i \in Intent, Suspend(i) PROVE Still
  BY <1>7 DEF Suspend, Still
<1>8. CASE Tick \/ TripHalt \/ ClearHalt
  BY <1>8 DEF Tick, TripHalt, ClearHalt, Still
<1>9. CASE Fault
  BY <1>9 DEF Fault, Commit, Abort, Still, Crashing
<1> QED BY <1>1, <1>2, <1>3, <1>4, <1>5, <1>6, <1>7, <1>8, <1>9 DEF Next

\* No step takes back what the venue decided of a buy.
LEMMA DecidedStays ==
  ASSUME TypeOK, RunInv, [Next]_vars, NEW i \in Intent, NEW l \in Leg,
         order[i][l].buy = "done"
  PROVE  order'[i][l].buy = "done" /\ order'[i][l].bought = order[i][l].bought
<1> order \in [Intent -> [Leg -> VenueOrder]] /\ order[i][l] \in VenueOrder
  BY DEF TypeOK
<1>1. CASE Still
  BY <1>1 DEF Still
<1>2. CASE Placing
  <2>1. PICK j \in Intent, m \in Leg : Place(j, m)
    BY <1>2 DEF Placing
  <2> QED BY <2>1 DEF Place, VenueOrder
<1>3. CASE Offering
  <2>1. PICK j \in Intent, m \in Leg, q \in 0 .. Quantity : Sell(j, m, q)
    BY <1>3 DEF Offering
  <2> QED BY <2>1 DEF Sell, VenueOrder
<1>4. CASE Buying
  <2>1. PICK j \in Intent, m \in Leg, f \in 0 .. Quantity : VenueBuys(j, m, f)
    BY <1>4 DEF Buying
  <2> QED BY <2>1 DEF VenueBuys, VenueOrder
<1>5. CASE Selling
  <2>1. PICK j \in Intent, m \in Leg, f \in 0 .. Quantity : VenueSells(j, m, f)
    BY <1>5 DEF Selling
  <2> QED BY <2>1 DEF VenueSells, VenueOrder
<1>6. CASE Crashing
  <2>1. PICK sold \in AmountsSold : Crash(sold)
    BY <1>6 DEF Crashing
  <2>2. order'[i][l] = [order[i][l] EXCEPT !.sell = "none", !.sale = 0]
    BY <2>1 DEF Crash
  <2> QED BY <2>2 DEF VenueOrder
<1> QED BY <1>1, <1>2, <1>3, <1>4, <1>5, <1>6, VenueSteps

LEMMA ShortStays ==
  ASSUME TypeOK, RunInv, [Next]_vars, NEW i \in Intent, Short(i)
  PROVE  Short(i)'
<1>1. PICK l \in Leg : order[i][l].buy = "done" /\ order[i][l].bought < Quantity
  BY DEF Short
<1>2. order'[i][l].buy = "done" /\ order'[i][l].bought < Quantity
  BY <1>1, DecidedStays
<1> QED BY <1>2 DEF Short

LEMMA InFullStays ==
  ASSUME TypeOK, RunInv, [Next]_vars, NEW i \in Intent, NEW l \in Leg, InFull(i, l)
  PROVE  InFull(i, l)'
  BY DecidedStays DEF InFull

-----------------------------------------------------------------------------
(* Every step keeps the venue's side.                                      *)

\* VenueInv for one leg, of the intent's own Short.
LegInv(i, l) ==
  /\ order[i][l].buy # "done" => order[i][l].bought = 0
  /\ held[i][l] <= order[i][l].bought
  /\ order[i][l].sell # "none" \/ held[i][l] # order[i][l].bought => Short(i)

LEMMA VenueNext ==
  ASSUME TypeOK, VenueInv, RunInv, [Next]_vars PROVE VenueInv'
<1> SUFFICES ASSUME NEW i \in Intent, NEW l \in Leg
             PROVE  /\ order'[i][l].buy # "done" => order'[i][l].bought = 0
                    /\ held'[i][l] <= order'[i][l].bought
                    /\ (order'[i][l].sell # "none" \/ held'[i][l] # order'[i][l].bought)
                         => Short(i)'
  BY DEF VenueInv
<1>1. /\ order \in [Intent -> [Leg -> VenueOrder]] /\ held \in [Intent -> [Leg -> Int]]
      /\ order[i][l] \in VenueOrder /\ held[i][l] \in Int
      /\ order[i][l].bought \in Int
  BY RunFacts DEF TypeOK
<1>2. LegInv(i, l)
  BY DEF VenueInv, LegInv
<1>3. Short(i) => Short(i)'
  BY ShortStays
<1>4. CASE Still
  BY <1>2, <1>3, <1>4 DEF Still, LegInv
<1>5. CASE Placing
  <2>1. PICK j \in Intent, m \in Leg : Place(j, m) /\ held' = held
    BY <1>5 DEF Placing
  <2>2. /\ order'[i][l].bought = order[i][l].bought
        /\ order'[i][l].sell = order[i][l].sell
        /\ order'[i][l].buy # "done" => order[i][l].buy # "done"
    BY <1>1, <2>1 DEF Place, VenueOrder
  <2> QED BY <1>2, <1>3, <2>1, <2>2 DEF LegInv
<1>6. CASE Offering
  <2>1. PICK j \in Intent, m \in Leg, q \in 0 .. Quantity :
          Sell(j, m, q) /\ Short(j) /\ held' = held
    BY <1>6 DEF Offering
  <2>2. /\ order'[i][l].bought = order[i][l].bought
        /\ order'[i][l].buy = order[i][l].buy
        /\ i # j => order'[i][l].sell = order[i][l].sell
    BY <1>1, <2>1 DEF Sell, VenueOrder
  <2> QED BY <1>2, <1>3, <2>1, <2>2 DEF LegInv
<1>7. CASE Buying
  <2>1. PICK j \in Intent, m \in Leg, f \in 0 .. Quantity : VenueBuys(j, m, f)
    BY <1>7 DEF Buying
  <2>2. CASE i = j /\ l = m
    <3>1. order'[i][l] = [order[i][l] EXCEPT !.buy = "done", !.bought = f]
      BY <1>1, <2>1, <2>2 DEF VenueBuys
    <3>2. /\ order'[i][l].buy = "done" /\ order'[i][l].bought = f
          /\ order'[i][l].sell = order[i][l].sell
      BY <1>1, <3>1 DEF VenueOrder
    <3>3. held'[i][l] = held[i][l] + f /\ order[i][l].buy = "open"
      BY <1>1, <2>1, <2>2 DEF VenueBuys
    <3>4. order[i][l].bought = 0
      BY <1>2, <3>3 DEF LegInv
    <3> QED BY <1>1, <1>2, <1>3, <3>2, <3>3, <3>4, ExecutionConstants DEF LegInv
  <2>3. CASE ~(i = j /\ l = m)
    <3>1. order'[i][l] = order[i][l] /\ held'[i][l] = held[i][l]
      BY <1>1, <2>1, <2>3 DEF VenueBuys
    <3> QED BY <1>2, <1>3, <3>1 DEF LegInv
  <2> QED BY <2>2, <2>3
<1>8. CASE Selling
  <2>1. PICK j \in Intent, m \in Leg, f \in 0 .. Quantity : VenueSells(j, m, f)
    BY <1>8 DEF Selling
  <2>2. CASE i = j /\ l = m
    <3>1. order'[i][l] = [order[i][l] EXCEPT !.sell = "done", !.sale = f]
      BY <1>1, <2>1, <2>2 DEF VenueSells
    <3>2. /\ order'[i][l].buy = order[i][l].buy
          /\ order'[i][l].bought = order[i][l].bought
      BY <1>1, <3>1 DEF VenueOrder
    <3>3. held'[i][l] = held[i][l] - f /\ order[i][l].sell = "open"
      BY <1>1, <2>1, <2>2 DEF VenueSells
    <3>4. Short(i)
      BY <1>2, <3>3 DEF LegInv
    <3>5. held'[i][l] <= held[i][l]
      BY <1>1, <3>3
    <3>6. held'[i][l] <= order[i][l].bought
      BY <1>1, <1>2, <3>3, <3>5 DEF LegInv
    <3> QED BY <1>2, <1>3, <3>2, <3>4, <3>6 DEF LegInv
  <2>3. CASE ~(i = j /\ l = m)
    <3>1. order'[i][l] = order[i][l] /\ held'[i][l] = held[i][l]
      BY <1>1, <2>1, <2>3 DEF VenueSells
    <3> QED BY <1>2, <1>3, <3>1 DEF LegInv
  <2> QED BY <2>2, <2>3
<1>9. CASE Crashing
  <2>1. PICK sold \in AmountsSold : Crash(sold)
    BY <1>9 DEF Crashing
  <2>2. order'[i][l] = [order[i][l] EXCEPT !.sell = "none", !.sale = 0]
    BY <2>1 DEF Crash
  <2>3. /\ order'[i][l].buy = order[i][l].buy
        /\ order'[i][l].bought = order[i][l].bought
        /\ order'[i][l].sell = "none"
    BY <1>1, <2>2 DEF VenueOrder
  <2>4. CASE <<i, l>> \in OpenSales
    <3>1. order[i][l].sell = "open"
      BY <2>4 DEF OpenSales
    <3>2. Short(i)
      BY <1>2, <3>1 DEF LegInv
    <3>3. held'[i][l] = held[i][l] - sold[<<i, l>>]
      BY <2>1, <2>4 DEF Crash
    <3>4. sold[<<i, l>>] \in 0 .. Quantity
      BY <2>4 DEF AmountsSold
    <3>5. held'[i][l] <= held[i][l]
      BY <1>1, <3>3, <3>4
    <3>6. held'[i][l] <= order[i][l].bought
      BY <1>1, <1>2, <3>3, <3>4, <3>5 DEF LegInv
    <3> QED BY <1>2, <1>3, <2>3, <3>2, <3>6 DEF LegInv
  <2>5. CASE <<i, l>> \notin OpenSales
    <3>1. held'[i][l] = held[i][l]
      BY <2>1, <2>5 DEF Crash
    <3> QED BY <1>2, <1>3, <2>3, <3>1 DEF LegInv
  <2> QED BY <2>4, <2>5
<1> QED BY <1>4, <1>5, <1>6, <1>7, <1>8, <1>9, VenueSteps

-----------------------------------------------------------------------------
(* Every step keeps the coroutine's side.                                  *)

LEMMA RunNext ==
  ASSUME TypeOK, RunInv, [Next]_vars PROVE RunInv'
<1> SUFFICES ASSUME NEW i \in Intent
             PROVE  /\ run'[i].pc = "buy" => \A l \in Leg : l < run'[i].leg => InFull(i, l)'
                    /\ run'[i].pc = "sell" => Short(i)'
  BY DEF RunInv
<1> DEFINE Goal == /\ run'[i].pc = "buy" => \A l \in Leg : l < run'[i].leg => InFull(i, l)'
                   /\ run'[i].pc = "sell" => Short(i)'
<1>1. run \in [Intent -> Coroutine] /\ run[i] \in Coroutine
  BY DEF TypeOK
<1>2. run'[i] = run[i] => Goal
  BY InFullStays, ShortStays DEF RunInv
<1>3. run'[i] = Idle => Goal
  BY DEF Idle
<1>4. ASSUME NEW p, run'[i] = [pc |-> "buy", leg |-> 1, price |-> p, got |-> NothingGot]
      PROVE  Goal
  BY <1>4, LegFacts DEF Leg
<1>5. CASE UNCHANGED vars
  BY <1>2, <1>5 DEF vars
<1>6. CASE Loop
  BY <1>2, <1>6 DEF Loop, Sweep, Cycle
<1>7. ASSUME NEW j \in Intent, NEW p, NEW e, Submit(j, p, e) PROVE Goal
  BY <1>1, <1>2, <1>4, <1>7 DEF Submit
<1>8. ASSUME NEW j \in Intent, Operator(j) PROVE Goal
  BY <1>2, <1>7, <1>8 DEF Operator, Decline, ApproveRefused, Approve
<1>9. ASSUME NEW j \in Intent, Caller(j) PROVE Goal
  BY <1>2, <1>7, <1>9 DEF Caller, ExecuteDirectly, BeginReconcile, ReadPositions, Reconcile
<1>10. ASSUME NEW j \in Intent, Resume(j) PROVE Goal
  <2>1. CASE Complete(j) \/ GiveUp(j) \/ BuyLost(j) \/ Unwound(j) \/ SellLost(j)
    BY <1>1, <1>2, <1>3, <2>1 DEF Complete, GiveUp, BuyLost, Unwound, SellLost
  <2>2. CASE NextLeg(j)
    <3>1. CASE i # j
      BY <1>1, <1>2, <2>2, <3>1 DEF NextLeg
    <3>2. CASE i = j
      <4>1. run'[i] = [run[i] EXCEPT !.leg = run[i].leg + 1, !.got[run[i].leg] = Quantity]
        BY <1>1, <2>2, <3>2 DEF NextLeg
      <4>2. run'[i].leg = run[i].leg + 1 /\ run'[i].pc = "buy"
        BY <1>1, <2>2, <3>2, <4>1 DEF Coroutine, NextLeg, BuyAnswered
      <4>3. InFull(i, run[i].leg)
        BY <2>2, <3>2 DEF NextLeg, BuyAnswered, InFull
      <4>4. ASSUME NEW l \in Leg, l < run'[i].leg PROVE InFull(i, l)
        <5>1. l \in Nat /\ run[i].leg \in Nat
          BY RunFacts, LegFacts
        <5>2. l < run[i].leg \/ l = run[i].leg
          BY <4>2, <4>4, <5>1
        <5> QED BY <2>2, <3>2, <4>3, <5>2 DEF RunInv, NextLeg, BuyAnswered
      <4> QED BY <4>2, <4>4, InFullStays
    <3> QED BY <3>1, <3>2
  <2>3. CASE Unwind(j)
    <3>1. CASE i # j
      BY <1>1, <1>2, <2>3, <3>1 DEF Unwind
    <3>2. CASE i = j
      <4>1. Short(i)
        BY <2>3, <3>2, RunFacts DEF Unwind, BuyAnswered, Short
      <4>2. PICK l \in Leg :
              run' = [run EXCEPT ![j] = [@ EXCEPT !.pc = "sell", !.leg = l, !.got = Acquired(j)]]
        BY <2>3 DEF Unwind
      <4>3. run'[i].pc = "sell"
        BY <1>1, <3>2, <4>2 DEF Coroutine
      <4> QED BY <4>1, <4>3, ShortStays
    <3> QED BY <3>1, <3>2
  <2>4. CASE NextSale(j)
    <3>1. PICK l \in Leg : run' = [run EXCEPT ![j].leg = l]
      BY <2>4 DEF NextSale
    <3>2. CASE i # j
      BY <1>1, <1>2, <3>1, <3>2
    <3>3. CASE i = j
      <4>1. run'[i].pc = "sell" /\ Short(i)
        BY <1>1, <2>4, <3>1, <3>3 DEF Coroutine, NextSale, SellAnswered, RunInv
      <4> QED BY <4>1, ShortStays
    <3> QED BY <3>2, <3>3
  <2> QED BY <1>10, <2>1, <2>2, <2>3, <2>4 DEF Resume
<1>11. ASSUME NEW j \in Intent, NEW l \in Leg, Venue(j, l) PROVE Goal
  BY <1>2, <1>11 DEF Venue, VenueBuys, VenueSells
<1>12. ASSUME NEW j \in Intent, Suspend(j) PROVE Goal
  BY <1>2, <1>12 DEF Suspend
<1>13. CASE Tick \/ TripHalt \/ ClearHalt
  BY <1>2, <1>13 DEF Tick, TripHalt, ClearHalt
<1>14. CASE Fault
  BY <1>1, <1>2, <1>3, <1>14 DEF Fault, Commit, Abort, Crash
<1> QED BY <1>5, <1>6, <1>8, <1>9, <1>10, <1>11, <1>12, <1>13, <1>14 DEF Next

-----------------------------------------------------------------------------
(* What a step may do to one row and its coroutine.                        *)

Keeping(i) == row'[i] = row[i] /\ run'[i] \in {run[i], Idle}

Leaving(i) ==
  /\ row[i].state = "AWAITING_HUMAN" /\ run' = run
  /\ \E s \in {"EXPIRED", "REJECTED"} : row'[i] = Transition(row[i], s)

Waiting(i) ==
  /\ row[i].state = "AWAITING_HUMAN" /\ run' = run
  /\ row'[i] = [row[i] EXCEPT !.waited = @ + 1]

Proposing(i) ==
  /\ row[i].state = NoRow /\ MayTrade /\ run' = run
  /\ \E p \in Prices, e \in Edges, a \in QuoteAges :
       row'[i] = Consider(ExpireStale(row), Notional(p), e, a)

Submitting(i) ==
  /\ row[i].state \in {NoRow, "AWAITING_HUMAN"}
  /\ \E p \in Prices, e \in Nat, a \in QuoteAges :
       /\ Allowed(Notional(p), e, a, Exposure(row, FALSE))
       /\ row' = [row EXCEPT ![i] = Opened(row[i], Notional(p), e)]
       /\ run'[i] = [pc |-> "buy", leg |-> 1, price |-> p, got |-> NothingGot]
       /\ row[i].state = "AWAITING_HUMAN" => ApprovedPrice(i, p)

Working(i) ==
  /\ run[i].pc # "idle" /\ run'[i].pc # "idle" /\ row'[i] \in {Bought(i), Sold(i)}
  /\ NextLeg(i) \/ Unwind(i) \/ NextSale(i)

Ending(i) ==
  /\ run[i].pc # "idle" /\ run'[i] = Idle
  /\ \/ row'[i] = Transition(Bought(i), "FILLED") /\ \A l \in Leg : InFull(i, l)
     \/ row'[i] = Transition(Bought(i), "FAILED") /\ GiveUp(i)
     \/ row'[i] = Transition(Sold(i), "FAILED") /\ Unwound(i)
     \/ row'[i] = Transition(RecordBuy(row[i], run[i].leg, "unknown", 0, 0), "UNKNOWN")
     \/ row'[i] = Transition(RecordSell(row[i], run[i].leg, "unknown", 0, 0), "UNKNOWN")

Checking(i) ==
  /\ run' = run
  /\ \/ /\ row[i].state = "UNKNOWN"
        /\ row'[i] = Transition(row[i], "RECONCILING")
     \/ /\ row[i].state = "RECONCILING"
        /\ row'[i] = Transition(row[i], NextState(report[i]))

Restarting(i) ==
  /\ row' = durable /\ run'[i] = Idle
  /\ durable' = durable /\ faults' = faults + 1

RowStep(i) ==
  \/ Keeping(i) \/ Leaving(i) \/ Waiting(i) \/ Proposing(i) \/ Submitting(i)
  \/ Working(i) \/ Ending(i) \/ Checking(i) \/ Restarting(i)

LEMMA ExpireStaleStep ==
  ASSUME TypeOK, NEW i \in Intent, run' = run, row'[i] = ExpireStale(row)[i]
  PROVE  Keeping(i) \/ Leaving(i)
  BY DEF ExpireStale, Keeping, Leaving

LEMMA SubmitStep ==
  ASSUME TypeOK, NEW i \in Intent, NEW j \in Intent, NEW p \in Prices, NEW e \in Nat,
         NEW a \in QuoteAges, Submit(j, p, e),
         row[j].state \in {NoRow, "AWAITING_HUMAN"},
         Allowed(Notional(p), e, a, Exposure(row, FALSE)),
         row[j].state = "AWAITING_HUMAN" => ApprovedPrice(j, p)
  PROVE  Keeping(i) \/ Submitting(i)
<1>1. row \in [Intent -> Row] /\ run \in [Intent -> Coroutine]
  BY DEF TypeOK
<1>2. CASE i # j
  BY <1>1, <1>2 DEF Submit, Keeping
<1>3. CASE i = j
  <2>1. /\ row' = [row EXCEPT ![i] = Opened(row[i], Notional(p), e)]
        /\ run'[i] = [pc |-> "buy", leg |-> 1, price |-> p, got |-> NothingGot]
    BY <1>1, <1>3 DEF Submit
  <2> QED BY <1>3, <2>1 DEF Submitting
<1> QED BY <1>2, <1>3

\* A step of the coroutine of j, seen from i.
LEMMA ResumeStep ==
  ASSUME TypeOK, RunInv, NEW i \in Intent, NEW j \in Intent, Resume(j)
  PROVE  Keeping(i) \/ Working(i) \/ Ending(i)
<1>1. row \in [Intent -> Row] /\ run \in [Intent -> Coroutine]
  BY DEF TypeOK
<1>2. CASE i # j
  BY <1>1, <1>2 DEF Resume, NextLeg, Complete, GiveUp, Unwind, BuyLost, NextSale, Unwound,
                    SellLost, Keeping
<1>3. CASE i = j
  <2>1. CASE NextLeg(j)
    <3>1. run'[i].pc = run[i].pc /\ row'[i] = Bought(i)
      BY <1>1, <1>3, <2>1 DEF NextLeg, Coroutine
    <3> QED BY <1>3, <2>1, <3>1 DEF NextLeg, BuyAnswered, Working
  <2>2. CASE Unwind(j)
    <3>1. run'[i].pc = "sell" /\ row'[i] = Bought(i)
      BY <1>1, <1>3, <2>2 DEF Unwind, Coroutine
    <3> QED BY <1>3, <2>2, <3>1 DEF Unwind, BuyAnswered, Working
  <2>3. CASE NextSale(j)
    <3>1. run'[i].pc = run[i].pc /\ row'[i] = Sold(i)
      BY <1>1, <1>3, <2>3 DEF NextSale, Coroutine
    <3> QED BY <1>3, <2>3, <3>1 DEF NextSale, SellAnswered, Working
  <2>4. CASE Complete(j)
    <3>1. \A l \in Leg : InFull(i, l)
      <4> SUFFICES ASSUME NEW l \in Leg PROVE InFull(i, l)
        OBVIOUS
      <4>1. l < run[i].leg \/ l = run[i].leg
        BY <1>3, <2>4, ExecutionConstants DEF Complete, Leg
      <4> QED BY <1>3, <2>4, <4>1 DEF Complete, BuyAnswered, RunInv, InFull
    <3>2. run'[i] = Idle /\ row'[i] = Transition(Bought(i), "FILLED")
      BY <1>1, <1>3, <2>4 DEF Complete
    <3> QED BY <1>3, <2>4, <3>1, <3>2 DEF Complete, BuyAnswered, Ending
  <2>5. CASE GiveUp(j)
    BY <1>1, <1>3, <2>5 DEF GiveUp, BuyAnswered, Ending
  <2>6. CASE BuyLost(j)
    BY <1>1, <1>3, <2>6 DEF BuyLost, Ending
  <2>7. CASE Unwound(j)
    BY <1>1, <1>3, <2>7 DEF Unwound, SellAnswered, Ending
  <2>8. CASE SellLost(j)
    BY <1>1, <1>3, <2>8 DEF SellLost, Ending
  <2> QED BY <2>1, <2>2, <2>3, <2>4, <2>5, <2>6, <2>7, <2>8 DEF Resume
<1> QED BY <1>2, <1>3

LEMMA RowSteps ==
  ASSUME TypeOK, RunInv, [Next]_vars, NEW i \in Intent PROVE RowStep(i)
<1>1. row \in [Intent -> Row] /\ run \in [Intent -> Coroutine]
  BY DEF TypeOK
<1>2. CASE UNCHANGED vars
  BY <1>2 DEF vars, Keeping, RowStep
<1>3. CASE Sweep
  BY <1>3, ExpireStaleStep DEF Sweep, RowStep
<1>4. ASSUME NEW j \in Intent, NEW p \in Prices, NEW e \in Edges, NEW a \in QuoteAges,
             Cycle(j, p, e, a)
      PROVE  RowStep(i)
  <2>1. ExpireStale(row) \in [Intent -> Row]
    BY <1>1, ExpireStaleType
  <2>2. CASE i = j
    <3>1. row'[i] = Consider(ExpireStale(row), Notional(p), e, a)
      BY <1>4, <2>1, <2>2 DEF Cycle
    <3> QED BY <1>4, <2>2, <3>1 DEF Cycle, Proposing, RowStep
  <2>3. CASE i # j
    <3>1. row'[i] = ExpireStale(row)[i]
      BY <1>4, <2>1, <2>3 DEF Cycle
    <3> QED BY <1>4, <3>1, ExpireStaleStep DEF Cycle, RowStep
  <2> QED BY <2>2, <2>3
<1>5. ASSUME NEW j \in Intent, Decline(j) PROVE RowStep(i)
  <2>1. row[j].state = "AWAITING_HUMAN"
    BY <1>5 DEF Decline, CanTransition, Transitions
  <2> QED BY <1>1, <1>5, <2>1 DEF Decline, Leaving, Keeping, RowStep
<1>6. ASSUME NEW j \in Intent, NEW p \in Prices, NEW a \in QuoteAges, ApproveRefused(j, p, a)
      PROVE  RowStep(i)
  BY <1>1, <1>6 DEF ApproveRefused, Leaving, Keeping, RowStep
<1>7. ASSUME NEW j \in Intent, NEW p \in Prices, NEW a \in QuoteAges, Approve(j, p, a)
      PROVE  RowStep(i)
  <2>1. row[j].edge \in Nat
    BY <1>1 DEF Row
  <2> QED BY <1>7, <2>1, SubmitStep DEF Approve, Passes, Gates, RowStep
<1>8. ASSUME NEW j \in Intent, NEW p \in Prices, NEW e \in Edges, NEW a \in QuoteAges,
             NEW h \in BOOLEAN, ExecuteDirectly(j, p, e, a, h)
      PROVE  RowStep(i)
  <2>1. e \in Nat /\ NoRow # "AWAITING_HUMAN"
    BY ExecutionConstants DEF NoRow
  <2> QED BY <1>8, <2>1, SubmitStep DEF ExecuteDirectly, Gates, RowStep
<1>9. ASSUME NEW j \in Intent, BeginReconcile(j) \/ Reconcile(j) PROVE RowStep(i)
  BY <1>1, <1>9 DEF BeginReconcile, Reconcile, Keeping, Checking, RowStep
<1>10. ASSUME NEW j \in Intent, Resume(j) PROVE RowStep(i)
  BY <1>10, ResumeStep DEF RowStep
<1>11. ASSUME NEW j \in Intent, NEW l \in Leg, Venue(j, l) PROVE RowStep(i)
  BY <1>11 DEF Venue, VenueBuys, VenueSells, Keeping, RowStep
<1>12. ASSUME NEW j \in Intent, Suspend(j) PROVE RowStep(i)
  BY <1>12 DEF Suspend, Keeping, RowStep
<1>13. CASE Tick
  BY <1>1, <1>13 DEF Tick, Keeping, Waiting, RowStep
<1>14. CASE TripHalt \/ ClearHalt
  BY <1>14 DEF TripHalt, ClearHalt, Keeping, RowStep
<1>15. CASE Commit
  BY <1>15 DEF Commit, Keeping, RowStep
<1>16. ASSUME NEW j \in Intent, Abort(j) PROVE RowStep(i)
  BY <1>1, <1>16 DEF Abort, Idle, Keeping, RowStep
<1>17. ASSUME NEW sold \in AmountsSold, Crash(sold) PROVE RowStep(i)
  BY <1>17 DEF Crash, Restarting, RowStep
<1>18. ASSUME NEW j \in Intent, NEW stray \in BOOLEAN, ReadPositions(j, stray) PROVE RowStep(i)
  BY <1>18 DEF ReadPositions, Keeping, RowStep
<1> QED BY <1>2, <1>3, <1>4, <1>5, <1>6, <1>7, <1>8, <1>9, <1>10, <1>11, <1>12, <1>13, <1>14,
           <1>15, <1>16, <1>17, <1>18 DEF Next, Loop, Operator, Caller, Fault

LEMMA DurableSteps ==
  ASSUME [Next]_vars PROVE durable' = durable \/ (durable' = row /\ row' = row)
  BY ZenonT(30) DEF Next, vars, Loop, Sweep, Cycle, Operator, Decline, ApproveRefused, Approve,
         Submit, Resume, NextLeg, Complete, GiveUp, Unwind, BuyLost, NextSale, Unwound,
         SellLost, Caller, ExecuteDirectly, BeginReconcile, ReadPositions, Reconcile, Venue,
         VenueBuys, VenueSells, Suspend, Tick, TripHalt, ClearHalt, Fault, Commit, Abort, Crash

-----------------------------------------------------------------------------
(* A basket recorded FILLED fell short on no leg.                          *)

\* What reconciliation finds held in full was bought in full.
LEMMA HeldMeansInFull ==
  ASSUME TypeOK, VenueInv, NEW i \in Intent, \A l \in Leg : held[i][l] = Quantity
  PROVE  \A l \in Leg : InFull(i, l)
<1>1. Quantity \in Nat /\ Quantity > 0
  BY ExecutionConstants
<1>2. ASSUME NEW l \in Leg PROVE order[i][l].bought = Quantity
  <2>1. order[i][l].bought \in 0 .. Quantity /\ held[i][l] <= order[i][l].bought
    BY RunFacts DEF VenueInv
  <2> QED BY <1>1, <2>1
<1>3. ASSUME NEW l \in Leg PROVE order[i][l].buy = "done"
  BY <1>1, <1>2 DEF VenueInv
<1> QED BY <1>2, <1>3 DEF InFull

LEMMA VerdictHeldInFull ==
  ASSUME NEW found \in [Leg -> Int], NEW stray \in BOOLEAN,
         Verdict(found, stray) = "held_in_full"
  PROVE  \A l \in Leg : found[l] = Quantity
  BY DEF Verdict

\* A check of separate tickers that finds a basket held in full found it so.
LEMMA ReadInFull ==
  ASSUME TypeOK, VenueInv, ~SharedTickers, NEW i \in Intent, NEW stray \in BOOLEAN,
         ReadPositions(i, stray), report'[i] = "held_in_full"
  PROVE  \A l \in Leg : InFull(i, l)
<1> DEFINE found == [l \in Leg |-> Position(i, l)]
<1>1. \A l \in Leg : Position(i, l) = held[i][l] /\ held[i][l] \in Int
  BY RunFacts DEF Position
<1>2. found \in [Leg -> Int] /\ \A l \in Leg : found[l] = held[i][l]
  BY <1>1
<1>3. Verdict(found, stray) = "held_in_full"
  BY DEF ReadPositions, TypeOK
<1> HIDE DEF found
<1>4. \A l \in Leg : held[i][l] = Quantity
  BY <1>2, <1>3, VerdictHeldInFull
<1> QED BY <1>4, HeldMeansInFull

\* What a step may do to what the checks concluded.
LEMMA ReportSteps ==
  ASSUME TypeOK, [Next]_vars, NEW i \in Intent
  PROVE  \/ report'[i] \in {report[i], NoReport}
         \/ \E stray \in BOOLEAN : ReadPositions(i, stray)
<1>1. report \in [Intent -> Finding]
  BY DEF TypeOK
<1>2. ASSUME NEW j \in Intent, NEW stray \in BOOLEAN, ReadPositions(j, stray)
      PROVE  report'[i] = report[i] \/ \E s \in BOOLEAN : ReadPositions(i, s)
  BY <1>1, <1>2 DEF ReadPositions
<1>3. ASSUME NEW j \in Intent, Reconcile(j) PROVE report'[i] \in {report[i], NoReport}
  BY <1>1, <1>3 DEF Reconcile
<1>4. ASSUME NEW sold, Crash(sold) PROVE report'[i] = NoReport
  BY <1>4 DEF Crash
<1>5. \/ report' = report
      \/ \E j \in Intent, stray \in BOOLEAN : ReadPositions(j, stray)
      \/ \E j \in Intent : Reconcile(j)
      \/ \E sold \in AmountsSold : Crash(sold)
  BY ZenonT(30) DEF Next, vars, Loop, Sweep, Cycle, Operator, Decline, ApproveRefused, Approve,
         Submit, Resume, NextLeg, Complete, GiveUp, Unwind, BuyLost, NextSale, Unwound,
         SellLost, Caller, ExecuteDirectly, BeginReconcile, Venue, VenueBuys, VenueSells,
         Suspend, Tick, TripHalt, ClearHalt, Fault, Commit, Abort
<1> QED BY <1>2, <1>3, <1>4, <1>5

-----------------------------------------------------------------------------
(* What the operators on rows do to a row's state and to what it knows.    *)

LEMMA TransitionFacts ==
  ASSUME NEW r \in Row, NEW s
  PROVE  /\ Transition(r, s).state = s
         /\ Transition(r, s).leg = r.leg /\ Transition(r, s).notional = r.notional
  BY DEF Transition, Row

LEMMA UncertainKept ==
  ASSUME NEW r \in Row, NEW s PROVE Uncertain(Transition(r, s)) <=> Uncertain(r)
  BY TransitionFacts DEF Uncertain

LEMMA OpenIntentFacts ==
  ASSUME NEW n \in Nat, NEW e \in Nat
  PROVE  OpenIntent(n, e).notional = n /\ ~Uncertain(OpenIntent(n, e))
  BY DEF OpenIntent, NewRow, Uncertain, BlankLeg, NoOutcome

LEMMA ConsiderFacts ==
  ASSUME NEW rows, NEW n \in Nat, NEW e \in Nat, NEW a
  PROVE  /\ Consider(rows, n, e, a).state \in {"AWAITING_HUMAN", "RISK_REJECTED"}
         /\ ~Uncertain(Consider(rows, n, e, a))
<1> DEFINE o == OpenIntent(n, e)
           t == Transition(o, "RISK_APPROVED")
<1>1. "RISK_APPROVED" \in OrderState
  BY DEF OrderState
<1>2. o \in Row /\ t \in Row
  BY <1>1, OpenIntentType, TransitionType
<1>3. ~Uncertain(o) /\ ~Uncertain(t)
  BY <1>2, OpenIntentFacts, UncertainKept
<1> HIDE DEF o, t
<1>4. /\ Transition(t, "AWAITING_HUMAN").state = "AWAITING_HUMAN"
      /\ ~Uncertain(Transition(t, "AWAITING_HUMAN"))
      /\ Transition(o, "RISK_REJECTED").state = "RISK_REJECTED"
      /\ ~Uncertain(Transition(o, "RISK_REJECTED"))
  BY <1>2, <1>3, TransitionFacts, UncertainKept
<1> QED BY <1>4 DEF Consider, o, t

LEMMA OpenedFacts ==
  ASSUME NEW r \in Row, NEW n \in Nat, NEW e \in Nat
  PROVE  /\ Opened(r, n, e).state = "SUBMITTING"
         /\ Opened(r, n, e).notional = IF r.state = NoRow THEN n ELSE r.notional
         /\ Uncertain(Opened(r, n, e)) => Uncertain(r)
<1> DEFINE o == OpenIntent(n, e)
           t == Transition(o, "RISK_APPROVED")
<1>1. "RISK_APPROVED" \in OrderState
  BY DEF OrderState
<1>2. o \in Row /\ t \in Row
  BY <1>1, OpenIntentType, TransitionType
<1>3. ~Uncertain(t) /\ t.notional = n
  BY <1>2, OpenIntentFacts, UncertainKept, TransitionFacts
<1> HIDE DEF o
<1> HIDE DEF t
<1>4. /\ Transition(t, "SUBMITTING").state = "SUBMITTING"
      /\ Transition(t, "SUBMITTING").notional = n
      /\ ~Uncertain(Transition(t, "SUBMITTING"))
  BY <1>2, <1>3, TransitionFacts, UncertainKept
<1>5. /\ Transition(r, "SUBMITTING").state = "SUBMITTING"
      /\ Transition(r, "SUBMITTING").notional = r.notional
      /\ Uncertain(Transition(r, "SUBMITTING")) => Uncertain(r)
  BY TransitionFacts, UncertainKept
<1> QED BY <1>4, <1>5 DEF Opened, o, t

LEMMA RecordFacts ==
  ASSUME NEW r \in Row, NEW l \in Leg, NEW o \in Outcome, NEW f, NEW c
  PROVE  /\ RecordBuy(r, l, o, f, c).state = r.state
         /\ RecordBuy(r, l, o, f, c).notional = r.notional
         /\ RecordSell(r, l, o, f, c).state = r.state
         /\ RecordSell(r, l, o, f, c).notional = r.notional
         /\ ~Uncertain(r) /\ o # "unknown" => ~Uncertain(RecordBuy(r, l, o, f, c))
         /\ ~Uncertain(r) /\ o # "unknown" => ~Uncertain(RecordSell(r, l, o, f, c))
<1>1. r.leg \in [Leg -> LegRow]
  BY DEF Row
<1>2. \A m \in Leg : r.leg[m] \in LegRow
  BY <1>1
<1>3. /\ RecordBuy(r, l, o, f, c).leg =
           [r.leg EXCEPT ![l] = [r.leg[l] EXCEPT !.buy = o, !.bought = f]]
      /\ RecordSell(r, l, o, f, c).leg =
           [r.leg EXCEPT ![l] = [r.leg[l] EXCEPT !.sell = o, !.sold = f]]
  BY <1>1 DEF RecordBuy, RecordSell, Row
<1>4. /\ [r.leg[l] EXCEPT !.buy = o, !.bought = f].buy = o
      /\ [r.leg[l] EXCEPT !.buy = o, !.bought = f].sell = r.leg[l].sell
      /\ [r.leg[l] EXCEPT !.sell = o, !.sold = f].buy = r.leg[l].buy
      /\ [r.leg[l] EXCEPT !.sell = o, !.sold = f].sell = o
  BY <1>2 DEF LegRow
<1>5. /\ RecordBuy(r, l, o, f, c).state = r.state
      /\ RecordBuy(r, l, o, f, c).notional = r.notional
      /\ RecordSell(r, l, o, f, c).state = r.state
      /\ RecordSell(r, l, o, f, c).notional = r.notional
  BY DEF RecordBuy, RecordSell, Row
<1>6. ASSUME ~Uncertain(r), o # "unknown", NEW m \in Leg
      PROVE  /\ RecordBuy(r, l, o, f, c).leg[m].buy # "unknown"
             /\ RecordBuy(r, l, o, f, c).leg[m].sell # "unknown"
             /\ RecordSell(r, l, o, f, c).leg[m].buy # "unknown"
             /\ RecordSell(r, l, o, f, c).leg[m].sell # "unknown"
  <2>1. r.leg[m].buy # "unknown" /\ r.leg[m].sell # "unknown"
    BY <1>6 DEF Uncertain
  <2>2. CASE m = l
    BY <1>1, <1>3, <1>4, <1>6, <2>1, <2>2
  <2>3. CASE m # l
    BY <1>1, <1>3, <2>1, <2>3
  <2> QED BY <2>2, <2>3
<1> QED BY <1>5, <1>6 DEF Uncertain

LEMMA AnswerFacts ==
  ASSUME TypeOK, NEW i \in Intent
  PROVE  /\ Bought(i).state = row[i].state /\ Bought(i).notional = row[i].notional
         /\ Sold(i).state = row[i].state /\ Sold(i).notional = row[i].notional
         /\ ~Uncertain(row[i]) => ~Uncertain(Bought(i)) /\ ~Uncertain(Sold(i))
<1> DEFINE l == run[i].leg
           b == BuyOutcome(order[i][l].bought)
           s == SellOutcome(order[i][l].sale, run[i].got[l])
<1>1. /\ b \in Outcome /\ b # "unknown"
      /\ s \in Outcome /\ s # "unknown"
  BY DEF BuyOutcome, SellOutcome, Outcome
<1>2. row[i] \in Row /\ l \in Leg
  BY RunFacts
<1>3. /\ Bought(i) = RecordBuy(row[i], l, b, order[i][l].bought,
                               order[i][l].bought * run[i].price)
      /\ Sold(i) = RecordSell(row[i], l, s, order[i][l].sale,
                              order[i][l].sale * run[i].price)
  BY DEF Bought, Sold
<1> HIDE DEF l, b, s
<1> QED BY <1>1, <1>2, <1>3, RecordFacts

-----------------------------------------------------------------------------
(* Every step keeps the rows' side.                                        *)

\* The state a step of an acquisition, or of reconciliation, leaves behind.
LEMMA EndingFacts ==
  ASSUME TypeOK, NEW i \in Intent, Ending(i)
  PROVE  \/ row'[i].state = "FILLED" /\ \A l \in Leg : InFull(i, l)
         \/ row'[i].state = "FAILED"
         \/ row'[i].state = "UNKNOWN"
<1>1. Bought(i) \in Row /\ Sold(i) \in Row
  BY BoughtType, SoldType
<1>2. /\ RecordBuy(row[i], run[i].leg, "unknown", 0, 0) \in Row
      /\ RecordSell(row[i], run[i].leg, "unknown", 0, 0) \in Row
  BY RunFacts, ZeroQuantity, RecordBuyType, RecordSellType DEF Outcome
<1> QED BY <1>1, <1>2, TransitionFacts DEF Ending

LEMMA CheckingFacts ==
  ASSUME TypeOK, NEW i \in Intent, Checking(i)
  PROVE  /\ row[i].state \in {"UNKNOWN", "RECONCILING"}
         /\ row'[i].state \in {"RECONCILING", "FILLED", "FAILED", "INCIDENT"}
         /\ row'[i].state = "FILLED" => report[i] = "held_in_full"
<1>1. row[i] \in Row
  BY RunFacts
<1> QED BY <1>1, TransitionFacts DEF Checking, NextState

LEMMA FilledNext ==
  ASSUME TypeOK, VenueInv, RunInv, FilledInv, [Next]_vars PROVE FilledInv'
<1> SUFFICES ASSUME ~SharedTickers, NEW i \in Intent,
                    Filled(i)'
             PROVE  \A l \in Leg : InFull(i, l)'
  BY DEF FilledInv
<1> SUFFICES \A l \in Leg : InFull(i, l)
  BY InFullStays
<1>2. CASE Filled(i)
  BY <1>2 DEF FilledInv
<1>3. CASE ~Filled(i) /\ report'[i] = "held_in_full"
  <2>1. PICK stray \in BOOLEAN : ReadPositions(i, stray)
    BY <1>3, ReportSteps DEF Filled, NoReport
  <2> QED BY <1>3, <2>1, ReadInFull
<1>4. CASE ~Filled(i) /\ report'[i] # "held_in_full"
  <2>1. row[i].state # "FILLED" /\ row'[i].state = "FILLED"
    BY <1>4, DurableSteps DEF Filled
  <2>2. row[i] \in Row /\ RowStep(i)
    BY RunFacts, RowSteps
  <2>3. ~Keeping(i) /\ ~Restarting(i)
    BY <1>4, <2>1 DEF Keeping, Restarting, Filled
  <2>4. ~Leaving(i)
    BY <2>1, <2>2, TransitionFacts DEF Leaving
  <2>5. ~Waiting(i)
    BY <2>1, <2>2 DEF Waiting, Row
  <2>6. ASSUME Proposing(i) PROVE FALSE
    <3>1. PICK p \in Prices, e \in Edges, a \in QuoteAges :
            row'[i] = Consider(ExpireStale(row), Notional(p), e, a)
      BY <2>6 DEF Proposing
    <3>2. Notional(p) \in Nat /\ e \in Nat
      BY NotionalType, ExecutionConstants
    <3> QED BY <2>1, <3>1, <3>2, ConsiderFacts
  <2>7. ASSUME Submitting(i) PROVE FALSE
    <3>1. PICK p \in Prices, e \in Nat : row'[i] = Opened(row[i], Notional(p), e)
      BY <2>7 DEF Submitting, TypeOK
    <3> QED BY <2>1, <2>2, <3>1, NotionalType, OpenedFacts
  <2>8. ~Working(i)
    BY <2>1, AnswerFacts DEF Working
  <2>9. CASE Ending(i)
    BY <2>1, <2>9, EndingFacts
  <2>10. ~Checking(i)
    BY <1>4, <2>1, CheckingFacts DEF Filled
  <2> QED BY <2>2, <2>3, <2>4, <2>5, <2>6, <2>7, <2>8, <2>9, <2>10 DEF RowStep
<1> QED BY <1>2, <1>3, <1>4

LEMMA UncertainNext ==
  ASSUME TypeOK, RunInv, UncertainInv, [Next]_vars PROVE UncertainInv'
<1> SUFFICES ASSUME NEW i \in Intent
             PROVE  /\ Uncertain(row'[i]) => row'[i].state \in UncertainState
                    /\ Uncertain(durable'[i]) => durable'[i].state \in UncertainState
                    /\ run'[i].pc # "idle" => row'[i].state = "SUBMITTING"
                    /\ Submitted(durable'[i]) => Submitted(row'[i])
  BY DEF UncertainInv
<1> DEFINE Goal == /\ Uncertain(row'[i]) => row'[i].state \in UncertainState
                   /\ run'[i].pc # "idle" => row'[i].state = "SUBMITTING"
                   /\ Submitted(row[i]) => Submitted(row'[i]) \/ row'[i] = durable'[i]
<1>1. /\ row[i] \in Row
      /\ Uncertain(row[i]) => row[i].state \in UncertainState
      /\ run[i].pc # "idle" => row[i].state = "SUBMITTING" /\ ~Uncertain(row[i])
  BY RunFacts DEF UncertainInv, UncertainState
<1>2. ASSUME Keeping(i) PROVE Goal
  BY <1>1, <1>2 DEF Keeping, Idle
<1>3. ASSUME Leaving(i) PROVE Goal
  BY <1>1, <1>3, TransitionFacts, UncertainKept DEF Leaving, UncertainState, Submitted
<1>4. ASSUME Waiting(i) PROVE Goal
  <2>1. row'[i].state = row[i].state /\ row'[i].leg = row[i].leg
    BY <1>1, <1>4 DEF Waiting, Row
  <2> QED BY <1>1, <1>4, <2>1 DEF Waiting, Uncertain, Submitted
<1>5. ASSUME Proposing(i) PROVE Goal
  <2>1. PICK p \in Prices, e \in Edges, a \in QuoteAges :
          row'[i] = Consider(ExpireStale(row), Notional(p), e, a)
    BY <1>5 DEF Proposing
  <2>2. Notional(p) \in Nat /\ e \in Nat
    BY NotionalType, ExecutionConstants
  <2>3. ~Uncertain(row'[i])
    BY <2>1, <2>2, ConsiderFacts
  <2> QED BY <1>1, <1>5, <2>3 DEF Proposing, Submitted, NoRow
<1>6. ASSUME Submitting(i) PROVE Goal
  <2>1. PICK p \in Prices, e \in Nat : row'[i] = Opened(row[i], Notional(p), e)
    BY <1>6 DEF Submitting, TypeOK
  <2>2. /\ row'[i].state = "SUBMITTING"
        /\ Uncertain(row'[i]) => Uncertain(row[i])
    BY <1>1, <2>1, NotionalType, OpenedFacts
  <2> QED BY <1>1, <1>6, <2>2 DEF Submitting, UncertainState, Submitted, NoRow
<1>7. ASSUME Working(i) PROVE Goal
  BY <1>1, <1>7, AnswerFacts DEF Working, Submitted
<1>8. ASSUME Ending(i) PROVE Goal
  <2>1. row'[i].state \in {"FILLED", "FAILED", "UNKNOWN"} /\ run'[i].pc = "idle"
    BY <1>8, EndingFacts DEF Ending, Idle
  <2> QED BY <2>1 DEF UncertainState, Submitted, NoRow
<1>9. ASSUME Checking(i) PROVE Goal
  <2>1. /\ row[i].state \in {"UNKNOWN", "RECONCILING"}
        /\ row'[i].state \in {"RECONCILING", "FILLED", "FAILED", "INCIDENT"}
        /\ run'[i].pc = run[i].pc
    BY <1>9, CheckingFacts DEF Checking
  <2> QED BY <1>1, <2>1 DEF UncertainState, Submitted, NoRow
<1>10. ASSUME Restarting(i) PROVE Goal
  BY <1>10 DEF Restarting, UncertainInv, Idle
<1>11. Goal
  BY <1>2, <1>3, <1>4, <1>5, <1>6, <1>7, <1>8, <1>9, <1>10, RowSteps DEF RowStep
<1> QED BY <1>11, DurableSteps DEF UncertainInv

-----------------------------------------------------------------------------
(* The invariant, and what follows from it.                                *)

LEMMA InvInit == Init => IInv
<1> SUFFICES ASSUME Init PROVE IInv
  OBVIOUS
<1>1. \A i \in Intent, l \in Leg :
        order[i][l].buy = "none" /\ order[i][l].bought = 0 /\ order[i][l].sell = "none"
        /\ held[i][l] = 0
  BY DEF Init, NoOrder
<1>2. VenueInv
  BY <1>1 DEF VenueInv
<1>3. \A i \in Intent : /\ run[i].pc = "idle" /\ report[i] = NoReport
                        /\ row[i] = Absent /\ durable[i] = Absent
  BY DEF Init, Idle
<1>4. Absent.state = NoRow /\ ~Uncertain(Absent)
  BY DEF Absent, NewRow, Uncertain, BlankLeg, NoOutcome
<1>5. RunInv /\ FilledInv /\ UncertainInv
  BY <1>3, <1>4 DEF RunInv, FilledInv, Filled, UncertainInv, NoRow, NoReport
<1> QED BY <1>2, <1>5, TypeInit DEF IInv

LEMMA InvNext == IInv /\ [Next]_vars => IInv'
  BY TypeNext, VenueNext, RunNext, FilledNext, UncertainNext DEF IInv

THEOREM Invariance == Spec => []IInv
  BY InvInit, InvNext, PTL DEF Spec

\* What is recorded FILLED is held in full, on every leg, through late answers, lost
\* answers, crashes and reconciliation: no leg fell short, so nothing was ever offered
\* for sale.
THEOREM FilledBasketsAreHeld == Spec => []FilledIsHeld
<1>1. IInv => FilledIsHeld
  <2> SUFFICES ASSUME IInv, ~SharedTickers, NEW i \in Intent, row[i].state = "FILLED",
                      NEW l \in Leg
               PROVE  held[i][l] = Quantity
    BY DEF FilledIsHeld
  <2>1. \A m \in Leg : InFull(i, m)
    BY DEF IInv, FilledInv, Filled
  <2>2. ~Short(i)
    BY <2>1, ExecutionConstants DEF Short, InFull
  <2> QED BY <2>1, <2>2 DEF IInv, VenueInv, InFull
<1> QED BY <1>1, Invariance, PTL

\* A lost answer is never forgotten, and stops the acquisition it was lost by.
THEOREM LostAnswersStopTheIntent == Spec => []UncertaintyStopsTheIntent
<1>1. IInv => UncertaintyStopsTheIntent
  BY DEF IInv, UncertainInv, UncertaintyStopsTheIntent, UncertainState
<1> QED BY <1>1, Invariance, PTL

-----------------------------------------------------------------------------
(* What no step does.                                                      *)

\* The state of the row, whatever its step was.
LEMMA StateSteps ==
  ASSUME IInv, [Next]_vars, NEW i \in Intent
  PROVE  \/ row'[i].state = row[i].state
         \/ /\ row[i].state = "AWAITING_HUMAN"
            /\ row'[i].state \in {"EXPIRED", "REJECTED"}
         \/ /\ row[i].state = NoRow /\ MayTrade
            /\ row'[i].state \in {"AWAITING_HUMAN", "RISK_REJECTED"}
         \/ Submitting(i) /\ row'[i].state = "SUBMITTING"
         \/ row[i].state = "SUBMITTING" /\ row'[i].state \in {"FILLED", "FAILED", "UNKNOWN"}
         \/ /\ row[i].state \in {"UNKNOWN", "RECONCILING"}
            /\ row'[i].state \in {"RECONCILING", "FILLED", "FAILED", "INCIDENT"}
         \/ Restarting(i)
<1>1. /\ TypeOK /\ RunInv /\ row[i] \in Row
      /\ run[i].pc # "idle" => row[i].state = "SUBMITTING"
  BY RunFacts DEF IInv, UncertainInv
<1>2. CASE Keeping(i)
  BY <1>2 DEF Keeping
<1>3. CASE Leaving(i)
  BY <1>1, <1>3, TransitionFacts DEF Leaving
<1>4. CASE Waiting(i)
  BY <1>1, <1>4 DEF Waiting, Row
<1>5. CASE Proposing(i)
  <2>1. PICK p \in Prices, e \in Edges, a \in QuoteAges :
          row'[i] = Consider(ExpireStale(row), Notional(p), e, a)
    BY <1>5 DEF Proposing
  <2>2. Notional(p) \in Nat /\ e \in Nat
    BY NotionalType, ExecutionConstants
  <2>3. row'[i].state \in {"AWAITING_HUMAN", "RISK_REJECTED"}
    BY <2>1, <2>2, ConsiderFacts
  <2>4. row[i].state = NoRow /\ halt = NotHalted
    BY <1>5 DEF Proposing, MayTrade
  <2> QED BY <2>3, <2>4 DEF MayTrade
<1>6. CASE Submitting(i)
  <2>1. PICK p \in Prices, e \in Nat : row'[i] = Opened(row[i], Notional(p), e)
    BY <1>1, <1>6 DEF Submitting, TypeOK
  <2> QED BY <1>1, <1>6, <2>1, NotionalType, OpenedFacts
<1>7. CASE Working(i)
  BY <1>1, <1>7, AnswerFacts DEF Working
<1>8. CASE Ending(i)
  BY <1>1, <1>8, EndingFacts DEF Ending
<1>9. CASE Checking(i)
  BY <1>1, <1>9, CheckingFacts
<1> QED BY <1>1, <1>2, <1>3, <1>4, <1>5, <1>6, <1>7, <1>8, <1>9, RowSteps DEF RowStep

\* The gate refuses while the snapshot holds an UNKNOWN intent.
LEMMA UnknownRefuses ==
  ASSUME NEW j \in Intent, row[j].state = "UNKNOWN", NEW n, NEW e, NEW a
  PROVE  ~Allowed(n, e, a, Exposure(row, FALSE))
<1> DEFINE o == [ intent |-> j, state |-> row[j].state, committed |-> row[j].notional,
                  unmatched |-> Unmatched(row[j]), reserved |-> Pending(row[j], FALSE) ]
<1>1. Reported(row[j], FALSE)
  BY DEF Reported, IsExposed
<1>2. o \in Exposure(row, FALSE).intents
  BY <1>1 DEF Exposure
<1>3. HaltsStrategy(o.state)
  BY DEF HaltsStrategy
<1> QED BY <1>2, <1>3 DEF Allowed, HaltingIntents

\* Nothing starts to submit while an intent is UNKNOWN.
THEOREM UnknownStopsSubmission == Spec => UnknownBlocksSubmission
<1> DEFINE Step == (\E i \in Intent : row[i].state = "UNKNOWN")
                     => \A i \in Intent : ~BecomesSubmitted(i)
<1>1. IInv /\ [Next]_vars => Step
  <2> SUFFICES ASSUME IInv, [Next]_vars, NEW j \in Intent, row[j].state = "UNKNOWN",
                      NEW i \in Intent, ~Submitted(row[i]), Submitted(row'[i])
               PROVE  FALSE
    BY DEF BecomesSubmitted
  <2>1. ~Submitting(i)
    BY UnknownRefuses DEF Submitting
  <2>2. ~Restarting(i)
    <3> SUFFICES ASSUME Restarting(i) PROVE FALSE
      OBVIOUS
    <3>1. row'[i] = durable[i]
      BY DEF Restarting
    <3>2. Submitted(durable[i])
      BY <3>1
    <3> QED BY <3>2 DEF IInv, UncertainInv
  <2> QED BY <2>1, <2>2, StateSteps DEF Submitted, NoRow
<1>2. IInv /\ [Next]_vars => [Step]_vars
  BY <1>1
<1>3. Spec => [][Step]_vars
  BY <1>2, Invariance, PTL DEF Spec
<1> QED BY <1>3 DEF UnknownBlocksSubmission

LEMMA TerminalIsOver ==
  ASSUME NEW s, IsTerminal(s)
  PROVE  s \notin {"AWAITING_HUMAN", "SUBMITTING", "UNKNOWN", "RECONCILING"}
  BY DEF IsTerminal, CanTransition, Transitions, OrderState

\* An intent that ended is never moved, resumed or approved again, except by a crash.
THEOREM EndedIsFinal == Spec => EndedStaysEnded
<1> DEFINE Step == \A i \in Intent :
                     row[i].state \in OrderState /\ IsTerminal(row[i].state) =>
                       row'[i] = row[i] \/ faults' # faults
<1>1. IInv /\ [Next]_vars => Step
  <2> SUFFICES ASSUME IInv, [Next]_vars, NEW i \in Intent,
                      row[i].state \in OrderState, IsTerminal(row[i].state)
               PROVE  row'[i] = row[i] \/ faults' # faults
    OBVIOUS
  <2>1. row[i].state \notin {NoRow, "AWAITING_HUMAN", "SUBMITTING", "UNKNOWN", "RECONCILING"}
    BY TerminalIsOver DEF OrderState, NoRow
  <2>2. /\ TypeOK /\ RunInv /\ faults \in Nat
        /\ run[i].pc # "idle" => row[i].state = "SUBMITTING"
    BY DEF IInv, UncertainInv, TypeOK
  <2>3. RowStep(i)
    BY <2>2, RowSteps
  <2>4. Keeping(i) \/ Restarting(i)
    BY <2>1, <2>2, <2>3
       DEF RowStep, Leaving, Waiting, Proposing, Submitting, Working, Ending, Checking
  <2> QED BY <2>2, <2>4 DEF Keeping, Restarting
<1>2. IInv /\ [Next]_vars => [Step]_vars
  BY <1>1
<1>3. Spec => [][Step]_vars
  BY <1>2, Invariance, PTL DEF Spec
<1> QED BY <1>3 DEF EndedStaysEnded

-----------------------------------------------------------------------------
(* The caps of the risk gate hold of everything open, for any number of    *)
(* intents submitted and suspended at once.                                *)

(* What a row weighs in the snapshot the executor is gated on.             *)

Committed(r) == IF IsExposed(r.state) THEN r.notional ELSE 0
UnmatchedPart(r) == IF IsExposed(r.state) THEN Unmatched(r) ELSE 0

CommittedOf(rows) == [i \in Intent |-> Committed(rows[i])]
UnmatchedOf(rows) == [i \in Intent |-> UnmatchedPart(rows[i])]

LEMMA WeightTypes ==
  ASSUME NEW rows \in [Intent -> Row]
  PROVE  /\ CommittedOf(rows) \in [Intent -> Nat]
         /\ UnmatchedOf(rows) \in [Intent -> Nat]
<1>1. \A i \in Intent : Committed(rows[i]) \in Nat /\ UnmatchedPart(rows[i]) \in Nat
  BY DEF Row, Committed, UnmatchedPart, Unmatched
<1> QED BY <1>1 DEF CommittedOf, UnmatchedOf

LEMMA IntentsFinite == IsFiniteSet(Intent)
  BY ExecutionConstants

\* How the store reports one row.
Report(rows, i) ==
  [ intent |-> i, state |-> rows[i].state, committed |-> rows[i].notional,
    unmatched |-> Unmatched(rows[i]), reserved |-> Pending(rows[i], FALSE) ]

LEMMA OpenReports ==
  ASSUME NEW rows, NEW o
  PROVE  o \in OpenIntents(Capital(rows)) <=>
           \E i \in Intent : IsExposed(rows[i].state) /\ o = Report(rows, i)
  BY DEF OpenIntents, Capital, Exposure, Reported, Pending, Report

LEMMA CommittedTotal ==
  ASSUME NEW rows PROVE TotalCommitted(Capital(rows)) = Total(CommittedOf(rows))
<1> DEFINE units == UNION {{o.intent} \X (1 .. o.committed) : o \in OpenIntents(Capital(rows))}
<1>1. ASSUME NEW x \in units PROVE x \in Units(CommittedOf(rows))
  <2>1. PICK o \in OpenIntents(Capital(rows)) : x \in {o.intent} \X (1 .. o.committed)
    OBVIOUS
  <2>2. PICK i \in Intent : IsExposed(rows[i].state) /\ o = Report(rows, i)
    BY OpenReports
  <2>3. x \in {i} \X (1 .. CommittedOf(rows)[i])
    BY <2>1, <2>2 DEF Report, CommittedOf, Committed
  <2> QED BY <2>3 DEF Units, CommittedOf
<1>2. ASSUME NEW x \in Units(CommittedOf(rows)) PROVE x \in units
  <2>1. PICK i \in Intent : x \in {i} \X (1 .. CommittedOf(rows)[i])
    BY DEF Units, CommittedOf
  <2>2. IsExposed(rows[i].state) /\ CommittedOf(rows)[i] = rows[i].notional
    BY <2>1 DEF CommittedOf, Committed
  <2>3. Report(rows, i) \in OpenIntents(Capital(rows))
    BY <2>2, OpenReports
  <2>4. x \in {Report(rows, i).intent} \X (1 .. Report(rows, i).committed)
    BY <2>1, <2>2 DEF Report
  <2> QED BY <2>3, <2>4
<1> QED BY <1>1, <1>2 DEF TotalCommitted, Total

LEMMA UnmatchedTotal ==
  ASSUME NEW rows PROVE TotalUnmatched(Capital(rows)) = Total(UnmatchedOf(rows))
<1> DEFINE units == UNION {{o.intent} \X (1 .. o.unmatched) : o \in OpenIntents(Capital(rows))}
<1>1. ASSUME NEW x \in units PROVE x \in Units(UnmatchedOf(rows))
  <2>1. PICK o \in OpenIntents(Capital(rows)) : x \in {o.intent} \X (1 .. o.unmatched)
    OBVIOUS
  <2>2. PICK i \in Intent : IsExposed(rows[i].state) /\ o = Report(rows, i)
    BY OpenReports
  <2>3. x \in {i} \X (1 .. UnmatchedOf(rows)[i])
    BY <2>1, <2>2 DEF Report, UnmatchedOf, UnmatchedPart
  <2> QED BY <2>3 DEF Units, UnmatchedOf
<1>2. ASSUME NEW x \in Units(UnmatchedOf(rows)) PROVE x \in units
  <2>1. PICK i \in Intent : x \in {i} \X (1 .. UnmatchedOf(rows)[i])
    BY DEF Units, UnmatchedOf
  <2>2. IsExposed(rows[i].state) /\ UnmatchedOf(rows)[i] = Unmatched(rows[i])
    BY <2>1 DEF UnmatchedOf, UnmatchedPart
  <2>3. Report(rows, i) \in OpenIntents(Capital(rows))
    BY <2>2, OpenReports
  <2>4. x \in {Report(rows, i).intent} \X (1 .. Report(rows, i).unmatched)
    BY <2>1, <2>2 DEF Report
  <2> QED BY <2>3, <2>4
<1> QED BY <1>1, <1>2 DEF TotalUnmatched, Total

-----------------------------------------------------------------------------
(* No step but a submission makes a row weigh more.                        *)

NotGrowing(i) ==
  /\ Committed(row'[i]) <= Committed(row[i])
  /\ UnmatchedPart(row'[i]) <= UnmatchedPart(row[i])

\* A row in one of these states is not part of what is open.
LEMMA ClosedRows ==
  ASSUME NEW r,
         r.state \in {NoRow, "PROPOSED", "RISK_REJECTED", "RISK_APPROVED", "AWAITING_HUMAN",
                      "REJECTED", "EXPIRED", "FAILED", "INCIDENT"}
  PROVE  Committed(r) = 0 /\ UnmatchedPart(r) = 0
  BY DEF Committed, UnmatchedPart, IsExposed, NoRow

LEMMA OpenRows ==
  ASSUME NEW r, IsExposed(r.state)
  PROVE  Committed(r) = r.notional /\ UnmatchedPart(r) = Unmatched(r)
  BY DEF Committed, UnmatchedPart

LEMMA EndingNotional ==
  ASSUME TypeOK, NEW i \in Intent, Ending(i)
  PROVE  row'[i].notional = row[i].notional
<1> DEFINE b == RecordBuy(row[i], run[i].leg, "unknown", 0, 0)
           s == RecordSell(row[i], run[i].leg, "unknown", 0, 0)
<1>1. row[i] \in Row /\ run[i].leg \in Leg /\ "unknown" \in Outcome
  BY RunFacts DEF Outcome
<1>2. Bought(i) \in Row /\ Sold(i) \in Row /\ b \in Row /\ s \in Row
  BY <1>1, BoughtType, SoldType, ZeroQuantity, RecordBuyType, RecordSellType
<1>3. b.notional = row[i].notional /\ s.notional = row[i].notional
  BY <1>1, RecordFacts
<1>4. Bought(i).notional = row[i].notional /\ Sold(i).notional = row[i].notional
  BY AnswerFacts
<1> HIDE DEF b, s
<1> QED BY <1>2, <1>3, <1>4, TransitionFacts DEF Ending, b, s

LEMMA CheckingNotional ==
  ASSUME TypeOK, NEW i \in Intent, Checking(i)
  PROVE  row'[i].notional = row[i].notional
<1>1. row[i] \in Row
  BY RunFacts
<1> QED BY <1>1, TransitionFacts DEF Checking

LEMMA RowsDoNotGrow ==
  ASSUME IInv, [Next]_vars, NEW i \in Intent
  PROVE  NotGrowing(i) \/ Submitting(i) \/ Restarting(i)
<1>1. /\ TypeOK /\ RunInv /\ row[i] \in Row /\ row[i].notional \in Nat
      /\ run[i].pc # "idle" => row[i].state = "SUBMITTING"
  BY RunFacts DEF IInv, UncertainInv, Row
<1>2. Committed(row[i]) \in Nat /\ UnmatchedPart(row[i]) \in Nat
  BY <1>1 DEF Committed, UnmatchedPart, Unmatched
<1>3. CASE Keeping(i)
  BY <1>2, <1>3 DEF Keeping, NotGrowing
<1>4. ASSUME row'[i].state \in {"AWAITING_HUMAN", "RISK_REJECTED", "EXPIRED", "REJECTED",
                                "FAILED", "INCIDENT"}
      PROVE  NotGrowing(i)
  BY <1>2, <1>4, ClosedRows DEF NotGrowing
<1>5. CASE Leaving(i)
  BY <1>1, <1>4, <1>5, TransitionFacts DEF Leaving
<1>6. CASE Waiting(i)
  <2>1. row'[i].state = row[i].state
    BY <1>1, <1>6 DEF Waiting, Row
  <2> QED BY <1>4, <1>6, <2>1 DEF Waiting
<1>7. CASE Proposing(i)
  <2>1. PICK p \in Prices, e \in Edges, a \in QuoteAges :
          row'[i] = Consider(ExpireStale(row), Notional(p), e, a)
    BY <1>7 DEF Proposing
  <2>2. Notional(p) \in Nat /\ e \in Nat
    BY NotionalType, ExecutionConstants
  <2> QED BY <1>4, <2>1, <2>2, ConsiderFacts
\* The row was exposed and unmatched, and keeps its notional.
<1>8. ASSUME row[i].state \in {"SUBMITTING", "UNKNOWN", "RECONCILING"},
             row'[i].notional = row[i].notional,
             row'[i].state \in {"SUBMITTING", "UNKNOWN", "RECONCILING", "FILLED"}
      PROVE  NotGrowing(i)
  <2>1. IsExposed(row[i].state) /\ IsExposed(row'[i].state)
    BY <1>8 DEF IsExposed
  <2>2. Unmatched(row[i]) = row[i].notional /\ Unmatched(row'[i]) \in {0, row[i].notional}
    BY <1>8 DEF Unmatched
  <2> QED BY <1>1, <1>8, <2>1, <2>2, OpenRows DEF NotGrowing
<1>9. CASE Working(i)
  <2>1. row'[i].state = row[i].state /\ row'[i].notional = row[i].notional
    BY <1>1, <1>9, AnswerFacts DEF Working
  <2> QED BY <1>1, <1>8, <1>9, <2>1 DEF Working
<1>10. CASE Ending(i)
  <2>1. row[i].state = "SUBMITTING" /\ row'[i].state \in {"FILLED", "FAILED", "UNKNOWN"}
    BY <1>1, <1>10, EndingFacts DEF Ending
  <2> QED BY <1>1, <1>4, <1>8, <1>10, <2>1, EndingNotional
<1>11. CASE Checking(i)
  BY <1>1, <1>4, <1>8, <1>11, CheckingFacts, CheckingNotional
<1>12. RowStep(i)
  BY <1>1, RowSteps
<1> QED BY <1>3, <1>5, <1>6, <1>7, <1>9, <1>10, <1>11, <1>12 DEF RowStep

\* What a submission adds is what the gate allowed.
LEMMA SubmittedWeight ==
  ASSUME IInv, SameLegs, NEW i \in Intent, NEW p \in Prices, NEW e \in Nat,
         row[i].state \in {NoRow, "AWAITING_HUMAN"},
         row' = [row EXCEPT ![i] = Opened(row[i], Notional(p), e)],
         row[i].state = "AWAITING_HUMAN" => ApprovedPrice(i, p)
  PROVE  /\ Committed(row'[i]) = Notional(p) /\ UnmatchedPart(row'[i]) = Notional(p)
         /\ \A j \in Intent \ {i} : row'[j] = row[j]
<1>1. row \in [Intent -> Row] /\ Notional(p) \in Nat
  BY NotionalType DEF IInv, TypeOK
<1>2. row'[i] = Opened(row[i], Notional(p), e) /\ \A j \in Intent \ {i} : row'[j] = row[j]
  BY <1>1
<1>3. /\ row'[i].state = "SUBMITTING"
      /\ row'[i].notional = IF row[i].state = NoRow THEN Notional(p) ELSE row[i].notional
  BY <1>1, <1>2, OpenedFacts
<1>4. row'[i].notional = Notional(p)
  BY <1>3 DEF ApprovedPrice
<1>5. IsExposed(row'[i].state) /\ Unmatched(row'[i]) = Notional(p)
  BY <1>3, <1>4 DEF IsExposed, Unmatched
<1> QED BY <1>2, <1>4, <1>5, OpenRows

-----------------------------------------------------------------------------
(* The caps, of the rows and of what a crash would bring back.             *)

Fits(rows) ==
  /\ Total(CommittedOf(rows)) <= MaxTotalExposure
  /\ Total(UnmatchedOf(rows)) <= MaxUnmatchedExposure

CapsInv == SameLegs => Fits(row) /\ Fits(durable)

LEMMA CapsInit == Init => CapsInv
<1> SUFFICES ASSUME Init PROVE Fits(row)
  BY DEF Init, CapsInv
<1>1. \A i \in Intent : Committed(row[i]) = 0 /\ UnmatchedPart(row[i]) = 0
  BY ClosedRows DEF Init, Absent, NewRow
<1>2. Units(CommittedOf(row)) = {} /\ Units(UnmatchedOf(row)) = {}
  BY <1>1 DEF Units, CommittedOf, UnmatchedOf
<1> QED BY <1>2, FS_EmptySet, RiskLimitsValid DEF RiskLimits, Fits, Total

LEMMA ShrinkingFits ==
  ASSUME IInv, IInv', Fits(row), \A i \in Intent : NotGrowing(i)
  PROVE  Fits(row')
<1>1. /\ CommittedOf(row) \in [Intent -> Nat] /\ CommittedOf(row') \in [Intent -> Nat]
      /\ UnmatchedOf(row) \in [Intent -> Nat] /\ UnmatchedOf(row') \in [Intent -> Nat]
  BY WeightTypes DEF IInv, TypeOK
<1>2. \A i \in Intent : /\ CommittedOf(row')[i] <= CommittedOf(row)[i]
                        /\ UnmatchedOf(row')[i] <= UnmatchedOf(row)[i]
  BY DEF NotGrowing, CommittedOf, UnmatchedOf
<1>3. /\ Total(CommittedOf(row')) <= Total(CommittedOf(row))
      /\ Total(UnmatchedOf(row')) <= Total(UnmatchedOf(row))
  BY <1>1, <1>2, TotalMonotone, IntentsFinite
<1>4. /\ Total(CommittedOf(row)) \in Nat /\ Total(CommittedOf(row')) \in Nat
      /\ Total(UnmatchedOf(row)) \in Nat /\ Total(UnmatchedOf(row')) \in Nat
  BY <1>1, TotalType, IntentsFinite
<1> QED BY <1>3, <1>4, RiskLimitsValid DEF RiskLimits, Fits

LEMMA SubmittingFits ==
  ASSUME IInv, IInv', SameLegs, NEW i \in Intent, Submitting(i)
  PROVE  Fits(row')
<1>1. PICK p \in Prices, e \in Nat, a \in QuoteAges :
        /\ Allowed(Notional(p), e, a, Capital(row))
        /\ row' = [row EXCEPT ![i] = Opened(row[i], Notional(p), e)]
        /\ row[i].state = "AWAITING_HUMAN" => ApprovedPrice(i, p)
  BY DEF Submitting, Capital
<1>2. /\ Committed(row'[i]) = Notional(p) /\ UnmatchedPart(row'[i]) = Notional(p)
      /\ \A j \in Intent \ {i} : row'[j] = row[j]
  BY <1>1, SubmittedWeight DEF Submitting
<1>3. /\ CommittedOf(row) \in [Intent -> Nat] /\ CommittedOf(row') \in [Intent -> Nat]
      /\ UnmatchedOf(row) \in [Intent -> Nat] /\ UnmatchedOf(row') \in [Intent -> Nat]
  BY WeightTypes DEF IInv, TypeOK
<1>4. /\ CommittedOf(row')[i] = Notional(p) /\ UnmatchedOf(row')[i] = Notional(p)
      /\ \A j \in Intent \ {i} : /\ CommittedOf(row')[j] = CommittedOf(row)[j]
                                 /\ UnmatchedOf(row')[j] = UnmatchedOf(row)[j]
  BY <1>2 DEF CommittedOf, UnmatchedOf
<1>5. /\ \A j \in Intent \ {i} : /\ CommittedOf(row')[j] <= CommittedOf(row)[j]
                                 /\ UnmatchedOf(row')[j] <= UnmatchedOf(row)[j]
  BY <1>3, <1>4
<1>6. /\ Total(CommittedOf(row')) <= Total(CommittedOf(row)) + Notional(p)
      /\ Total(UnmatchedOf(row')) <= Total(UnmatchedOf(row)) + Notional(p)
  BY <1>3, <1>4, <1>5, TotalAdds, IntentsFinite
<1>7. /\ Total(CommittedOf(row)) + Notional(p) <= MaxTotalExposure
      /\ Total(UnmatchedOf(row)) + Notional(p) <= MaxUnmatchedExposure
  BY <1>1, CommittedTotal, UnmatchedTotal DEF Allowed
<1>8. /\ Total(CommittedOf(row)) \in Nat /\ Total(CommittedOf(row')) \in Nat
      /\ Total(UnmatchedOf(row)) \in Nat /\ Total(UnmatchedOf(row')) \in Nat
      /\ Notional(p) \in Nat
  BY <1>3, TotalType, NotionalType, IntentsFinite
<1> QED BY <1>6, <1>7, <1>8, RiskLimitsValid DEF RiskLimits, Fits

LEMMA CapsNext == ASSUME IInv, IInv', CapsInv, [Next]_vars PROVE CapsInv'
<1> SUFFICES ASSUME SameLegs PROVE Fits(row') /\ Fits(durable')
  BY DEF CapsInv, Fits, CommittedOf, UnmatchedOf, Total, Units
<1>1. Fits(row) /\ Fits(durable)
  BY DEF CapsInv
<1>2. Fits(row')
  <2>1. CASE \E i \in Intent : Submitting(i)
    BY <2>1, SubmittingFits
  <2>2. CASE \E i \in Intent : Restarting(i)
    BY <1>1, <2>2 DEF Restarting
  <2>3. CASE \A i \in Intent : NotGrowing(i)
    BY <1>1, <2>3, ShrinkingFits
  <2> QED BY <2>1, <2>2, <2>3, RowsDoNotGrow
<1> QED BY <1>1, <1>2, DurableSteps

\* The caps hold of the sum of what is open, in every reachable state and however many
\* acquisitions are suspended: each was sized against the rows of all the others, and
\* its own row was written before anything could run in between.
THEOREM CapsHold == Spec => []WithinCaps
<1>1. Spec => []CapsInv
  BY CapsInit, CapsNext, Invariance, PTL DEF Spec
<1>2. CapsInv => WithinCaps
  BY CommittedTotal, UnmatchedTotal DEF CapsInv, Fits, WithinCaps
<1> QED BY <1>1, <1>2, PTL

-----------------------------------------------------------------------------
(* The legs on record: what the coroutine of an intent has still to do is  *)
(* not on its row yet, and what it has done is.                            *)

LEMMA BuyRecorded ==
  ASSUME NEW r \in Row, NEW l \in Leg, NEW o, NEW f, NEW c, NEW m \in Leg
  PROVE  /\ RecordBuy(r, l, o, f, c).leg[m].buy = IF m = l THEN o ELSE r.leg[m].buy
         /\ RecordBuy(r, l, o, f, c).leg[m].bought = IF m = l THEN f ELSE r.leg[m].bought
         /\ RecordBuy(r, l, o, f, c).leg[m].sell = r.leg[m].sell
         /\ RecordBuy(r, l, o, f, c).leg[m].sold = r.leg[m].sold
<1>1. r.leg \in [Leg -> LegRow] /\ r.leg[m] \in LegRow
  BY DEF Row
<1>2. RecordBuy(r, l, o, f, c).leg =
        [r.leg EXCEPT ![l] = [r.leg[l] EXCEPT !.buy = o, !.bought = f]]
  BY <1>1 DEF RecordBuy, Row
<1>3. CASE m = l
  <2>1. RecordBuy(r, l, o, f, c).leg[m] = [r.leg[m] EXCEPT !.buy = o, !.bought = f]
    BY <1>1, <1>2, <1>3
  <2> QED BY <1>1, <1>3, <2>1 DEF LegRow
<1>4. CASE m # l
  <2>1. RecordBuy(r, l, o, f, c).leg[m] = r.leg[m]
    BY <1>1, <1>2, <1>4
  <2> QED BY <1>4, <2>1
<1> QED BY <1>3, <1>4

LEMMA SellRecorded ==
  ASSUME NEW r \in Row, NEW l \in Leg, NEW o, NEW f, NEW c, NEW m \in Leg
  PROVE  /\ RecordSell(r, l, o, f, c).leg[m].sell = IF m = l THEN o ELSE r.leg[m].sell
         /\ RecordSell(r, l, o, f, c).leg[m].sold = IF m = l THEN f ELSE r.leg[m].sold
         /\ RecordSell(r, l, o, f, c).leg[m].buy = r.leg[m].buy
         /\ RecordSell(r, l, o, f, c).leg[m].bought = r.leg[m].bought
<1>1. r.leg \in [Leg -> LegRow] /\ r.leg[m] \in LegRow
  BY DEF Row
<1>2. RecordSell(r, l, o, f, c).leg =
        [r.leg EXCEPT ![l] = [r.leg[l] EXCEPT !.sell = o, !.sold = f]]
  BY <1>1 DEF RecordSell, Row
<1>3. CASE m = l
  <2>1. RecordSell(r, l, o, f, c).leg[m] = [r.leg[m] EXCEPT !.sell = o, !.sold = f]
    BY <1>1, <1>2, <1>3
  <2> QED BY <1>1, <1>3, <2>1 DEF LegRow
<1>4. CASE m # l
  <2>1. RecordSell(r, l, o, f, c).leg[m] = r.leg[m]
    BY <1>1, <1>2, <1>4
  <2> QED BY <1>4, <2>1
<1> QED BY <1>3, <1>4

LEMMA BoughtLegs ==
  ASSUME TypeOK, NEW i \in Intent, NEW m \in Leg
  PROVE  /\ m = run[i].leg => Bought(i).leg[m].bought = order[i][m].bought
         /\ m # run[i].leg => /\ Bought(i).leg[m].bought = row[i].leg[m].bought
                              /\ Bought(i).leg[m].buy = row[i].leg[m].buy
         /\ Bought(i).leg[m].sell = row[i].leg[m].sell
         /\ Bought(i).leg[m].sold = row[i].leg[m].sold
<1> DEFINE r == row[i]
           k == run[i].leg
           f == order[i][k].bought
           o == BuyOutcome(f)
           c == f * run[i].price
<1>1. r \in Row /\ k \in Leg
  BY RunFacts
<1>2. Bought(i) = RecordBuy(r, k, o, f, c)
  BY DEF Bought
<1>3. f = order[i][k].bought
  OBVIOUS
<1> HIDE DEF r, k, f, o, c
<1>4. /\ RecordBuy(r, k, o, f, c).leg[m].buy = IF m = k THEN o ELSE r.leg[m].buy
      /\ RecordBuy(r, k, o, f, c).leg[m].bought = IF m = k THEN f ELSE r.leg[m].bought
      /\ RecordBuy(r, k, o, f, c).leg[m].sell = r.leg[m].sell
      /\ RecordBuy(r, k, o, f, c).leg[m].sold = r.leg[m].sold
  BY <1>1, BuyRecorded
<1> QED BY <1>2, <1>3, <1>4 DEF r, k

LEMMA SoldLegs ==
  ASSUME TypeOK, NEW i \in Intent, NEW m \in Leg
  PROVE  /\ m = run[i].leg => /\ Sold(i).leg[m].sold = order[i][m].sale
                              /\ Sold(i).leg[m].sell # NoOutcome
         /\ m # run[i].leg => /\ Sold(i).leg[m].sold = row[i].leg[m].sold
                              /\ Sold(i).leg[m].sell = row[i].leg[m].sell
         /\ Sold(i).leg[m].buy = row[i].leg[m].buy
         /\ Sold(i).leg[m].bought = row[i].leg[m].bought
<1> DEFINE r == row[i]
           k == run[i].leg
           f == order[i][k].sale
           o == SellOutcome(f, run[i].got[k])
           c == f * run[i].price
<1>1. r \in Row /\ k \in Leg
  BY RunFacts
<1>2. Sold(i) = RecordSell(r, k, o, f, c)
  BY DEF Sold
<1>3. f = order[i][k].sale /\ o # NoOutcome
  BY DEF SellOutcome, NoOutcome
<1> HIDE DEF r, k, f, o, c
<1>4. /\ RecordSell(r, k, o, f, c).leg[m].sell = IF m = k THEN o ELSE r.leg[m].sell
      /\ RecordSell(r, k, o, f, c).leg[m].sold = IF m = k THEN f ELSE r.leg[m].sold
      /\ RecordSell(r, k, o, f, c).leg[m].buy = r.leg[m].buy
      /\ RecordSell(r, k, o, f, c).leg[m].bought = r.leg[m].bought
  BY <1>1, SellRecorded
<1> QED BY <1>2, <1>3, <1>4 DEF r, k

Blank(r) == \A l \in Leg : r.leg[l] = BlankLeg

LEMMA OpenIntentBlank ==
  ASSUME NEW n \in Nat, NEW e \in Nat PROVE Blank(OpenIntent(n, e))
  BY DEF OpenIntent, NewRow, Blank

LEMMA TransitionBlank ==
  ASSUME NEW r \in Row, NEW s PROVE Blank(Transition(r, s)) <=> Blank(r)
  BY TransitionFacts DEF Blank

LEMMA ConsiderBlank ==
  ASSUME NEW rows, NEW n \in Nat, NEW e \in Nat, NEW a
  PROVE  Blank(Consider(rows, n, e, a))
<1> DEFINE o == OpenIntent(n, e)
           t == Transition(o, "RISK_APPROVED")
<1>1. "RISK_APPROVED" \in OrderState
  BY DEF OrderState
<1>2. o \in Row /\ t \in Row
  BY <1>1, OpenIntentType, TransitionType
<1>3. Blank(o) /\ Blank(t)
  BY <1>2, OpenIntentBlank, TransitionBlank
<1> HIDE DEF o, t
<1>4. Blank(Transition(t, "AWAITING_HUMAN")) /\ Blank(Transition(o, "RISK_REJECTED"))
  BY <1>2, <1>3, TransitionBlank
<1> QED BY <1>4 DEF Consider, o, t

LEMMA OpenedBlank ==
  ASSUME NEW r \in Row, NEW n \in Nat, NEW e \in Nat, Blank(r)
  PROVE  Blank(Opened(r, n, e))
<1> DEFINE o == OpenIntent(n, e)
           t == Transition(o, "RISK_APPROVED")
<1>1. "RISK_APPROVED" \in OrderState
  BY DEF OrderState
<1>2. o \in Row /\ t \in Row
  BY <1>1, OpenIntentType, TransitionType
<1>3. Blank(t)
  BY <1>2, OpenIntentBlank, TransitionBlank
<1> HIDE DEF o
<1> HIDE DEF t
<1>4. Blank(Transition(t, "SUBMITTING")) /\ Blank(Transition(r, "SUBMITTING"))
  BY <1>2, <1>3, TransitionBlank
<1> QED BY <1>4 DEF Opened, o, t

Unsold(r) == \E l \in Leg : r.leg[l].bought > 0 /\ r.leg[l].sell = NoOutcome

\* A row nobody submitted has nothing on record; one whose answer is awaited lost it; and
\* one that failed without losing an answer offered all it had bought.
Sound(r) ==
  /\ ~Submitted(r) => Blank(r)
  /\ r.state \in {"UNKNOWN", "RECONCILING"} => Uncertain(r)
  /\ r.state = "FAILED" => Uncertain(r) \/ ~Unsold(r)

WhileBuying(i) ==
  \A l \in Leg :
    /\ row[i].leg[l].sell = NoOutcome /\ row[i].leg[l].sold = 0
    /\ row[i].leg[l].bought = run[i].got[l]
    /\ l >= run[i].leg => row[i].leg[l].buy = NoOutcome /\ run[i].got[l] = 0

WhileSelling(i) ==
  \A l \in Leg :
    /\ row[i].leg[l].bought = run[i].got[l]
    /\ l >= run[i].leg => row[i].leg[l].sell = NoOutcome /\ row[i].leg[l].sold = 0
    /\ l < run[i].leg /\ run[i].got[l] > 0 => row[i].leg[l].sell # NoOutcome

Work(i) ==
  /\ run[i].pc = "buy" => WhileBuying(i)
  /\ run[i].pc = "sell" => WhileSelling(i)

WorkInv == \A i \in Intent : Sound(row[i]) /\ Sound(durable[i]) /\ Work(i)

\* An answer recorded as unknown stays one.
LEMMA LostIsUncertain ==
  ASSUME NEW r \in Row, NEW l \in Leg
  PROVE  /\ Uncertain(RecordBuy(r, l, "unknown", 0, 0))
         /\ Uncertain(RecordSell(r, l, "unknown", 0, 0))
  BY BuyRecorded, SellRecorded DEF Uncertain

LEMMA NextLegWork ==
  ASSUME TypeOK, NEW i \in Intent, WhileBuying(i), NextLeg(i) PROVE WhileBuying(i)'
<1>1. /\ row \in [Intent -> Row] /\ run \in [Intent -> Coroutine]
      /\ run[i] \in Coroutine /\ run[i].leg \in Leg /\ run[i].got \in [Leg -> 0 .. Quantity]
  BY RunFacts DEF TypeOK
<1>2. row'[i] = Bought(i)
  BY <1>1 DEF NextLeg
<1>3. run'[i] = [run[i] EXCEPT !.leg = run[i].leg + 1, !.got[run[i].leg] = Quantity]
  BY <1>1 DEF NextLeg
<1>4. /\ run'[i].leg = run[i].leg + 1
      /\ run'[i].got = [run[i].got EXCEPT ![run[i].leg] = Quantity]
  BY <1>1, <1>3 DEF Coroutine
<1>5. order[i][run[i].leg].bought = Quantity
  BY DEF NextLeg
<1> SUFFICES ASSUME NEW l \in Leg
             PROVE  /\ row'[i].leg[l].sell = NoOutcome /\ row'[i].leg[l].sold = 0
                    /\ row'[i].leg[l].bought = run'[i].got[l]
                    /\ l >= run'[i].leg =>
                         row'[i].leg[l].buy = NoOutcome /\ run'[i].got[l] = 0
  BY DEF WhileBuying
<1>6. l \in Nat /\ run[i].leg \in Nat
  BY <1>1, LegFacts
<1>7. /\ row[i].leg[l].sell = NoOutcome /\ row[i].leg[l].sold = 0
      /\ row[i].leg[l].bought = run[i].got[l]
      /\ l >= run[i].leg => row[i].leg[l].buy = NoOutcome /\ run[i].got[l] = 0
  BY DEF WhileBuying
<1>8. CASE l = run[i].leg
  BY <1>1, <1>2, <1>4, <1>5, <1>6, <1>7, <1>8, BoughtLegs
<1>9. CASE l # run[i].leg
  <2>1. run'[i].got[l] = run[i].got[l]
    BY <1>1, <1>4, <1>9
  <2>2. l >= run'[i].leg => l >= run[i].leg
    BY <1>4, <1>6
  <2> QED BY <1>2, <1>7, <1>9, <2>1, <2>2, BoughtLegs
<1> QED BY <1>8, <1>9

\* What the coroutine has acquired is what its row will say.
LEMMA AcquiredRecorded ==
  ASSUME TypeOK, NEW i \in Intent, WhileBuying(i), NEW l \in Leg
  PROVE  Bought(i).leg[l].bought = Acquired(i)[l]
<1>1. run[i].leg \in Leg /\ run[i].got \in [Leg -> 0 .. Quantity]
  BY RunFacts
<1>2. row[i].leg[l].bought = run[i].got[l]
  BY DEF WhileBuying
<1>3. CASE l = run[i].leg
  BY <1>1, <1>3, BoughtLegs DEF Acquired
<1>4. CASE l # run[i].leg
  BY <1>1, <1>2, <1>4, BoughtLegs DEF Acquired
<1> QED BY <1>3, <1>4

LEMMA UnwindWork ==
  ASSUME TypeOK, NEW i \in Intent, WhileBuying(i), Unwind(i)
  PROVE  run'[i].pc = "sell" /\ WhileSelling(i)'
<1>1. /\ row \in [Intent -> Row] /\ run \in [Intent -> Coroutine] /\ run[i] \in Coroutine
      /\ Acquired(i) \in [Leg -> 0 .. Quantity]
  BY RunFacts, BoughtType DEF TypeOK
<1>2. row'[i] = Bought(i)
  BY <1>1 DEF Unwind
<1>3. PICK k \in Leg :
        /\ FirstOf(k, ToSell(Acquired(i), 0))
        /\ run' = [run EXCEPT ![i] = [@ EXCEPT !.pc = "sell", !.leg = k, !.got = Acquired(i)]]
  BY DEF Unwind
<1>4. run'[i].pc = "sell" /\ run'[i].leg = k /\ run'[i].got = Acquired(i)
  BY <1>1, <1>3 DEF Coroutine
<1> SUFFICES ASSUME NEW l \in Leg
             PROVE  /\ row'[i].leg[l].bought = Acquired(i)[l]
                    /\ row'[i].leg[l].sell = NoOutcome /\ row'[i].leg[l].sold = 0
                    /\ ~(l < k /\ Acquired(i)[l] > 0)
  BY <1>4 DEF WhileSelling
<1>5. row'[i].leg[l].bought = Acquired(i)[l]
  BY <1>2, AcquiredRecorded
<1>6. row'[i].leg[l].sell = NoOutcome /\ row'[i].leg[l].sold = 0
  BY <1>2, BoughtLegs DEF WhileBuying
<1>7. ASSUME l < k, Acquired(i)[l] > 0 PROVE FALSE
  <2>1. l > 0 /\ l \in Nat /\ k \in Nat
    BY LegFacts DEF Leg
  <2>2. l \in ToSell(Acquired(i), 0)
    BY <1>7, <2>1 DEF ToSell
  <2>3. k <= l
    BY <1>3, <2>2 DEF FirstOf
  <2> QED BY <1>7, <2>1, <2>3
<1> QED BY <1>5, <1>6, <1>7

\* Once the answer to a sale is recorded, the legs up to it have been offered.
LEMMA SaleRecorded ==
  ASSUME TypeOK, NEW i \in Intent, WhileSelling(i), NEW l \in Leg
  PROVE  /\ Sold(i).leg[l].bought = run[i].got[l]
         /\ l > run[i].leg => Sold(i).leg[l].sell = NoOutcome /\ Sold(i).leg[l].sold = 0
         /\ l <= run[i].leg /\ run[i].got[l] > 0 => Sold(i).leg[l].sell # NoOutcome
<1>1. l \in Nat /\ run[i].leg \in Nat
  BY RunFacts, LegFacts
<1>2. /\ row[i].leg[l].bought = run[i].got[l]
      /\ l >= run[i].leg => row[i].leg[l].sell = NoOutcome /\ row[i].leg[l].sold = 0
      /\ l < run[i].leg /\ run[i].got[l] > 0 => row[i].leg[l].sell # NoOutcome
  BY DEF WhileSelling
<1>3. CASE l = run[i].leg
  BY <1>1, <1>2, <1>3, SoldLegs
<1>4. CASE l # run[i].leg
  BY <1>1, <1>2, <1>4, SoldLegs
<1> QED BY <1>3, <1>4

LEMMA NextSaleWork ==
  ASSUME TypeOK, NEW i \in Intent, WhileSelling(i), NextSale(i)
  PROVE  run'[i].pc = "sell" /\ WhileSelling(i)'
<1>1. /\ row \in [Intent -> Row] /\ run \in [Intent -> Coroutine] /\ run[i] \in Coroutine
      /\ run[i].leg \in Nat
  BY RunFacts, LegFacts DEF TypeOK
<1>2. row'[i] = Sold(i) /\ run[i].pc = "sell"
  BY <1>1 DEF NextSale, SellAnswered
<1>3. PICK k \in Leg :
        /\ FirstOf(k, ToSell(run[i].got, run[i].leg))
        /\ run' = [run EXCEPT ![i].leg = k]
  BY DEF NextSale
<1>4. run'[i].pc = "sell" /\ run'[i].leg = k /\ run'[i].got = run[i].got
  BY <1>1, <1>2, <1>3 DEF Coroutine
<1>5. k > run[i].leg /\ k \in Nat
  BY <1>3, LegFacts DEF FirstOf, ToSell
<1> SUFFICES ASSUME NEW l \in Leg
             PROVE  /\ row'[i].leg[l].bought = run[i].got[l]
                    /\ l >= k => row'[i].leg[l].sell = NoOutcome /\ row'[i].leg[l].sold = 0
                    /\ l < k /\ run[i].got[l] > 0 => row'[i].leg[l].sell # NoOutcome
  BY <1>4 DEF WhileSelling
<1>6. l \in Nat
  BY LegFacts
<1>7. /\ row'[i].leg[l].bought = run[i].got[l]
      /\ l > run[i].leg => row'[i].leg[l].sell = NoOutcome /\ row'[i].leg[l].sold = 0
      /\ l <= run[i].leg /\ run[i].got[l] > 0 => row'[i].leg[l].sell # NoOutcome
  BY <1>2, SaleRecorded
<1>8. ASSUME l < k, run[i].got[l] > 0 PROVE l <= run[i].leg
  <2> SUFFICES ASSUME l > run[i].leg PROVE FALSE
    BY <1>1, <1>6
  <2>1. l \in ToSell(run[i].got, run[i].leg)
    BY <1>8 DEF ToSell
  <2>2. k <= l
    BY <1>3, <2>1 DEF FirstOf
  <2> QED BY <1>5, <1>6, <1>8, <2>2
<1>9. l >= k => l > run[i].leg
  BY <1>1, <1>5, <1>6
<1> QED BY <1>7, <1>8, <1>9

LEMMA WorkingWork ==
  ASSUME IInv, WorkInv, NEW i \in Intent, Working(i)
  PROVE  Sound(row'[i]) /\ Work(i)'
<1>1. TypeOK /\ Work(i) /\ row[i].state = "SUBMITTING"
  BY DEF IInv, UncertainInv, WorkInv, Working
<1>2. row'[i].state = "SUBMITTING"
  BY <1>1, AnswerFacts DEF Working
<1>3. Sound(row'[i])
  BY <1>2 DEF Sound, Submitted, NoRow
<1>4. CASE NextLeg(i)
  <2>1. run[i].pc = "buy" /\ run'[i].pc = "buy"
    BY <1>1, <1>4 DEF NextLeg, BuyAnswered, TypeOK, Coroutine
  <2> QED BY <1>1, <1>3, <1>4, <2>1, NextLegWork DEF Work
<1>5. CASE Unwind(i)
  <2>1. run[i].pc = "buy"
    BY <1>5 DEF Unwind, BuyAnswered
  <2> QED BY <1>1, <1>3, <1>5, <2>1, UnwindWork DEF Work
<1>6. CASE NextSale(i)
  <2>1. run[i].pc = "sell"
    BY <1>6 DEF NextSale, SellAnswered
  <2> QED BY <1>1, <1>3, <1>6, <2>1, NextSaleWork DEF Work
<1> QED BY <1>4, <1>5, <1>6 DEF Working

LEMMA EndingWork ==
  ASSUME IInv, WorkInv, NEW i \in Intent, Ending(i)
  PROVE  Sound(row'[i]) /\ Work(i)'
<1>1. TypeOK /\ Work(i) /\ row[i] \in Row /\ run[i].leg \in Leg
  BY RunFacts DEF IInv, WorkInv
<1>2. Work(i)'
  BY DEF Ending, Idle, Work
<1>3. Bought(i) \in Row /\ Sold(i) \in Row
  BY <1>1, BoughtType, SoldType
<1>4. CASE row'[i] = Transition(Bought(i), "FILLED")
  BY <1>2, <1>3, <1>4, TransitionFacts DEF Sound, Submitted, NoRow
<1>5. CASE row'[i] = Transition(Bought(i), "FAILED") /\ GiveUp(i)
  <2>1. row'[i].state = "FAILED" /\ row'[i].leg = Bought(i).leg
    BY <1>3, <1>5, TransitionFacts
  <2>2. WhileBuying(i)
    BY <1>1, <1>5 DEF GiveUp, BuyAnswered, Work
  <2>3. ASSUME NEW l \in Leg, row'[i].leg[l].bought > 0 PROVE FALSE
    <3>1. Acquired(i)[l] > 0
      BY <1>1, <2>1, <2>2, <2>3, AcquiredRecorded
    <3>2. l > 0
      BY LegFacts DEF Leg
    <3>3. l \in ToSell(Acquired(i), 0)
      BY <3>1, <3>2 DEF ToSell
    <3> QED BY <1>5, <3>3 DEF GiveUp
  <2> QED BY <1>2, <2>1, <2>3 DEF Sound, Unsold, Submitted, NoRow
<1>6. CASE row'[i] = Transition(Sold(i), "FAILED") /\ Unwound(i)
  <2>1. row'[i].state = "FAILED" /\ row'[i].leg = Sold(i).leg
    BY <1>3, <1>6, TransitionFacts
  <2>2. WhileSelling(i)
    BY <1>1, <1>6 DEF Unwound, SellAnswered, Work
  <2>3. ASSUME NEW l \in Leg, row'[i].leg[l].bought > 0 PROVE row'[i].leg[l].sell # NoOutcome
    <3>1. /\ run[i].got[l] > 0
          /\ l <= run[i].leg => Sold(i).leg[l].sell # NoOutcome
      BY <1>1, <2>1, <2>2, <2>3, SaleRecorded
    <3>2. l \in Nat /\ run[i].leg \in Nat
      BY <1>1, LegFacts
    <3>3. ~(l > run[i].leg)
      BY <1>6, <3>1 DEF Unwound, ToSell
    <3> QED BY <2>1, <3>1, <3>2, <3>3
  <2> QED BY <1>2, <2>1, <2>3 DEF Sound, Unsold, Submitted, NoRow
<1>7. ASSUME NEW r \in Row, Uncertain(r), row'[i] = Transition(r, "UNKNOWN")
      PROVE  Sound(row'[i])
  <2>1. row'[i].state = "UNKNOWN" /\ Uncertain(row'[i])
    BY <1>7, TransitionFacts, UncertainKept
  <2> QED BY <2>1 DEF Sound, Submitted, NoRow
<1>8. /\ RecordBuy(row[i], run[i].leg, "unknown", 0, 0) \in Row
      /\ RecordSell(row[i], run[i].leg, "unknown", 0, 0) \in Row
  BY <1>1, ZeroQuantity, RecordBuyType, RecordSellType DEF Outcome
<1>9. /\ Uncertain(RecordBuy(row[i], run[i].leg, "unknown", 0, 0))
      /\ Uncertain(RecordSell(row[i], run[i].leg, "unknown", 0, 0))
  BY <1>1, LostIsUncertain
<1> QED BY <1>2, <1>4, <1>5, <1>6, <1>7, <1>8, <1>9 DEF Ending

LEMMA WorkNext == ASSUME IInv, WorkInv, [Next]_vars PROVE WorkInv'
<1> SUFFICES ASSUME NEW i \in Intent
             PROVE  Sound(row'[i]) /\ Sound(durable'[i]) /\ Work(i)'
  BY DEF WorkInv
<1> DEFINE Goal == Sound(row'[i]) /\ Work(i)'
<1>1. /\ TypeOK /\ row[i] \in Row /\ Sound(row[i]) /\ Sound(durable[i]) /\ Work(i)
      /\ row[i].state # "SUBMITTING" => run[i].pc = "idle"
      /\ run[i].pc \in {"idle", "buy", "sell"}
  BY RunFacts DEF IInv, UncertainInv, WorkInv, TypeOK, Coroutine
<1>2. run' = run /\ run[i].pc = "idle" => Work(i)'
  BY DEF Work
<1>3. ASSUME Keeping(i) PROVE Goal
  BY <1>1, <1>3 DEF Keeping, Work, WhileBuying, WhileSelling, Idle
<1>4. ASSUME Leaving(i) PROVE Goal
  <2>1. Blank(row[i])
    BY <1>1, <1>4 DEF Leaving, Sound, Submitted
  <2>2. Blank(row'[i]) /\ row'[i].state \in {"EXPIRED", "REJECTED"}
    BY <1>1, <1>4, <2>1, TransitionFacts, TransitionBlank DEF Leaving
  <2> QED BY <1>1, <1>2, <1>4, <2>2 DEF Leaving, Sound
<1>5. ASSUME Waiting(i) PROVE Goal
  <2>1. row'[i].state = row[i].state /\ row'[i].leg = row[i].leg
    BY <1>1, <1>5 DEF Waiting, Row
  <2> QED BY <1>1, <1>2, <1>5, <2>1 DEF Waiting, Sound, Submitted, Blank
<1>6. ASSUME Proposing(i) PROVE Goal
  <2>1. PICK p \in Prices, e \in Edges, a \in QuoteAges :
          row'[i] = Consider(ExpireStale(row), Notional(p), e, a)
    BY <1>6 DEF Proposing
  <2>2. Notional(p) \in Nat /\ e \in Nat
    BY NotionalType, ExecutionConstants
  <2>3. Blank(row'[i]) /\ row'[i].state \in {"AWAITING_HUMAN", "RISK_REJECTED"}
    BY <2>1, <2>2, ConsiderBlank, ConsiderFacts
  <2> QED BY <1>1, <1>2, <1>6, <2>3 DEF Proposing, Sound, NoRow
<1>7. ASSUME Submitting(i) PROVE Goal
  <2>1. PICK p \in Prices, e \in Nat :
          /\ row'[i] = Opened(row[i], Notional(p), e)
          /\ run'[i] = [pc |-> "buy", leg |-> 1, price |-> p, got |-> NothingGot]
    BY <1>1, <1>7 DEF Submitting, TypeOK
  <2>2. Blank(row[i])
    BY <1>1, <1>7 DEF Submitting, Sound, Submitted
  <2>3. Blank(row'[i]) /\ row'[i].state = "SUBMITTING"
    BY <1>1, <2>1, <2>2, NotionalType, OpenedFacts, OpenedBlank
  <2>4. WhileBuying(i)'
    BY <2>1, <2>3 DEF WhileBuying, Blank, BlankLeg, NothingGot
  <2> QED BY <2>1, <2>3, <2>4 DEF Sound, Work, Submitted, NoRow
<1>8. ASSUME Working(i) PROVE Goal
  BY <1>8, WorkingWork
<1>9. ASSUME Ending(i) PROVE Goal
  BY <1>9, EndingWork
<1>10. ASSUME Checking(i) PROVE Goal
  <2>1. /\ row'[i].state \in {"RECONCILING", "FILLED", "FAILED", "INCIDENT"}
        /\ row[i].state \in {"UNKNOWN", "RECONCILING"} /\ run' = run
    BY <1>1, <1>10, CheckingFacts DEF Checking
  <2>2. Uncertain(row'[i])
    BY <1>1, <1>10, <2>1, UncertainKept DEF Checking, Sound
  <2> QED BY <1>1, <1>2, <2>1, <2>2 DEF Sound, Submitted, NoRow
<1>11. ASSUME Restarting(i) PROVE Goal
  BY <1>1, <1>11 DEF Restarting, Work, Idle
<1>12. Goal
  BY <1>1, <1>3, <1>4, <1>5, <1>6, <1>7, <1>8, <1>9, <1>10, <1>11, RowSteps DEF RowStep, IInv
<1> QED BY <1>1, <1>12, DurableSteps

LEMMA WorkInit == Init => WorkInv
<1> SUFFICES ASSUME Init, NEW i \in Intent
             PROVE  Sound(row[i]) /\ Sound(durable[i]) /\ Work(i)
  BY DEF WorkInv
<1>1. row[i] = Absent /\ durable[i] = Absent /\ run[i].pc = "idle"
  BY DEF Init, Idle
<1>2. Sound(Absent)
  BY DEF Absent, NewRow, Sound, Blank, NoRow
<1> QED BY <1>1, <1>2 DEF Work

\* What is on record, and what is still to come, of every intent at every moment.
THEOREM RecordsAreSound == Spec => []WorkInv
  BY WorkInit, WorkNext, Invariance, PTL DEF Spec

\* The unique key of leg_order is never used twice, although a crash forgets rows of
\* orders the venue still has, and an approval sends them again.
THEOREM KeysAreUsedOnce == Spec => []NeverRecordedTwice
<1>1. IInv /\ WorkInv => NeverRecordedTwice
  <2> SUFFICES ASSUME IInv, WorkInv, NEW i \in Intent
               PROVE  /\ run[i].pc = "buy" => row[i].leg[run[i].leg].buy = NoOutcome
                      /\ run[i].pc = "sell" => row[i].leg[run[i].leg].sell = NoOutcome
    BY DEF NeverRecordedTwice
  <2>1. run[i].leg \in Leg /\ run[i].leg \in Nat
    BY RunFacts, LegFacts DEF IInv
  <2> QED BY <2>1 DEF WorkInv, Work, WhileBuying, WhileSelling
<1> QED BY <1>1, Invariance, RecordsAreSound, PTL

\* Whichever leg fell short, an unwind that heard every answer offered all of them.
THEOREM UnwindsAreComplete == Spec => []UnwindCoversEveryLeg
<1>1. WorkInv => UnwindCoversEveryLeg
  BY DEF WorkInv, Sound, Unsold, UnwindCoversEveryLeg
<1> QED BY <1>1, RecordsAreSound, PTL

-----------------------------------------------------------------------------
(* The venue and the record, while nothing is torn down: what is held is   *)
(* what the legs on record say, but for the one order in flight.           *)

Settled(i, l) ==
  /\ order[i][l].buy # "open" /\ order[i][l].sell # "open"
  /\ held[i][l] = row[i].leg[l].bought - row[i].leg[l].sold

\* The order in flight, and those to come.
InFlight(i, l) ==
  /\ run[i].pc = "buy" => order[i][l].sell # "open" /\ held[i][l] = order[i][l].bought
  /\ run[i].pc = "sell" =>
       /\ order[i][l].buy # "open"
       /\ order[i][l].sell # "done" => held[i][l] = row[i].leg[l].bought
       /\ order[i][l].sell = "done" => held[i][l] = row[i].leg[l].bought - order[i][l].sale

Accounted(i) ==
  \A l \in Leg :
    /\ run[i].pc = "idle" \/ run[i].leg # l => Settled(i, l)
    /\ run[i].pc # "idle" /\ run[i].leg = l => InFlight(i, l)
    /\ run[i].pc = "buy" /\ l > run[i].leg => order[i][l].buy = "none"

Sellable(i, l) ==
  held[i][l] >= 0 /\ (order[i][l].sell = "open" => order[i][l].sale <= held[i][l])

Matched(i) ==
  /\ \A l \in Leg : order[i][l].buy # "none" => Submitted(row[i])
  /\ ~Uncertain(row[i]) => Accounted(i)
  /\ \A l \in Leg : Sellable(i, l)

MatchInv == faults = 0 => \A i \in Intent : Matched(i)

\* A step that leaves the venue's orders and the legs on record of i alone.
Quiet(i) ==
  /\ order'[i] = order[i] /\ held'[i] = held[i] /\ run'[i] = run[i]
  /\ \A l \in Leg : row'[i].leg[l] = row[i].leg[l]
  /\ Submitted(row[i]) => Submitted(row'[i])

Submits(i) ==
  /\ \E p \in Prices, e \in Nat : Submit(i, p, e)
  /\ held' = held /\ row[i].state \in {NoRow, "AWAITING_HUMAN"}

Decides(i) ==
  \E l \in Leg, f \in 0 .. Quantity : VenueBuys(i, l, f) \/ VenueSells(i, l, f)

LEMMA QuietRow ==
  ASSUME TypeOK, NEW i \in Intent, order' = order, held' = held, run' = run, row'[i] = row[i]
  PROVE  Quiet(i)
  BY DEF Quiet

LEMMA QuietTransition ==
  ASSUME TypeOK, NEW i \in Intent, NEW s, order' = order, held' = held, run' = run,
         row'[i] = Transition(row[i], s),
         s \in {"EXPIRED", "REJECTED"} => ~Submitted(row[i]),
         s \in {"EXPIRED", "REJECTED", "RECONCILING", "FILLED", "FAILED", "INCIDENT"}
  PROVE  Quiet(i)
<1>1. row[i] \in Row
  BY RunFacts
<1>2. row'[i].state = s /\ row'[i].leg = row[i].leg
  BY <1>1, TransitionFacts
<1> QED BY <1>2 DEF Quiet, Submitted, NoRow

LEMMA QuietSweep ==
  ASSUME TypeOK, NEW i \in Intent, order' = order, held' = held, run' = run,
         row'[i] = ExpireStale(row)[i]
  PROVE  Quiet(i)
<1>1. CASE row'[i] = row[i]
  BY <1>1, QuietRow
<1>2. CASE row'[i] # row[i]
  <2>1. row'[i] = Transition(row[i], "EXPIRED") /\ ~Submitted(row[i])
    BY <1>2 DEF ExpireStale, Submitted
  <2> QED BY <2>1, QuietTransition
<1> QED BY <1>1, <1>2

LEMMA SubmitsStep ==
  ASSUME TypeOK, NEW i \in Intent, NEW j \in Intent, NEW p \in Prices, NEW e \in Nat,
         Submit(j, p, e), held' = held, row[j].state \in {NoRow, "AWAITING_HUMAN"}
  PROVE  Quiet(i) \/ Submits(i)
<1>1. /\ row \in [Intent -> Row] /\ run \in [Intent -> Coroutine]
      /\ order \in [Intent -> [Leg -> VenueOrder]]
  BY DEF TypeOK
<1>2. CASE i # j
  <2>1. order'[i] = order[i]
    BY <1>1, <1>2 DEF Submit, Place
  <2> QED BY <1>1, <1>2, <2>1 DEF Submit, Quiet
<1>3. CASE i = j
  BY <1>3 DEF Submits
<1> QED BY <1>2, <1>3

LEMMA CycleQuiet ==
  ASSUME IInv, WorkInv, NEW i \in Intent, NEW j \in Intent, NEW p \in Prices, NEW e \in Edges,
         NEW a \in QuoteAges, Cycle(j, p, e, a)
  PROVE  Quiet(i)
<1>1. ExpireStale(row) \in [Intent -> Row] /\ TypeOK
  BY ExpireStaleType DEF IInv, TypeOK
<1>2. CASE i # j
  <2>1. row'[i] = ExpireStale(row)[i] /\ order' = order /\ held' = held /\ run' = run
    BY <1>1, <1>2 DEF Cycle
  <2> QED BY <1>1, <2>1, QuietSweep
<1>3. CASE i = j
  <2>1. row'[i] = Consider(ExpireStale(row), Notional(p), e, a)
    BY <1>1, <1>3 DEF Cycle
  <2>2. Notional(p) \in Nat /\ e \in Nat
    BY NotionalType, ExecutionConstants
  <2>3. Blank(row'[i])
    BY <2>1, <2>2, ConsiderBlank
  <2>4. ~Submitted(row[i])
    BY <1>3 DEF Cycle, Submitted
  <2>5. Blank(row[i])
    BY <2>4 DEF WorkInv, Sound
  <2>6. order' = order /\ held' = held /\ run' = run
    BY DEF Cycle
  <2> QED BY <2>3, <2>4, <2>5, <2>6 DEF Quiet, Blank
<1> QED BY <1>2, <1>3

LEMMA QuietSteps ==
  ASSUME IInv, WorkInv, [Next]_vars, faults = 0, faults' = 0, NEW i \in Intent
  PROVE  Quiet(i) \/ Submits(i) \/ Resume(i) \/ Decides(i)
<1>1. /\ TypeOK /\ row \in [Intent -> Row] /\ run \in [Intent -> Coroutine]
      /\ order \in [Intent -> [Leg -> VenueOrder]] /\ held \in [Intent -> [Leg -> Int]]
  BY DEF IInv, TypeOK
<1>2. CASE UNCHANGED vars
  BY <1>1, <1>2, QuietRow DEF vars
<1>3. CASE Sweep
  BY <1>1, <1>3, QuietSweep DEF Sweep
<1>4. ASSUME NEW j \in Intent, NEW p \in Prices, NEW e \in Edges, NEW a \in QuoteAges,
             Cycle(j, p, e, a)
      PROVE  Quiet(i)
  BY <1>4, CycleQuiet
<1>5. ASSUME NEW j \in Intent, NEW s \in {"EXPIRED", "REJECTED"},
             row' = [row EXCEPT ![j] = Transition(row[j], s)],
             row[j].state = "AWAITING_HUMAN", order' = order, held' = held, run' = run
      PROVE  Quiet(i)
  <2>1. CASE i # j
    BY <1>1, <1>5, <2>1, QuietRow
  <2>2. CASE i = j
    <3>1. row'[i] = Transition(row[i], s) /\ ~Submitted(row[i])
      BY <1>1, <1>5, <2>2 DEF Submitted
    <3> QED BY <1>1, <1>5, <3>1, QuietTransition
  <2> QED BY <2>1, <2>2
<1>6. ASSUME NEW j \in Intent, Decline(j) PROVE Quiet(i)
  <2>1. row[j].state = "AWAITING_HUMAN"
    BY <1>6 DEF Decline, CanTransition, Transitions
  <2> QED BY <1>5, <1>6, <2>1 DEF Decline
<1>7. ASSUME NEW j \in Intent, NEW p \in Prices, NEW a \in QuoteAges, ApproveRefused(j, p, a)
      PROVE  Quiet(i)
  BY <1>5, <1>7 DEF ApproveRefused
<1>8. ASSUME NEW j \in Intent, NEW p \in Prices, NEW a \in QuoteAges, Approve(j, p, a)
      PROVE  Quiet(i) \/ Submits(i)
  <2>1. row[j].edge \in Nat
    BY <1>1 DEF Row
  <2> QED BY <1>1, <1>8, <2>1, SubmitsStep DEF Approve
<1>9. ASSUME NEW j \in Intent, NEW p \in Prices, NEW e \in Edges, NEW a \in QuoteAges,
             NEW h \in BOOLEAN, ExecuteDirectly(j, p, e, a, h)
      PROVE  Quiet(i) \/ Submits(i)
  <2>1. e \in Nat
    BY ExecutionConstants
  <2> QED BY <1>1, <1>9, <2>1, SubmitsStep DEF ExecuteDirectly
<1>10. ASSUME NEW j \in Intent, BeginReconcile(j) \/ Reconcile(j) PROVE Quiet(i)
  <2>1. CASE i # j
    BY <1>1, <1>10, <2>1, QuietRow DEF BeginReconcile, Reconcile
  <2>2. CASE i = j
    <3>1. PICK s \in {"RECONCILING", "FILLED", "FAILED", "INCIDENT"} :
            row'[i] = Transition(row[i], s)
      BY <1>1, <1>10, <2>2 DEF BeginReconcile, Reconcile, NextState
    <3> QED BY <1>1, <1>10, <3>1, QuietTransition DEF BeginReconcile, Reconcile
  <2> QED BY <2>1, <2>2
<1>11. ASSUME NEW j \in Intent, j # i, Resume(j) PROVE Quiet(i)
  BY <1>1, <1>11 DEF Resume, NextLeg, Complete, GiveUp, Unwind, BuyLost, NextSale, Unwound,
                     SellLost, Place, Sell, Quiet
<1>12. ASSUME NEW j \in Intent, NEW l \in Leg, Venue(j, l) PROVE Quiet(i) \/ Decides(i)
  <2>1. CASE i = j
    BY <1>12, <2>1 DEF Venue, Decides
  <2>2. CASE i # j
    BY <1>1, <1>12, <2>2 DEF Venue, VenueBuys, VenueSells, Quiet
  <2> QED BY <2>1, <2>2
<1>13. ASSUME NEW j \in Intent, Suspend(j) \/ \E stray \in BOOLEAN : ReadPositions(j, stray)
       PROVE  Quiet(i)
  BY <1>1, <1>13, QuietRow DEF Suspend, ReadPositions
<1>14. CASE Tick
  <2>1. row'[i] = row[i] \/ (row[i].state = "AWAITING_HUMAN" /\
                             row'[i] = [row[i] EXCEPT !.waited = @ + 1])
    BY <1>1, <1>14 DEF Tick
  <2>2. row'[i].leg = row[i].leg /\ row'[i].state = row[i].state
    BY <1>1, <2>1 DEF Row
  <2> QED BY <1>14, <2>2 DEF Tick, Quiet, Submitted
<1>15. CASE TripHalt \/ ClearHalt \/ Commit
  BY <1>1, <1>15, QuietRow DEF TripHalt, ClearHalt, Commit
<1>16. ~(\E j \in Intent : Abort(j)) /\ ~(\E sold \in AmountsSold : Crash(sold))
  BY DEF Abort, Crash
<1> QED BY <1>2, <1>3, <1>4, <1>6, <1>7, <1>8, <1>9, <1>10, <1>11, <1>12, <1>13, <1>14, <1>15,
           <1>16 DEF Next, Loop, Operator, Caller, Fault

LEMMA QuietMatch ==
  ASSUME NEW i \in Intent, Matched(i), Quiet(i) PROVE Matched(i)'
<1>1. Uncertain(row'[i]) <=> Uncertain(row[i])
  BY DEF Quiet, Uncertain
<1>2. \A l \in Leg : Sellable(i, l) <=> Sellable(i, l)'
  BY DEF Quiet, Sellable
<1>3. Accounted(i) <=> Accounted(i)'
  BY DEF Quiet, Accounted, Settled, InFlight
<1>4. \A l \in Leg : order'[i][l].buy # "none" => Submitted(row'[i])
  BY DEF Quiet, Matched
<1> QED BY <1>1, <1>2, <1>3, <1>4 DEF Matched

\* What placing the first order of a leg does to the legs of the intent.
LEMMA PlaceFacts ==
  ASSUME TypeOK, NEW i \in Intent, NEW k \in Leg, Place(i, k), NEW l \in Leg
  PROVE  /\ order'[i][l].bought = order[i][l].bought
         /\ order'[i][l].sell = order[i][l].sell /\ order'[i][l].sale = order[i][l].sale
         /\ l # k => order'[i][l].buy = order[i][l].buy
         /\ order'[i][l].buy # "none" => l = k \/ order[i][l].buy # "none"
<1>1. order \in [Intent -> [Leg -> VenueOrder]] /\ order[i][l] \in VenueOrder
  BY DEF TypeOK
<1>2. CASE order' = order
  BY <1>2
<1>3. CASE order' = [order EXCEPT ![i][k].buy = "open"]
  <2>1. CASE l = k
    <3>1. order'[i][l] = [order[i][l] EXCEPT !.buy = "open"]
      BY <1>1, <1>3, <2>1
    <3> QED BY <1>1, <2>1, <3>1 DEF VenueOrder
  <2>2. CASE l # k
    <3>1. order'[i][l] = order[i][l]
      BY <1>1, <1>3, <2>2
    <3> QED BY <2>2, <3>1
  <2> QED BY <2>1, <2>2
<1> QED BY <1>2, <1>3 DEF Place

LEMMA OfferFacts ==
  ASSUME TypeOK, NEW i \in Intent, NEW k \in Leg, NEW q, Sell(i, k, q), NEW l \in Leg
  PROVE  /\ order'[i][l].buy = order[i][l].buy /\ order'[i][l].bought = order[i][l].bought
         /\ l # k => order'[i][l] = order[i][l]
         /\ l = k => order'[i][l].sell = "open" /\ order'[i][l].sale = q
<1>1. order \in [Intent -> [Leg -> VenueOrder]] /\ order[i][l] \in VenueOrder
  BY DEF TypeOK
<1>2. CASE l = k
  <2>1. order'[i][l] = [order[i][l] EXCEPT !.sell = "open", !.sale = q]
    BY <1>1, <1>2 DEF Sell
  <2> QED BY <1>1, <1>2, <2>1 DEF VenueOrder
<1>3. CASE l # k
  <2>1. order'[i][l] = order[i][l]
    BY <1>1, <1>3 DEF Sell
  <2> QED BY <1>3, <2>1
<1> QED BY <1>2, <1>3

\* While a coroutine runs, its intent has lost no answer.
LEMMA RunningIsCertain ==
  ASSUME IInv, NEW i \in Intent, run[i].pc # "idle"
  PROVE  ~Uncertain(row[i]) /\ row[i].state = "SUBMITTING" /\ Submitted(row[i])
  BY DEF IInv, UncertainInv, UncertainState, Submitted, NoRow

LEMMA SubmitMatch ==
  ASSUME IInv, WorkInv, NEW i \in Intent, Matched(i), Submits(i) PROVE Matched(i)'
<1>1. PICK p \in Prices, e \in Nat : Submit(i, p, e)
  BY DEF Submits
<1>2. /\ TypeOK /\ row \in [Intent -> Row] /\ run \in [Intent -> Coroutine] /\ row[i] \in Row
      /\ 1 \in Leg
  BY LegFacts DEF IInv, TypeOK
<1>3. /\ row'[i] = Opened(row[i], Notional(p), e)
      /\ run'[i] = [pc |-> "buy", leg |-> 1, price |-> p, got |-> NothingGot]
      /\ Place(i, 1) /\ held' = held
  BY <1>1, <1>2 DEF Submit, Submits
<1>4. ~Submitted(row[i]) /\ ~Uncertain(row[i]) /\ run[i].pc = "idle"
  BY DEF Submits, Submitted, IInv, UncertainInv, UncertainState, NoRow
<1>5. Blank(row[i]) /\ Accounted(i)
  BY <1>4 DEF WorkInv, Sound, Matched
<1>6. Blank(row'[i]) /\ row'[i].state = "SUBMITTING"
  BY <1>2, <1>3, <1>5, NotionalType, OpenedFacts, OpenedBlank
<1>7. ASSUME NEW l \in Leg
      PROVE  /\ order[i][l].buy = "none" /\ order[i][l].bought = 0
             /\ order[i][l].sell # "open" /\ held[i][l] = 0
  <2>1. order[i][l].buy = "none" /\ Settled(i, l)
    BY <1>4, <1>5 DEF Matched, Accounted
  <2>2. order[i][l].bought = 0
    BY <2>1 DEF IInv, VenueInv
  <2> QED BY <1>5, <2>1, <2>2 DEF Settled, Blank, BlankLeg
<1>8. ASSUME NEW l \in Leg
      PROVE  /\ order'[i][l].bought = 0 /\ order'[i][l].sell # "open" /\ held'[i][l] = 0
             /\ l # 1 => order'[i][l].buy = "none"
             /\ row'[i].leg[l].bought = 0 /\ row'[i].leg[l].sold = 0
  BY <1>2, <1>3, <1>6, <1>7, PlaceFacts DEF Blank, BlankLeg
<1>9. Submitted(row'[i])
  BY <1>6 DEF Submitted, NoRow
<1>10. Accounted(i)'
  <2> SUFFICES ASSUME NEW l \in Leg
               PROVE  /\ l # 1 => Settled(i, l)'
                      /\ l = 1 => InFlight(i, l)'
                      /\ l > 1 => order'[i][l].buy = "none"
    BY <1>3 DEF Accounted
  <2>1. l # 1 => Settled(i, l)'
    BY <1>8 DEF Settled
  <2>2. InFlight(i, l)'
    BY <1>3, <1>8 DEF InFlight
  <2> QED BY <1>8, <2>1, <2>2
<1>11. \A l \in Leg : Sellable(i, l)'
  BY <1>8 DEF Sellable
<1> QED BY <1>9, <1>10, <1>11 DEF Matched

LEMMA NextLegMatch ==
  ASSUME IInv, WorkInv, NEW i \in Intent, Matched(i), NextLeg(i) PROVE Matched(i)'
<1>1. /\ TypeOK /\ row \in [Intent -> Row] /\ run \in [Intent -> Coroutine]
      /\ run[i] \in Coroutine /\ run[i].leg \in Leg /\ run[i].leg \in Nat
  BY RunFacts, LegFacts DEF IInv, TypeOK
<1> DEFINE k == run[i].leg
<1>2. /\ run[i].pc = "buy" /\ order[i][k].buy = "done" /\ k < NumLegs
      /\ row'[i] = Bought(i) /\ held' = held /\ Place(i, k + 1)
      /\ run'[i] = [run[i] EXCEPT !.leg = k + 1, !.got[k] = Quantity]
  BY <1>1 DEF NextLeg, BuyAnswered
<1>3. run'[i].pc = "buy" /\ run'[i].leg = k + 1
  BY <1>1, <1>2 DEF Coroutine
<1>4. k + 1 \in Leg
  BY <1>1, <1>2, ExecutionConstants DEF Leg
<1>5. Submitted(row[i]) /\ Accounted(i) /\ WhileBuying(i)
  BY <1>2, RunningIsCertain DEF Matched, WorkInv, Work
<1>6. Submitted(row'[i])
  BY <1>1, <1>2, <1>5, AnswerFacts DEF Submitted
<1>7. ASSUME NEW l \in Leg
      PROVE  /\ order'[i][l].bought = order[i][l].bought
             /\ order'[i][l].sell = order[i][l].sell /\ order'[i][l].sale = order[i][l].sale
             /\ l # k + 1 => order'[i][l].buy = order[i][l].buy
             /\ l \in Nat
  BY <1>1, <1>2, <1>4, PlaceFacts, LegFacts
<1>8. ASSUME NEW l \in Leg, l # k + 1 PROVE Settled(i, l)'
  <2>1. CASE l = k
    <3>1. InFlight(i, l)
      BY <1>2, <1>5, <2>1 DEF Accounted
    <3>2. held[i][l] = order[i][l].bought /\ order[i][l].sell # "open"
      BY <1>2, <3>1 DEF InFlight
    <3>3. row'[i].leg[l].bought = order[i][l].bought /\ row'[i].leg[l].sold = 0
      BY <1>1, <1>2, <1>5, <2>1, BoughtLegs DEF WhileBuying
    <3>4. held[i][l] \in Int
      BY <1>1, RunFacts
    <3> QED BY <1>2, <1>7, <1>8, <2>1, <3>2, <3>3, <3>4 DEF Settled
  <2>2. CASE l # k
    <3>1. Settled(i, l)
      BY <1>5, <2>2 DEF Accounted
    <3>2. /\ row'[i].leg[l].bought = row[i].leg[l].bought
          /\ row'[i].leg[l].sold = row[i].leg[l].sold
      BY <1>1, <1>2, <2>2, BoughtLegs
    <3> QED BY <1>2, <1>7, <1>8, <3>1, <3>2 DEF Settled
  <2> QED BY <2>1, <2>2
<1>9. ASSUME NEW l \in Leg, l = k + 1 PROVE InFlight(i, l)'
  <2>1. l > k /\ l # k
    BY <1>1, <1>9
  <2>2. Settled(i, l) /\ order[i][l].buy = "none"
    BY <1>2, <1>5, <2>1 DEF Accounted
  <2>3. order[i][l].bought = 0
    BY <2>2 DEF IInv, VenueInv
  <2>4. l >= k
    BY <1>1, <1>9
  <2>5. row[i].leg[l].bought = 0 /\ row[i].leg[l].sold = 0
    BY <1>5, <2>4 DEF WhileBuying
  <2> QED BY <1>2, <1>3, <1>7, <2>2, <2>3, <2>5 DEF Settled, InFlight
<1>10. ASSUME NEW l \in Leg, l > k + 1 PROVE order'[i][l].buy = "none"
  <2>1. l > k /\ l # k + 1
    BY <1>1, <1>7, <1>10
  <2> QED BY <1>2, <1>5, <1>7, <2>1 DEF Accounted
<1>11. Accounted(i)'
  BY <1>3, <1>8, <1>9, <1>10 DEF Accounted
<1>12. \A l \in Leg : Sellable(i, l)'
  BY <1>2, <1>7 DEF Matched, Sellable
<1> QED BY <1>6, <1>11, <1>12 DEF Matched

\* An offer of what a leg holds; the others are settled.
LEMMA OfferMatch ==
  ASSUME TypeOK, NEW i \in Intent, Matched(i), Submitted(row'[i]), held' = held,
         NEW k \in Leg, NEW q \in 0 .. Quantity, Sell(i, k, q), held[i][k] = q,
         run'[i].pc = "sell", run'[i].leg = k, row'[i].leg[k].bought = q,
         order[i][k].buy # "open",
         NEW r, row'[i] = r,
         \A l \in Leg \ {k} :
           /\ order[i][l].buy # "open" /\ order[i][l].sell # "open"
           /\ held[i][l] = r.leg[l].bought - r.leg[l].sold
  PROVE  Matched(i)'
<1>1. ASSUME NEW l \in Leg
      PROVE  /\ order'[i][l].buy = order[i][l].buy
             /\ l # k => order'[i][l] = order[i][l]
             /\ l = k => order'[i][l].sell = "open" /\ order'[i][l].sale = q
  BY OfferFacts
<1>2. ASSUME NEW l \in Leg, l # k PROVE Settled(i, l)'
  BY <1>1, <1>2 DEF Settled
<1>3. InFlight(i, k)'
  BY <1>1 DEF InFlight
<1>4. Accounted(i)'
  BY <1>2, <1>3 DEF Accounted
<1>5. ASSUME NEW l \in Leg PROVE Sellable(i, l)'
  <2>1. CASE l = k
    <3>1. q >= 0 /\ q <= q
      BY ExecutionConstants
    <3> QED BY <1>1, <2>1, <3>1 DEF Sellable
  <2>2. CASE l # k
    BY <1>1, <2>2 DEF Matched, Sellable
  <2> QED BY <2>1, <2>2
<1> QED BY <1>4, <1>5 DEF Matched

\* Once the answer to a buy is recorded, every leg is settled.
LEMMA BuySettles ==
  ASSUME IInv, WorkInv, NEW i \in Intent, Matched(i), BuyAnswered(i), NEW l \in Leg
  PROVE  /\ order[i][l].buy # "open" /\ order[i][l].sell # "open"
         /\ held[i][l] = Bought(i).leg[l].bought - Bought(i).leg[l].sold
         /\ held[i][l] = Acquired(i)[l]
<1>1. TypeOK /\ run[i].pc = "buy" /\ order[i][run[i].leg].buy = "done" /\ held[i][l] \in Int
  BY RunFacts DEF IInv, BuyAnswered
<1>2. Accounted(i) /\ WhileBuying(i)
  BY <1>1, RunningIsCertain DEF Matched, WorkInv, Work
<1>3. Bought(i).leg[l].bought = Acquired(i)[l] /\ Bought(i).leg[l].sold = 0
  BY <1>1, <1>2, AcquiredRecorded, BoughtLegs DEF WhileBuying
<1>4. CASE l = run[i].leg
  <2>1. InFlight(i, l)
    BY <1>1, <1>2, <1>4 DEF Accounted
  <2>2. held[i][l] = order[i][l].bought /\ order[i][l].sell # "open"
    BY <1>1, <2>1 DEF InFlight
  <2>3. Bought(i).leg[l].bought = order[i][l].bought
    BY <1>1, <1>4, BoughtLegs
  <2> QED BY <1>1, <1>3, <1>4, <2>2, <2>3
<1>5. CASE l # run[i].leg
  <2>1. Settled(i, l)
    BY <1>2, <1>5 DEF Accounted
  <2>2. /\ Bought(i).leg[l].bought = row[i].leg[l].bought
        /\ Bought(i).leg[l].sold = row[i].leg[l].sold
    BY <1>1, <1>5, BoughtLegs
  <2>3. held[i][l] = Bought(i).leg[l].bought - 0
    BY <1>3, <2>1, <2>2 DEF Settled
  <2>4. Acquired(i)[l] \in 0 .. Quantity
    BY <1>1, BoughtType
  <2>5. Acquired(i)[l] \in Nat
    BY <2>4
  <2> QED BY <1>3, <2>1, <2>3, <2>5 DEF Settled
<1> QED BY <1>4, <1>5

\* Once the answer to a sale is recorded, every leg is settled.
LEMMA SaleSettles ==
  ASSUME IInv, WorkInv, NEW i \in Intent, Matched(i), SellAnswered(i), NEW l \in Leg
  PROVE  /\ order[i][l].buy # "open" /\ order[i][l].sell # "open"
         /\ held[i][l] = Sold(i).leg[l].bought - Sold(i).leg[l].sold
<1>1. TypeOK /\ run[i].pc = "sell" /\ order[i][run[i].leg].sell = "done"
  BY DEF IInv, SellAnswered
<1>2. Accounted(i)
  BY <1>1, RunningIsCertain DEF Matched
<1>3. CASE l = run[i].leg
  <2>1. InFlight(i, l)
    BY <1>1, <1>2, <1>3 DEF Accounted
  <2>2. /\ Sold(i).leg[l].bought = row[i].leg[l].bought
        /\ Sold(i).leg[l].sold = order[i][l].sale
    BY <1>1, <1>3, SoldLegs
  <2> QED BY <1>1, <1>3, <2>1, <2>2 DEF InFlight
<1>4. CASE l # run[i].leg
  <2>1. Settled(i, l)
    BY <1>2, <1>4 DEF Accounted
  <2>2. /\ Sold(i).leg[l].bought = row[i].leg[l].bought
        /\ Sold(i).leg[l].sold = row[i].leg[l].sold
    BY <1>1, <1>4, SoldLegs
  <2> QED BY <2>1, <2>2 DEF Settled
<1> QED BY <1>3, <1>4

LEMMA UnwindMatch ==
  ASSUME IInv, WorkInv, NEW i \in Intent, Matched(i), Unwind(i) PROVE Matched(i)'
<1>1. /\ TypeOK /\ row \in [Intent -> Row] /\ run \in [Intent -> Coroutine]
      /\ run[i] \in Coroutine /\ Acquired(i) \in [Leg -> 0 .. Quantity]
  BY RunFacts, BoughtType DEF IInv, TypeOK
<1>2. row'[i] = Bought(i) /\ held' = held /\ BuyAnswered(i) /\ run[i].pc = "buy"
  BY <1>1 DEF Unwind, BuyAnswered
<1>3. PICK k \in Leg :
        /\ run' = [run EXCEPT ![i] = [@ EXCEPT !.pc = "sell", !.leg = k, !.got = Acquired(i)]]
        /\ Sell(i, k, Acquired(i)[k])
  BY DEF Unwind
<1>4. run'[i].pc = "sell" /\ run'[i].leg = k
  BY <1>1, <1>3 DEF Coroutine
<1>5. Submitted(row[i]) /\ WhileBuying(i)
  BY <1>2, RunningIsCertain DEF WorkInv, Work
<1>6. Submitted(row'[i])
  BY <1>1, <1>2, <1>5, AnswerFacts DEF Submitted
<1>7. Bought(i).leg[k].bought = Acquired(i)[k] /\ Acquired(i)[k] \in 0 .. Quantity
  BY <1>1, <1>5, AcquiredRecorded
<1>8. \A l \in Leg : /\ order[i][l].buy # "open" /\ order[i][l].sell # "open"
                     /\ held[i][l] = Bought(i).leg[l].bought - Bought(i).leg[l].sold
                     /\ held[i][l] = Acquired(i)[l]
  BY <1>2, BuySettles
<1> QED BY <1>1, <1>2, <1>3, <1>4, <1>6, <1>7, <1>8, OfferMatch

LEMMA NextSaleMatch ==
  ASSUME IInv, WorkInv, NEW i \in Intent, Matched(i), NextSale(i) PROVE Matched(i)'
<1>1. /\ TypeOK /\ row \in [Intent -> Row] /\ run \in [Intent -> Coroutine]
      /\ run[i] \in Coroutine /\ run[i].got \in [Leg -> 0 .. Quantity]
  BY RunFacts DEF IInv, TypeOK
<1>2. row'[i] = Sold(i) /\ held' = held /\ SellAnswered(i) /\ run[i].pc = "sell"
  BY <1>1 DEF NextSale, SellAnswered
<1>3. PICK k \in Leg :
        /\ FirstOf(k, ToSell(run[i].got, run[i].leg))
        /\ run' = [run EXCEPT ![i].leg = k]
        /\ Sell(i, k, run[i].got[k])
  BY DEF NextSale
<1>4. run'[i].pc = "sell" /\ run'[i].leg = k
  BY <1>1, <1>2, <1>3 DEF Coroutine
<1>5. Submitted(row[i]) /\ WhileSelling(i)
  BY <1>2, RunningIsCertain DEF WorkInv, Work
<1>6. Submitted(row'[i])
  BY <1>1, <1>2, <1>5, AnswerFacts DEF Submitted
<1>7. k > run[i].leg
  BY <1>3 DEF FirstOf, ToSell
<1>8. Sold(i).leg[k].bought = run[i].got[k] /\ Sold(i).leg[k].sold = 0
  BY <1>1, <1>5, <1>7, SaleRecorded
<1>9. \A l \in Leg : /\ order[i][l].buy # "open" /\ order[i][l].sell # "open"
                     /\ held[i][l] = Sold(i).leg[l].bought - Sold(i).leg[l].sold
  BY <1>2, SaleSettles
<1>10. run[i].got[k] \in 0 .. Quantity
  BY <1>1
<1>11. held[i][k] = run[i].got[k]
  BY <1>8, <1>9, <1>10
<1> QED BY <1>1, <1>2, <1>3, <1>4, <1>6, <1>8, <1>9, <1>10, <1>11, OfferMatch

\* A way out that heard its answer leaves every leg settled; one that did not leaves an
\* answer that counts as lost.
LEMMA EndMatch ==
  ASSUME IInv, WorkInv, NEW i \in Intent, Matched(i), order' = order, held' = held,
         run'[i] = Idle, row'[i].state \in {"FILLED", "FAILED", "UNKNOWN"},
         \/ Uncertain(row'[i])
         \/ BuyAnswered(i) /\ row'[i].leg = Bought(i).leg
         \/ SellAnswered(i) /\ row'[i].leg = Sold(i).leg
  PROVE  Matched(i)'
<1>1. Submitted(row'[i])
  BY DEF Submitted, NoRow
<1>2. \A l \in Leg : Sellable(i, l)'
  BY DEF Matched, Sellable
<1>3. ASSUME ~Uncertain(row'[i]) PROVE Accounted(i)'
  <2>1. ASSUME NEW l \in Leg PROVE Settled(i, l)'
    <3>1. CASE BuyAnswered(i) /\ row'[i].leg = Bought(i).leg
      <4>1. /\ order[i][l].buy # "open" /\ order[i][l].sell # "open"
            /\ held[i][l] = Bought(i).leg[l].bought - Bought(i).leg[l].sold
        BY <3>1, BuySettles
      <4> QED BY <3>1, <4>1 DEF Settled
    <3>2. CASE SellAnswered(i) /\ row'[i].leg = Sold(i).leg
      <4>1. /\ order[i][l].buy # "open" /\ order[i][l].sell # "open"
            /\ held[i][l] = Sold(i).leg[l].bought - Sold(i).leg[l].sold
        BY <3>2, SaleSettles
      <4> QED BY <3>2, <4>1 DEF Settled
    <3> QED BY <1>3, <3>1, <3>2
  <2> QED BY <2>1 DEF Accounted, Idle
<1> QED BY <1>1, <1>2, <1>3 DEF Matched

LEMMA ResumeMatch ==
  ASSUME IInv, WorkInv, NEW i \in Intent, Matched(i), Resume(i) PROVE Matched(i)'
<1>1. /\ TypeOK /\ row \in [Intent -> Row] /\ run \in [Intent -> Coroutine]
      /\ row[i] \in Row /\ run[i].leg \in Leg
  BY RunFacts DEF IInv, TypeOK
<1>2. Bought(i) \in Row /\ Sold(i) \in Row
  BY <1>1, BoughtType, SoldType
<1>3. CASE Complete(i)
  <2>1. row'[i].state = "FILLED" /\ row'[i].leg = Bought(i).leg
    BY <1>1, <1>2, <1>3, TransitionFacts DEF Complete
  <2> QED BY <1>1, <1>3, <2>1, EndMatch DEF Complete
<1>4. CASE GiveUp(i)
  <2>1. row'[i].state = "FAILED" /\ row'[i].leg = Bought(i).leg
    BY <1>1, <1>2, <1>4, TransitionFacts DEF GiveUp
  <2> QED BY <1>1, <1>4, <2>1, EndMatch DEF GiveUp
<1>5. CASE Unwound(i)
  <2>1. row'[i].state = "FAILED" /\ row'[i].leg = Sold(i).leg
    BY <1>1, <1>2, <1>5, TransitionFacts DEF Unwound
  <2> QED BY <1>1, <1>5, <2>1, EndMatch DEF Unwound
<1>6. ASSUME NEW r \in Row, Uncertain(r), row'[i] = Transition(r, "UNKNOWN")
      PROVE  row'[i].state = "UNKNOWN" /\ Uncertain(row'[i])
  BY <1>6, TransitionFacts, UncertainKept
<1>7. /\ RecordBuy(row[i], run[i].leg, "unknown", 0, 0) \in Row
      /\ RecordSell(row[i], run[i].leg, "unknown", 0, 0) \in Row
  BY <1>1, ZeroQuantity, RecordBuyType, RecordSellType DEF Outcome
<1>8. /\ Uncertain(RecordBuy(row[i], run[i].leg, "unknown", 0, 0))
      /\ Uncertain(RecordSell(row[i], run[i].leg, "unknown", 0, 0))
  BY <1>1, LostIsUncertain
<1>9. CASE BuyLost(i)
  <2>1. row'[i] = Transition(RecordBuy(row[i], run[i].leg, "unknown", 0, 0), "UNKNOWN")
    BY <1>1, <1>9 DEF BuyLost
  <2>2. row'[i].state = "UNKNOWN" /\ Uncertain(row'[i])
    BY <1>6, <1>7, <1>8, <2>1
  <2> QED BY <1>1, <1>9, <2>2, EndMatch DEF BuyLost
<1>10. CASE SellLost(i)
  <2>1. row'[i] = Transition(RecordSell(row[i], run[i].leg, "unknown", 0, 0), "UNKNOWN")
    BY <1>1, <1>10 DEF SellLost
  <2>2. row'[i].state = "UNKNOWN" /\ Uncertain(row'[i])
    BY <1>6, <1>7, <1>8, <2>1
  <2> QED BY <1>1, <1>10, <2>2, EndMatch DEF SellLost
<1> QED BY <1>3, <1>4, <1>5, <1>9, <1>10, NextLegMatch, UnwindMatch, NextSaleMatch DEF Resume

\* The venue decides a buy: the one in flight, or one whose answer was lost.
LEMMA VenueBuysMatch ==
  ASSUME IInv, NEW i \in Intent, NEW k \in Leg, NEW f \in 0 .. Quantity, Matched(i),
         VenueBuys(i, k, f)
  PROVE  Matched(i)'
<1>1. /\ TypeOK /\ order \in [Intent -> [Leg -> VenueOrder]] /\ held \in [Intent -> [Leg -> Int]]
      /\ order[i][k] \in VenueOrder /\ order[i][k].buy = "open" /\ held[i][k] \in Int
      /\ row' = row /\ run' = run
  BY DEF IInv, TypeOK, VenueBuys
<1>2. order'[i][k] = [order[i][k] EXCEPT !.buy = "done", !.bought = f]
  BY <1>1 DEF VenueBuys
<1>3. /\ order'[i][k].buy = "done" /\ order'[i][k].bought = f
      /\ order'[i][k].sell = order[i][k].sell /\ order'[i][k].sale = order[i][k].sale
      /\ held'[i][k] = held[i][k] + f
  BY <1>1, <1>2 DEF VenueOrder, VenueBuys
<1>4. ASSUME NEW l \in Leg, l # k
      PROVE  order'[i][l] = order[i][l] /\ held'[i][l] = held[i][l]
  BY <1>1, <1>4 DEF VenueBuys
<1>5. order[i][k].bought = 0
  BY <1>1 DEF IInv, VenueInv
<1>6. Submitted(row[i])
  BY <1>1 DEF Matched
<1>7. f \in Nat
  BY ExecutionConstants
<1>8. ASSUME NEW l \in Leg PROVE Sellable(i, l)'
  <2>1. CASE l = k
    <3>1. Sellable(i, k) /\ order[i][k].sale \in 0 .. Quantity
      BY <1>1 DEF Matched, VenueOrder
    <3>2. held'[i][k] >= held[i][k]
      BY <1>1, <1>3, <1>7
    <3>3. order[i][k].sale \in Nat
      BY <3>1
    <3> QED BY <1>1, <1>3, <1>7, <2>1, <3>1, <3>2, <3>3 DEF Sellable
  <2>2. CASE l # k
    BY <1>4, <2>2 DEF Matched, Sellable
  <2> QED BY <2>1, <2>2
<1>9. ASSUME ~Uncertain(row[i]) PROVE Accounted(i)'
  <2>1. Accounted(i)
    BY <1>9 DEF Matched
  <2>2. run[i].pc # "idle" /\ run[i].leg = k
    BY <1>1, <2>1 DEF Accounted, Settled
  <2>3. InFlight(i, k) /\ run[i].pc = "buy"
    BY <1>1, <2>1, <2>2 DEF Accounted, InFlight, TypeOK, Coroutine
  <2>4. InFlight(i, k)'
    BY <1>1, <1>3, <1>5, <1>7, <2>3 DEF InFlight
  <2>5. ASSUME NEW l \in Leg, l # k PROVE Settled(i, l)'
    BY <1>1, <1>4, <2>1, <2>2, <2>5 DEF Accounted, Settled
  <2>6. ASSUME NEW l \in Leg, l > k PROVE order'[i][l].buy = "none"
    <3>1. l # k
      BY <2>6, LegFacts
    <3> QED BY <1>4, <2>1, <2>2, <2>3, <2>6, <3>1 DEF Accounted
  <2> QED BY <1>1, <2>2, <2>4, <2>5, <2>6 DEF Accounted
<1> QED BY <1>1, <1>6, <1>8, <1>9 DEF Matched

\* The venue decides a sale.
LEMMA VenueSellsMatch ==
  ASSUME IInv, NEW i \in Intent, NEW k \in Leg, NEW f \in 0 .. Quantity, Matched(i),
         VenueSells(i, k, f)
  PROVE  Matched(i)'
<1>1. /\ TypeOK /\ order \in [Intent -> [Leg -> VenueOrder]] /\ held \in [Intent -> [Leg -> Int]]
      /\ order[i][k] \in VenueOrder /\ order[i][k].sell = "open" /\ held[i][k] \in Int
      /\ f <= order[i][k].sale /\ row' = row /\ run' = run
  BY DEF IInv, TypeOK, VenueSells
<1>2. order'[i][k] = [order[i][k] EXCEPT !.sell = "done", !.sale = f]
  BY <1>1 DEF VenueSells
<1>3. /\ order'[i][k].buy = order[i][k].buy /\ order'[i][k].bought = order[i][k].bought
      /\ order'[i][k].sell = "done" /\ order'[i][k].sale = f
      /\ held'[i][k] = held[i][k] - f
  BY <1>1, <1>2 DEF VenueOrder, VenueSells
<1>4. ASSUME NEW l \in Leg, l # k
      PROVE  order'[i][l] = order[i][l] /\ held'[i][l] = held[i][l]
  BY <1>1, <1>4 DEF VenueSells
<1>5. \A l \in Leg : order'[i][l].buy = order[i][l].buy
  BY <1>3, <1>4
<1>6. f \in Nat /\ order[i][k].sale \in Nat
  BY <1>1, ExecutionConstants DEF VenueOrder
<1>7. ASSUME NEW l \in Leg PROVE Sellable(i, l)'
  <2>1. CASE l = k
    <3>1. Sellable(i, k)
      BY DEF Matched
    <3>2. f <= held[i][k]
      BY <1>1, <1>6, <3>1 DEF Sellable
    <3>3. held'[i][k] >= 0
      BY <1>1, <1>3, <1>6, <3>2
    <3> QED BY <1>3, <2>1, <3>3 DEF Sellable
  <2>2. CASE l # k
    BY <1>4, <2>2 DEF Matched, Sellable
  <2> QED BY <2>1, <2>2
<1>8. ASSUME ~Uncertain(row[i]) PROVE Accounted(i)'
  <2>1. Accounted(i)
    BY <1>8 DEF Matched
  <2>2. run[i].pc # "idle" /\ run[i].leg = k
    BY <1>1, <2>1 DEF Accounted, Settled
  <2>3. InFlight(i, k) /\ run[i].pc = "sell"
    BY <1>1, <2>1, <2>2 DEF Accounted, InFlight, TypeOK, Coroutine
  <2>4. InFlight(i, k)'
    BY <1>1, <1>3, <2>3 DEF InFlight
  <2>5. ASSUME NEW l \in Leg, l # k PROVE Settled(i, l)'
    BY <1>1, <1>4, <2>1, <2>2, <2>5 DEF Accounted, Settled
  <2> QED BY <1>1, <2>2, <2>3, <2>4, <2>5 DEF Accounted
<1> QED BY <1>1, <1>5, <1>7, <1>8 DEF Matched

LEMMA FaultsGrow == ASSUME TypeOK, [Next]_vars, faults' = 0 PROVE faults = 0
<1>1. faults \in Nat
  BY DEF TypeOK
<1>2. faults' \in {faults, faults + 1}
  BY ZenonT(30) DEF Next, vars, Loop, Sweep, Cycle, Operator, Decline, ApproveRefused, Approve,
         Submit, Resume, NextLeg, Complete, GiveUp, Unwind, BuyLost, NextSale, Unwound,
         SellLost, Caller, ExecuteDirectly, BeginReconcile, ReadPositions, Reconcile, Venue,
         VenueBuys, VenueSells, Suspend, Tick, TripHalt, ClearHalt, Fault, Commit, Abort, Crash
<1> QED BY <1>1, <1>2

LEMMA MatchNext == ASSUME IInv, WorkInv, MatchInv, [Next]_vars PROVE MatchInv'
<1> SUFFICES ASSUME faults' = 0, NEW i \in Intent PROVE Matched(i)'
  BY DEF MatchInv
<1>1. faults = 0 /\ Matched(i)
  BY FaultsGrow DEF MatchInv, IInv
<1>2. CASE Decides(i)
  BY <1>1, <1>2, VenueBuysMatch, VenueSellsMatch DEF Decides
<1> QED BY <1>1, <1>2, QuietSteps, QuietMatch, SubmitMatch, ResumeMatch

LEMMA MatchInit == Init => MatchInv
<1> SUFFICES ASSUME Init, NEW i \in Intent PROVE Matched(i)
  BY DEF MatchInv
<1>1. /\ row[i] = Absent /\ run[i].pc = "idle"
      /\ \A l \in Leg : order[i][l] = NoOrder /\ held[i][l] = 0
  BY DEF Init, Idle
<1>2. \A l \in Leg : row[i].leg[l] = BlankLeg
  BY <1>1 DEF Absent, NewRow
<1>3. \A l \in Leg : Settled(i, l) /\ Sellable(i, l) /\ order[i][l].buy = "none"
  BY <1>1, <1>2 DEF Settled, Sellable, NoOrder, BlankLeg
<1> QED BY <1>1, <1>3 DEF Matched, Accounted

\* What the venue holds is accounted for while nothing is torn down.
THEOREM RecordsKeepPace == Spec => []MatchInv
  BY MatchInit, MatchNext, Invariance, RecordsAreSound, PTL DEF Spec

\* The leg records account for every contract, except for the order in flight.
THEOREM VenueIsOnRecord == Spec => []RecordsMatchVenue
<1>1. MatchInv => RecordsMatchVenue
  <2> SUFFICES ASSUME MatchInv, faults = 0, NEW i \in Intent, NEW l \in Leg,
                      ~Uncertain(row[i]), run[i].pc = "idle" \/ run[i].leg # l
               PROVE  held[i][l] = row[i].leg[l].bought - row[i].leg[l].sold
    BY DEF RecordsMatchVenue
  <2> QED BY DEF MatchInv, Matched, Accounted, Settled
<1> QED BY <1>1, RecordsKeepPace, PTL

\* No order exists for an intent whose row does not say it was submitted.
THEOREM NoOrderUnrecorded == Spec => []OrdersAreRecorded
<1>1. MatchInv => OrdersAreRecorded
  BY DEF MatchInv, Matched, OrdersAreRecorded
<1> QED BY <1>1, RecordsKeepPace, PTL

-----------------------------------------------------------------------------
(* The refinement: while no fault occurs, every step is one BasketLifecycle *)
(* allows, or none of its variables moves.                                  *)

LEMMA PhaseFacts ==
  /\ PhaseOf(NoRow) = "unseen" /\ PhaseOf("AWAITING_HUMAN") = "parked"
  /\ PhaseOf("UNKNOWN") = "lost" /\ PhaseOf("RECONCILING") = "checking"
  /\ PhaseOf("FILLED") = "held" /\ PhaseOf("SUBMITTING") = "live"
  /\ \A s \in {"RISK_REJECTED", "REJECTED", "EXPIRED", "FAILED", "INCIDENT"} :
       PhaseOf(s) = "over"
  BY DEF PhaseOf, NoRow

\* The state a phase stands for, where only one does.
LEMMA PhaseTells ==
  ASSUME NEW s \in OrderState \cup {NoRow}
  PROVE  /\ PhaseOf(s) = "unseen" => s = NoRow
         /\ PhaseOf(s) = "parked" => s = "AWAITING_HUMAN"
         /\ PhaseOf(s) = "lost" => s = "UNKNOWN"
         /\ PhaseOf(s) = "held" => s = "FILLED"
  BY DEF PhaseOf, NoRow

\* A step that leaves every state and notional as it is.
LEMMA Stutters ==
  ASSUME \A i \in Intent : /\ row'[i].state = row[i].state
                           /\ row'[i].notional = row[i].notional,
         held' = held
  PROVE  UNCHANGED Lifecycle!vars
<1>1. [i \in Intent |-> PhaseOf(row'[i].state)] = [i \in Intent |-> PhaseOf(row[i].state)]
  OBVIOUS
<1>2. [i \in Intent |-> IF IsExposed(row'[i].state) THEN row'[i].notional ELSE 0]
        = [i \in Intent |-> IF IsExposed(row[i].state) THEN row[i].notional ELSE 0]
  OBVIOUS
<1> QED BY <1>1, <1>2 DEF Lifecycle!vars

LEMMA UpdatedAt ==
  ASSUME NEW i \in Intent, NEW p, NEW F(_), NEW G(_),
         \A j \in Intent : G(j) = IF j = i THEN p ELSE F(j)
  PROVE  [j \in Intent |-> G(j)] = [[j \in Intent |-> F(j)] EXCEPT ![i] = p]
  OBVIOUS

\* A step that moves one row.
LEMMA Becomes ==
  ASSUME TypeOK, NEW i \in Intent, NEW r, row' = [row EXCEPT ![i] = r], held' = held,
         NEW p, PhaseOf(r.state) = p, NEW n, Committed(r) = n
  PROVE  Lifecycle!Become(i, p, n)
<1>1. \A j \in Intent : row'[j] = IF j = i THEN r ELSE row[j]
  BY DEF TypeOK
<1>2. [j \in Intent |-> PhaseOf(row'[j].state)]
        = [[j \in Intent |-> PhaseOf(row[j].state)] EXCEPT ![i] = p]
  <2>1. \A j \in Intent : PhaseOf(row'[j].state) = IF j = i THEN p ELSE PhaseOf(row[j].state)
    BY <1>1
  <2> QED BY <2>1, UpdatedAt
<1>3. [j \in Intent |-> IF IsExposed(row'[j].state) THEN row'[j].notional ELSE 0]
        = [[j \in Intent |-> IF IsExposed(row[j].state) THEN row[j].notional ELSE 0]
             EXCEPT ![i] = n]
  <2>1. \A j \in Intent : (IF IsExposed(row'[j].state) THEN row'[j].notional ELSE 0)
          = IF j = i THEN n ELSE IF IsExposed(row[j].state) THEN row[j].notional ELSE 0
    BY <1>1 DEF Committed
  <2> QED BY <2>1, UpdatedAt
<1> QED BY <1>2, <1>3 DEF Lifecycle!Become

LEMMA QueueMoves ==
  ASSUME TypeOK, held' = held, NEW lapsed \in SUBSET Intent, NEW arrival \in SUBSET Intent,
         NEW s \in {"AWAITING_HUMAN", "RISK_REJECTED"},
         \A i \in lapsed : /\ row[i].state = "AWAITING_HUMAN"
                           /\ row'[i].state \in {"EXPIRED", "REJECTED"},
         \A i \in arrival : row[i].state = NoRow /\ row'[i].state = s,
         \A i \in Intent : i \notin lapsed /\ i \notin arrival =>
           row'[i].state = row[i].state /\ row'[i].notional = row[i].notional
  PROVE  Lifecycle!Next
<1> DEFINE p == PhaseOf(s)
<1>1. p \in {"parked", "over"} /\ p \in Lifecycle!Phase
  BY PhaseFacts DEF Lifecycle!Phase
<1>2. \A i \in lapsed : PhaseOf(row[i].state) = "parked" /\ PhaseOf(row'[i].state) = "over"
  BY PhaseFacts
<1>3. \A i \in arrival : PhaseOf(row[i].state) = "unseen" /\ PhaseOf(row'[i].state) = p
  BY PhaseFacts
<1> HIDE DEF p
<1>4. \A i \in Intent : PhaseOf(row'[i].state) =
        IF i \in lapsed THEN "over" ELSE IF i \in arrival THEN p ELSE PhaseOf(row[i].state)
  BY <1>2, <1>3
<1>5. \A i \in Intent : (IF IsExposed(row'[i].state) THEN row'[i].notional ELSE 0)
                          = (IF IsExposed(row[i].state) THEN row[i].notional ELSE 0)
  BY DEF IsExposed, NoRow
<1>6. Lifecycle!Requeue(lapsed, arrival, p)
  BY <1>1, <1>2, <1>3, <1>4, <1>5 DEF Lifecycle!Requeue
<1> QED BY <1>1, <1>6 DEF Lifecycle!Next

LEMMA LoopRefines ==
  ASSUME IInv, Loop PROVE Lifecycle!Next
<1>1. TypeOK /\ row \in [Intent -> Row] /\ ExpireStale(row) \in [Intent -> Row]
  BY ExpireStaleType DEF IInv, TypeOK
<1> DEFINE lapsed == {i \in Intent : row[i].state = "AWAITING_HUMAN" /\
                                     row[i].waited > ApprovalTtl}
<1>2. \A i \in lapsed : /\ row[i].state = "AWAITING_HUMAN"
                        /\ ExpireStale(row)[i].state = "EXPIRED"
  BY <1>1, TransitionFacts DEF ExpireStale
<1>3. \A i \in Intent : i \notin lapsed => ExpireStale(row)[i] = row[i]
  BY DEF ExpireStale
<1> HIDE DEF lapsed
<1>4. PICK L \in SUBSET Intent : L = lapsed
  BY DEF lapsed
<1>5. CASE Sweep
  <2>1. row' = ExpireStale(row) /\ held' = held
    BY <1>5 DEF Sweep
  <2>2. {} \in SUBSET Intent /\ "AWAITING_HUMAN" \in {"AWAITING_HUMAN", "RISK_REJECTED"}
    OBVIOUS
  <2>3. \A i \in L : /\ row[i].state = "AWAITING_HUMAN"
                          /\ row'[i].state \in {"EXPIRED", "REJECTED"}
    BY <1>2, <1>4, <2>1
  <2>4. \A i \in Intent : i \notin L /\ i \notin {} =>
          row'[i].state = row[i].state /\ row'[i].notional = row[i].notional
    BY <1>3, <1>4, <2>1
  <2>5. \A i \in {} : row[i].state = NoRow /\ row'[i].state = "AWAITING_HUMAN"
    OBVIOUS
  <2> QED BY ZenonT(30), <1>1, <1>4, <2>1, <2>2, <2>3, <2>4, <2>5, QueueMoves
<1>6. ASSUME NEW j \in Intent, NEW p \in Prices, NEW e \in Edges, NEW a \in QuoteAges,
             Cycle(j, p, e, a)
      PROVE  Lifecycle!Next
  <2> DEFINE r == Consider(ExpireStale(row), Notional(p), e, a)
             s == r.state
  <2>1. /\ row' = [ExpireStale(row) EXCEPT ![j] = r] /\ held' = held
        /\ row[j].state = NoRow
    BY <1>6 DEF Cycle
  <2>2. Notional(p) \in Nat /\ e \in Nat
    BY NotionalType, ExecutionConstants
  <2>3. s \in {"AWAITING_HUMAN", "RISK_REJECTED"}
    BY <2>2, ConsiderFacts
  <2> HIDE DEF r
  <2>4. row'[j].state = s /\ \A i \in Intent : i # j => row'[i] = ExpireStale(row)[i]
    BY <1>1, <2>1
  <2> HIDE DEF s
  <2>10. PICK q \in {"AWAITING_HUMAN", "RISK_REJECTED"} : q = s
    BY <2>3
  <2>5. j \notin L
    BY <1>2, <1>4, <2>1 DEF NoRow
  <2>6. \A i \in L : /\ row[i].state = "AWAITING_HUMAN"
                          /\ row'[i].state \in {"EXPIRED", "REJECTED"}
    BY <1>2, <1>4, <2>4, <2>5
  <2>9. PICK arrival \in SUBSET Intent : arrival = {j}
    OBVIOUS
  <2>7. \A i \in arrival : row[i].state = NoRow /\ row'[i].state = q
    BY <2>1, <2>4, <2>9, <2>10
  <2>8. \A i \in Intent : i \notin L /\ i \notin arrival =>
          row'[i].state = row[i].state /\ row'[i].notional = row[i].notional
    BY <1>3, <1>4, <2>4, <2>9
  <2>11. TypeOK
    BY <1>1
  <2>12. held' = held
    BY <2>1
  <2> QED BY <2>11, <2>12, <2>6, <2>7, <2>8, QueueMoves
<1> QED BY <1>5, <1>6 DEF Loop

LEMMA AnswersRefine ==
  ASSUME IInv, NEW i \in Intent, NEW s \in {"EXPIRED", "REJECTED"},
         row[i].state = "AWAITING_HUMAN", held' = held,
         row' = [row EXCEPT ![i] = Transition(row[i], s)]
  PROVE  Lifecycle!Next
<1>1. TypeOK /\ row \in [Intent -> Row]
  BY DEF IInv, TypeOK
<1>2. row'[i].state = s /\ \A j \in Intent : j # i => row'[j] = row[j]
  BY <1>1, TransitionFacts
<1>3. {i} \in SUBSET Intent /\ {} \in SUBSET Intent
      /\ "AWAITING_HUMAN" \in {"AWAITING_HUMAN", "RISK_REJECTED"}
  OBVIOUS
<1>4. \A j \in {i} : row[j].state = "AWAITING_HUMAN" /\ row'[j].state \in {"EXPIRED", "REJECTED"}
  BY <1>2
<1>5. \A j \in Intent : j \notin {i} /\ j \notin {} =>
        row'[j].state = row[j].state /\ row'[j].notional = row[j].notional
  BY <1>2
<1>6. \A j \in {} : row[j].state = NoRow /\ row'[j].state = "AWAITING_HUMAN"
  OBVIOUS
<1> QED BY ZenonT(30), <1>1, <1>3, <1>4, <1>5, <1>6, QueueMoves

\* A submission is an admission: nothing is lost, and the capital fits.
LEMMA SubmitRefines ==
  ASSUME IInv, SameLegs, NEW i \in Intent, held' = held, Submitting(i)
  PROVE  Lifecycle!Next
<1>0. PICK p \in Prices, e \in Nat, a \in QuoteAges :
        /\ row[i].state \in {NoRow, "AWAITING_HUMAN"}
        /\ Allowed(Notional(p), e, a, Exposure(row, FALSE))
        /\ row' = [row EXCEPT ![i] = Opened(row[i], Notional(p), e)]
        /\ row[i].state = "AWAITING_HUMAN" => ApprovedPrice(i, p)
  BY DEF Submitting
<1> DEFINE r == Opened(row[i], Notional(p), e)
           n == Notional(p)
<1>1. TypeOK /\ row \in [Intent -> Row] /\ n \in Nat /\ row[i] \in Row
  BY NotionalType DEF IInv, TypeOK
<1>2. row' = [row EXCEPT ![i] = r] /\ row'[i] = r
  BY <1>0, <1>1
<1>3. Committed(row'[i]) = n
  BY <1>0, SubmittedWeight
<1>4. r.state = "SUBMITTING"
  BY <1>0, <1>1, OpenedFacts
<1>5. PhaseOf(r.state) = "live"
  BY <1>4, PhaseFacts
<1>6. Committed(r) = n
  BY <1>2, <1>3
<1>7. n > 0 /\ Total(CommittedOf(row)) + n <= MaxTotalExposure
  BY <1>0, CommittedTotal DEF Allowed, Capital
<1>8. CommittedOf(row) \in [Intent -> Nat]
  BY <1>1, WeightTypes
<1>9. Total(CommittedOf(row)) \in Nat
  BY <1>8, TotalType, IntentsFinite
<1> HIDE DEF n, r
<1>10. n \in 1 .. MaxTotalExposure
  BY <1>1, <1>7, <1>9, RiskLimitsValid DEF RiskLimits
<1>11. Lifecycle!Become(i, "live", n)
  BY <1>1, <1>2, <1>5, <1>6, Becomes
<1>12. \A j \in Intent : PhaseOf(row[j].state) # "lost"
  <2> SUFFICES ASSUME NEW j \in Intent, PhaseOf(row[j].state) = "lost" PROVE FALSE
    OBVIOUS
  <2>1. row[j].state \in OrderState \cup {NoRow}
    BY <1>1 DEF Row
  <2>2. row[j].state = "UNKNOWN"
    BY <2>1, PhaseTells
  <2> QED BY <1>0, <2>2, UnknownRefuses
<1>13. PhaseOf(row[i].state) \in {"unseen", "parked"}
  BY <1>0, PhaseFacts
<1> DEFINE c == [j \in Intent |-> IF IsExposed(row[j].state) THEN row[j].notional ELSE 0]
<1>14. Lifecycle!Committed(c) = Total(CommittedOf(row))
  <2>1. CommittedOf(row) = c
    BY DEF CommittedOf, Committed
  <2>2. DOMAIN c = Intent
    OBVIOUS
  <2> HIDE DEF c
  <2>3. UNION {{j} \X (1 .. c[j]) : j \in Intent} = Units(c)
    BY <2>2 DEF Units
  <2>4. Lifecycle!Committed(c) = Total(c)
    BY <2>3 DEF Lifecycle!Committed, Total, Lifecycle!Cardinality, Cardinality
  <2> QED BY <2>1, <2>4
<1>15. Lifecycle!Admit(i, n)
  BY <1>7, <1>11, <1>12, <1>13, <1>14 DEF Lifecycle!Admit
<1> QED BY <1>10, <1>15 DEF Lifecycle!Next

\* A row that moves on keeps its notional, and the venue does not move with it.
LEMMA MovesOn ==
  ASSUME TypeOK, NEW i \in Intent, NEW r, row' = [row EXCEPT ![i] = r], held' = held,
         r.notional = row[i].notional,
         \/ row[i].state = "SUBMITTING" /\ r.state = "UNKNOWN"
         \/ row[i].state = "UNKNOWN" /\ r.state = "RECONCILING"
         \/ row[i].state \in {"SUBMITTING", "RECONCILING"} /\ r.state \in {"FAILED", "INCIDENT"}
         \/ /\ row[i].state \in {"SUBMITTING", "RECONCILING"} /\ r.state = "FILLED"
            /\ \A l \in Leg : held[i][l] = Quantity
  PROVE  Lifecycle!Next
<1>1. PICK c : c = row[i].notional
  OBVIOUS
<1>6. (IF IsExposed(row[i].state) THEN row[i].notional ELSE 0) = c
  BY <1>1 DEF IsExposed
<1>2. CASE row[i].state = "SUBMITTING" /\ r.state = "UNKNOWN"
  <2>1. PhaseOf(row[i].state) = "live" /\ PhaseOf(r.state) = "lost" /\ Committed(r) = c
    BY <1>1, <1>2, PhaseFacts DEF Committed, IsExposed
  <2>2. Lifecycle!Become(i, "lost", c)
    BY <2>1, Becomes
  <2>3. Lifecycle!Lose(i)
    BY <1>6, <2>1, <2>2 DEF Lifecycle!Lose, Lifecycle!Become
  <2> QED BY <2>3 DEF Lifecycle!Next
<1>3. CASE row[i].state = "UNKNOWN" /\ r.state = "RECONCILING"
  <2>1. PhaseOf(row[i].state) = "lost" /\ PhaseOf(r.state) = "checking" /\ Committed(r) = c
    BY <1>1, <1>3, PhaseFacts DEF Committed, IsExposed
  <2>2. Lifecycle!Become(i, "checking", c)
    BY <2>1, Becomes
  <2>3. Lifecycle!Check(i)
    BY <1>6, <2>1, <2>2 DEF Lifecycle!Check, Lifecycle!Become
  <2> QED BY <2>3 DEF Lifecycle!Next
<1>4. CASE row[i].state \in {"SUBMITTING", "RECONCILING"} /\ r.state \in {"FAILED", "INCIDENT"}
  <2>1. /\ PhaseOf(row[i].state) \in {"live", "checking"} /\ PhaseOf(r.state) = "over"
        /\ Committed(r) = 0
    BY <1>4, PhaseFacts DEF Committed, IsExposed
  <2>2. Lifecycle!Become(i, "over", 0)
    BY <2>1, Becomes
  <2>3. Lifecycle!End(i)
    BY <2>1, <2>2 DEF Lifecycle!End
  <2> QED BY <2>3 DEF Lifecycle!Next
<1>5. CASE /\ row[i].state \in {"SUBMITTING", "RECONCILING"} /\ r.state = "FILLED"
           /\ \A l \in Leg : held[i][l] = Quantity
  <2>1. /\ PhaseOf(row[i].state) \in {"live", "checking"} /\ PhaseOf(r.state) = "held"
        /\ Committed(r) = c
    BY <1>1, <1>5, PhaseFacts DEF Committed, IsExposed
  <2>2. Lifecycle!Become(i, "held", c)
    BY <2>1, Becomes
  <2>3. Lifecycle!Hold(i)
    BY <1>5, <1>6, <2>1, <2>2 DEF Lifecycle!Hold, Lifecycle!Become, Lifecycle!Leg, Leg
  <2> QED BY <2>3 DEF Lifecycle!Next
<1> QED BY <1>2, <1>3, <1>4, <1>5

\* A row whose answer was recorded as lost is still a row.
LEMMA LostType ==
  ASSUME TypeOK, NEW i \in Intent
  PROVE  /\ RecordBuy(row[i], run[i].leg, "unknown", 0, 0) \in Row
         /\ RecordSell(row[i], run[i].leg, "unknown", 0, 0) \in Row
  BY RunFacts, ZeroQuantity, RecordBuyType, RecordSellType DEF Outcome

\* A step of an acquisition, or of reconciliation, seen as one of its row.
LEMMA ResumeRefines ==
  ASSUME IInv, FilledIsHeld', ~SharedTickers, NEW i \in Intent, Resume(i)
  PROVE  Lifecycle!Next \/ UNCHANGED Lifecycle!vars
<1>1. /\ TypeOK /\ RunInv /\ row \in [Intent -> Row] /\ row[i] \in Row
      /\ run[i].pc # "idle" => row[i].state = "SUBMITTING"
  BY DEF IInv, UncertainInv, TypeOK
<1>2. PICK r : row' = [row EXCEPT ![i] = r]
  BY DEF Resume, NextLeg, Complete, GiveUp, Unwind, BuyLost, NextSale, Unwound, SellLost
<1>3. held' = held
  BY DEF Resume, NextLeg, Complete, GiveUp, Unwind, BuyLost, NextSale, Unwound, SellLost
<1>4. row'[i] = r /\ \A j \in Intent : j # i => row'[j] = row[j]
  BY <1>1, <1>2
<1>5. row[i].state = "SUBMITTING"
  BY <1>1 DEF Resume, NextLeg, Complete, GiveUp, Unwind, BuyLost, NextSale, Unwound, SellLost,
              BuyAnswered, SellAnswered
<1>6. CASE NextLeg(i) \/ Unwind(i) \/ NextSale(i)
  <2>1. row'[i] \in {Bought(i), Sold(i)}
    BY <1>1, <1>6 DEF NextLeg, Unwind, NextSale
  <2>2. row'[i].state = row[i].state /\ row'[i].notional = row[i].notional
    BY <1>1, <2>1, AnswerFacts
  <2> QED BY <1>3, <1>4, <2>2, Stutters
<1>7. CASE Complete(i) \/ GiveUp(i) \/ BuyLost(i) \/ Unwound(i) \/ SellLost(i)
  <2>1. Ending(i)
    <3>1. Keeping(i) \/ Working(i) \/ Ending(i)
      BY <1>1, ResumeStep
    <3>2. run'[i] = Idle
      BY <1>1, <1>7 DEF Complete, GiveUp, BuyLost, Unwound, SellLost, TypeOK
    <3>3. ~Working(i)
      BY <3>2 DEF Working, Idle
    <3>4. row'[i].state # row[i].state
      BY <1>1, <1>5, <1>7, BoughtType, SoldType, TransitionFacts, LostType
        DEF Complete, GiveUp, BuyLost, Unwound, SellLost
    <3> QED BY <3>1, <3>3, <3>4 DEF Keeping
  <2>2. row'[i].notional = row[i].notional
    BY <1>1, <2>1, EndingNotional
  <2>3. row'[i].state \in {"FILLED", "FAILED", "UNKNOWN"}
    BY <1>1, <2>1, EndingFacts
  <2>4. row'[i].state = "FILLED" => \A l \in Leg : held[i][l] = Quantity
    BY <1>3 DEF FilledIsHeld
  <2> QED BY <1>1, <1>2, <1>3, <1>4, <1>5, <2>2, <2>3, <2>4, MovesOn
<1> QED BY <1>6, <1>7 DEF Resume

LEMMA CheckRefines ==
  ASSUME IInv, FilledIsHeld', ~SharedTickers, NEW i \in Intent,
         BeginReconcile(i) \/ Reconcile(i)
  PROVE  Lifecycle!Next
<1>1. TypeOK /\ row \in [Intent -> Row] /\ row[i] \in Row /\ held' = held
  BY DEF IInv, TypeOK, BeginReconcile, Reconcile
<1>2. PICK s : /\ row' = [row EXCEPT ![i] = Transition(row[i], s)]
               /\ \/ row[i].state = "UNKNOWN" /\ s = "RECONCILING"
                  \/ row[i].state = "RECONCILING" /\ s \in {"FILLED", "FAILED", "INCIDENT"}
  BY DEF BeginReconcile, Reconcile, NextState
<1> DEFINE r == Transition(row[i], s)
<1>3. r.state = s /\ r.notional = row[i].notional
  BY <1>1, TransitionFacts
<1>4. row'[i] = r
  BY <1>1, <1>2
<1>5. s = "FILLED" => \A l \in Leg : held[i][l] = Quantity
  BY <1>1, <1>3, <1>4 DEF FilledIsHeld
<1> HIDE DEF r
<1>6. row' = [row EXCEPT ![i] = r]
  BY <1>2 DEF r
<1> QED BY <1>1, <1>2, <1>3, <1>5, <1>6, MovesOn

\* The venue moves the position of a basket that was admitted and is not held.
LEMMA VenueRefines ==
  ASSUME IInv, VenueInv', TypeOK', NEW i \in Intent, Matched(i), Matched(i)',
         ~SharedTickers, Decides(i)
  PROVE  Lifecycle!Next
<1>1. /\ TypeOK /\ order \in [Intent -> [Leg -> VenueOrder]] /\ held \in [Intent -> [Leg -> Int]]
      /\ row[i] \in Row
  BY DEF IInv, TypeOK
<1>2. PICK k \in Leg, f \in 0 .. Quantity : VenueBuys(i, k, f) \/ VenueSells(i, k, f)
  BY DEF Decides
<1>3. row' = row /\ \E q : held' = [held EXCEPT ![i][k] = q]
  BY <1>2 DEF VenueBuys, VenueSells
<1>4. held' = [held EXCEPT ![i][k] = held'[i][k]]
  BY <1>1, <1>3
<1>5. held'[i][k] \in 0 .. Quantity
  <2>1. /\ held'[i][k] \in Int /\ order'[i][k] \in VenueOrder
        /\ held'[i][k] <= order'[i][k].bought /\ held'[i][k] >= 0
    BY DEF TypeOK, VenueInv, Matched, Sellable
  <2>2. order'[i][k].bought \in 0 .. Quantity
    BY <2>1 DEF VenueOrder
  <2> QED BY <2>1, <2>2, ExecutionConstants
<1>6. order[i][k].buy # "none" \/ Short(i)
  BY <1>2 DEF VenueBuys, VenueSells, IInv, VenueInv
<1>7. Submitted(row[i])
  BY <1>6 DEF Matched, Short
<1>8. row[i].state # "FILLED"
  <2> SUFFICES ASSUME row[i].state = "FILLED" PROVE FALSE
    OBVIOUS
  <2>1. \A l \in Leg : InFull(i, l)
    BY DEF IInv, FilledInv, Filled
  <2>2. ~Short(i)
    BY <2>1, ExecutionConstants DEF InFull, Short
  <2>3. order[i][k].buy = "open"
    BY <1>2, <2>2 DEF VenueBuys, VenueSells, IInv, VenueInv
  <2> QED BY <2>1, <2>3 DEF InFull
<1>9. ~(PhaseOf(row[i].state) \in {"unseen", "parked", "held"})
  <2>1. row[i].state \in OrderState \cup {NoRow}
    BY <1>1 DEF Row
  <2>2. row[i].state \notin {NoRow, "AWAITING_HUMAN", "FILLED"}
    BY <1>7, <1>8 DEF Submitted
  <2> QED BY <2>1, <2>2, PhaseTells
<1>10. Lifecycle!Move(i, k, held'[i][k])
  BY <1>3, <1>4, <1>9 DEF Lifecycle!Move
<1>11. k \in Lifecycle!Leg
  BY DEF Leg, Lifecycle!Leg
<1> QED BY <1>5, <1>10, <1>11 DEF Lifecycle!Next

LEMMA StepRefines ==
  ASSUME IInv, MatchInv, IInv', MatchInv', FilledIsHeld', SameLegs, ~SharedTickers,
         [Next]_vars, faults = 0, faults' = 0
  PROVE  Lifecycle!Next \/ UNCHANGED Lifecycle!vars
<1>1. TypeOK /\ row \in [Intent -> Row]
  BY DEF IInv, TypeOK
<1>2. row' = row /\ held' = held => UNCHANGED Lifecycle!vars
  BY Stutters
<1>3. CASE UNCHANGED vars
  BY <1>2, <1>3 DEF vars
<1>4. ASSUME NEW i \in Intent, Decline(i) PROVE Lifecycle!Next
  <2>1. row[i].state = "AWAITING_HUMAN"
    BY <1>4 DEF Decline, CanTransition, Transitions
  <2> QED BY <1>4, <2>1, AnswersRefine DEF Decline
<1>5. ASSUME NEW i \in Intent, NEW p \in Prices, NEW a \in QuoteAges, ApproveRefused(i, p, a)
      PROVE  Lifecycle!Next
  BY <1>5, AnswersRefine DEF ApproveRefused
<1>6. ASSUME NEW i \in Intent, NEW p \in Prices, NEW a \in QuoteAges, Approve(i, p, a)
      PROVE  Lifecycle!Next
  <2>1. IInv /\ SameLegs /\ held' = held
    BY <1>6 DEF Approve
  <2>2. Submitting(i)
    BY <1>1, <1>6 DEF Approve, Passes, Gates, Submit, Submitting, Row, TypeOK
  <2> QED BY <2>1, <2>2, SubmitRefines
<1>7. ASSUME NEW i \in Intent, NEW p \in Prices, NEW e \in Edges, NEW a \in QuoteAges,
             NEW h \in BOOLEAN, ExecuteDirectly(i, p, e, a, h)
      PROVE  Lifecycle!Next
  <2>1. IInv /\ SameLegs /\ held' = held
    BY <1>7 DEF ExecuteDirectly
  <2>2. Submitting(i)
    BY <1>1, <1>7, ExecutionConstants
      DEF ExecuteDirectly, Gates, Submit, Submitting, TypeOK, NoRow
  <2> QED BY <2>1, <2>2, SubmitRefines
<1>8. ASSUME NEW i \in Intent, NEW l \in Leg, Venue(i, l) PROVE Lifecycle!Next
  <2>1. Matched(i) /\ Matched(i)' /\ VenueInv' /\ TypeOK'
    BY DEF MatchInv, IInv
  <2>2. Decides(i)
    BY <1>8 DEF Venue, Decides
  <2> QED BY <2>1, <2>2, VenueRefines
<1>9. ASSUME NEW i \in Intent, Suspend(i) \/ \E stray \in BOOLEAN : ReadPositions(i, stray)
      PROVE  UNCHANGED Lifecycle!vars
  BY <1>2, <1>9 DEF Suspend, ReadPositions
<1>10. CASE Tick
  <2>1. \A i \in Intent : row'[i] = row[i] \/ row'[i] = [row[i] EXCEPT !.waited = @ + 1]
    BY <1>10 DEF Tick
  <2>2. \A i \in Intent : row'[i].state = row[i].state /\ row'[i].notional = row[i].notional
    BY ZenonT(30), <1>1, <2>1 DEF Row
  <2> QED BY <1>10, <2>2, Stutters DEF Tick
<1>11. CASE TripHalt \/ ClearHalt \/ Commit
  BY <1>2, <1>11 DEF TripHalt, ClearHalt, Commit
<1>12. ~(\E i \in Intent : Abort(i)) /\ ~(\E sold \in AmountsSold : Crash(sold))
  BY DEF Abort, Crash
<1> QED BY <1>3, <1>4, <1>5, <1>6, <1>7, <1>8, <1>9, <1>10, <1>11, <1>12, LoopRefines,
           ResumeRefines, CheckRefines DEF Next, Operator, Caller, Fault

LEMMA InitRefines == Init => Lifecycle!Init
<1> SUFFICES ASSUME Init PROVE Lifecycle!Init
  OBVIOUS
<1>1. \A i \in Intent : row[i].state = NoRow
  BY DEF Init, Absent, NewRow
<1>2. \A i \in Intent : PhaseOf(row[i].state) = "unseen" /\ ~IsExposed(row[i].state)
  BY <1>1, PhaseFacts DEF IsExposed, NoRow
<1>3. held = [i \in Intent |-> [l \in Leg |-> 0]]
  BY DEF Init
<1> QED BY <1>2, <1>3 DEF Lifecycle!Init, Lifecycle!Leg, Leg

\* The execution path keeps every promise of the abstract specification while nothing is
\* torn down: for any intents, legs, prices and limits, if what is approved are the legs
\* proposed and no two baskets share a ticker.
THEOREM LifecycleIsKept ==
  SameLegs /\ ~SharedTickers => (Spec /\ [](faults = 0) => KeepsLifecycle)
<1> SUFFICES ASSUME SameLegs, ~SharedTickers
             PROVE  Spec /\ [](faults = 0) => KeepsLifecycle
  OBVIOUS
<1>1. /\ IInv /\ MatchInv /\ FilledIsHeld /\ faults = 0
      /\ (IInv /\ MatchInv /\ FilledIsHeld /\ faults = 0)' /\ [Next]_vars
      => [Lifecycle!Next]_(Lifecycle!vars)
  BY StepRefines
<1> QED BY <1>1, InitRefines, Invariance, RecordsKeepPace, FilledBasketsAreHeld, PTL
        DEF Spec, KeepsLifecycle, Lifecycle!Spec

=============================================================================
