------------------------------ MODULE Execution ------------------------------
(***************************************************************************)
(* The path from a candidate to a position: TradingLoop (loop.py),         *)
(* OperatorConsole (operator.py), Executor (executor.py), ExecutionStore   *)
(* and StoreJournal (store.py), Reconciler (reconcile.py), over a venue    *)
(* and a registry that are external.                                       *)
(*                                                                         *)
(* Everything the process does between two awaits is one action: the code  *)
(* is single-threaded asyncio, and only gateway.place, gateway.sell and    *)
(* PositionSource.positions suspend.                                       *)
(*                                                                         *)
(* A basket has the same limit price on every leg, and a fill costs its    *)
(* limit price, as PaperGateway's do.  row[i].waited is now - updated_ts   *)
(* while the row is AWAITING_HUMAN, saturated just past the TTL.           *)
(***************************************************************************)
EXTENDS RiskGate, TradingHalt, Functions

CONSTANTS
  Intent,         (* intent ids                                             *)
  NumLegs,        (* legs per basket, in acquisition order                  *)
  Quantity,       (* contracts per leg                                      *)
  Prices,         (* limit prices a candidate may have                      *)
  Edges,          (* net edges the detector may report                      *)
  QuoteAges,      (* ages of the oldest quote priced; may hold AgeUnknown   *)
  ApprovalTtl,    (* loop.APPROVAL_TTL, in ticks                            *)
  CompiledIn,     (* buildflags: some execution path is compiled in         *)
  SameLegs,       (* approve() is called with the legs the loop proposed    *)
  SharedTickers,  (* the intents' baskets are of the same tickers           *)
  Alarms,         (* halt causes raised from outside the rows               *)
  MaxFaults       (* bound on crashes and aborted acquisitions              *)

Leg == 1 .. NumLegs
Notional(price) == price * Quantity * NumLegs

ASSUME ExecutionConstants ==
  /\ IsFiniteSet(Intent)
  /\ NumLegs \in Nat \ {0}
  /\ Quantity \in Nat \ {0}
  /\ Prices \subseteq Nat \ {0}
  /\ Edges \subseteq Nat
  /\ QuoteAges \subseteq Nat \cup {AgeUnknown}
  /\ ApprovalTtl \in Nat
  /\ CompiledIn \in BOOLEAN /\ SameLegs \in BOOLEAN /\ SharedTickers \in BOOLEAN
  /\ Alarms \subseteq HaltCause
  /\ MaxFaults \in Nat

VARIABLES
  row,       (* order_intent and its leg_orders, as this session sees them  *)
  durable,   (* the same rows as last committed                             *)
  run,       (* the executor coroutine of each intent                       *)
  order,     (* the venue's orders, by intent and leg (the idempotency key) *)
  held,      (* contracts the venue holds for each leg of each intent       *)
  report,    (* what a check of each intent concluded, not applied yet      *)
  standing,  (* whether the registry still approves the relationship        *)
  faults     (* crashes and aborts so far                                   *)

vars == <<row, durable, run, order, held, report, standing, faults, halt>>

-----------------------------------------------------------------------------
(* Rows                                                                    *)

Outcome == {"filled", "partial", "rejected", "unknown"}
NoOutcome == "none"

BlankLeg == [buy |-> NoOutcome, bought |-> 0, sell |-> NoOutcome, sold |-> 0]

\* ExecutionStore.open_intent's row, and the absence of one.
NewRow(state, notional, edge) ==
  [ state |-> state, notional |-> notional, edge |-> edge, waited |-> 0,
    spent |-> 0, recovered |-> 0, leg |-> [l \in Leg |-> BlankLeg] ]

Absent == NewRow(NoRow, 0, 0)
OpenIntent(notional, edge) == NewRow("PROPOSED", notional, edge)

\* ExecutionStore.transition.  It raises on an illegal move, so every action that
\* calls it on a row of unknown state has CanTransition as a conjunct.
Transition(r, target) == [r EXCEPT !.state = target, !.waited = 0]

\* ExecutionStore.record_leg.
RecordBuy(r, l, outcome, filled, cost) ==
  [r EXCEPT !.leg[l] = [@ EXCEPT !.buy = outcome, !.bought = filled], !.spent = @ + cost]
RecordSell(r, l, outcome, filled, cost) ==
  [r EXCEPT !.leg[l] = [@ EXCEPT !.sell = outcome, !.sold = filled],
            !.recovered = @ + cost]

\* ExecutionStore.realised_loss_since, with every row updated since the day began.
RealisedLoss(rows) ==
  Cardinality(UNION {{i} \X (rows[i].recovered + 1 .. rows[i].spent) : i \in Intent})

\* ExecutionStore.exposure.
Pending(r, includePending) == includePending /\ r.state = "AWAITING_HUMAN"
Reported(r, includePending) == IsExposed(r.state) \/ Pending(r, includePending)
Unmatched(r) == IF r.state \in {"FILLED", "AWAITING_HUMAN"} THEN 0 ELSE r.notional

Exposure(rows, includePending) ==
  [ intents |->
      { [ intent |-> i, state |-> rows[i].state, committed |-> rows[i].notional,
          unmatched |-> Unmatched(rows[i]),
          reserved |-> Pending(rows[i], includePending) ] :
        i \in {j \in Intent : Reported(rows[j], includePending)} },
    lossToday |-> RealisedLoss(rows) ]

-----------------------------------------------------------------------------
(* The executor coroutine and the venue                                    *)

NothingGot == [l \in Leg |-> 0]
Idle == [pc |-> "idle", leg |-> 1, price |-> 0, got |-> NothingGot]

NoReport == "none"
NoOrder == [buy |-> "none", bought |-> 0, sell |-> "none", sale |-> 0]

Init ==
  /\ row = [i \in Intent |-> Absent]
  /\ durable = row
  /\ run = [i \in Intent |-> Idle]
  /\ order = [i \in Intent |-> [l \in Leg |-> NoOrder]]
  /\ held = [i \in Intent |-> [l \in Leg |-> 0]]
  /\ report = [i \in Intent |-> NoReport]
  /\ standing = [i \in Intent |-> TRUE]
  /\ faults = 0
  /\ halt = NotHalted

\* Mutant: a key the venue has seen is bought again.
PlaceAgain(i, l) == order' = [order EXCEPT ![i][l].buy = "open"]

\* gateway.place: idempotent on the leg's key, so a key the venue has seen is not
\* bought again.  gateway.sell: sent as it is asked.
Place(i, l) ==
  order' = IF order[i][l].buy = "none"
             THEN [order EXCEPT ![i][l].buy = "open"] ELSE order

Sell(i, l, quantity) ==
  order' = [order EXCEPT ![i][l] = [@ EXCEPT !.sell = "open", !.sale = quantity]]

-----------------------------------------------------------------------------
(* The loop                                                                *)

\* TradingLoop.expire_stale.
ExpireStale(rows) ==
  [i \in Intent |->
     IF rows[i].state = "AWAITING_HUMAN" /\ rows[i].waited > ApprovalTtl
       THEN Transition(rows[i], "EXPIRED") ELSE rows[i]]

\* The body of TradingLoop.cycle for one candidate whose relationship is approved.
Consider(rows, notional, edge, age) ==
  IF Allowed(notional, edge, age, Exposure(rows, TRUE))
    THEN Transition(Transition(OpenIntent(notional, edge), "RISK_APPROVED"),
                    "AWAITING_HUMAN")
    ELSE Transition(OpenIntent(notional, edge), "RISK_REJECTED")

\* Mutant: a cycle without candidates returns early.
SweepNothing == MayTrade /\ UNCHANGED vars

\* TradingLoop.cycle with no candidate, or none whose relationship is approved.  A
\* halted cycle returns before it sweeps.
Sweep ==
  /\ MayTrade
  /\ row' = ExpireStale(row)
  /\ UNCHANGED <<durable, run, order, held, report, standing, faults, halt>>

\* TradingLoop.cycle with one candidate.  A cycle over several is a run of these: the
\* cycle never suspends, and a second sweep at the same instant finds nothing.
Cycle(i, price, edge, age) ==
  /\ MayTrade
  /\ row[i].state = NoRow
  /\ standing[i]
  /\ row' = [ExpireStale(row) EXCEPT
               ![i] = Consider(ExpireStale(row), Notional(price), edge, age)]
  /\ UNCHANGED <<durable, run, order, held, report, standing, faults, halt>>

-----------------------------------------------------------------------------
(* The executor: from the gates to the first order                         *)

\* Mutant: the snapshot left at its default, an empty one.
GatesOnNothingOpen(notional, edge, age, relationshipApproved, humanApproved) ==
  /\ CompiledIn
  /\ relationshipApproved
  /\ humanApproved
  /\ Allowed(notional, edge, age, [intents |-> {}, lossToday |-> 0])

\* Executor._acquire's gates, in one place.
Gates(notional, edge, age, relationshipApproved, humanApproved) ==
  /\ CompiledIn
  /\ relationshipApproved
  /\ humanApproved
  /\ Allowed(notional, edge, age, Exposure(row, FALSE))

\* StoreJournal.opened.
Opened(r, notional, edge) ==
  IF r.state = NoRow
    THEN Transition(Transition(OpenIntent(notional, edge), "RISK_APPROVED"), "SUBMITTING")
    ELSE Transition(r, "SUBMITTING")

\* Mutant: the first order is sent before anything is written.
SubmitUnwritten(i, price, edge) ==
  /\ row' = row
  /\ run' = [run EXCEPT ![i] = [pc |-> "buy", leg |-> 1, price |-> price,
                                got |-> NothingGot]]
  /\ Place(i, 1)

\* Past the gates: the row is SUBMITTING before the first order is sent.
Submit(i, price, edge) ==
  /\ row' = [row EXCEPT ![i] = Opened(row[i], Notional(price), edge)]
  /\ run' = [run EXCEPT ![i] = [pc |-> "buy", leg |-> 1, price |-> price,
                                got |-> NothingGot]]
  /\ Place(i, 1)

\* Acquisition of an intent the loop never parked: the journal makes its row.  A
\* refusal writes nothing, since there is no row to write it on.
ExecuteDirectly(i, price, edge, age, humanApproved) ==
  /\ row[i].state = NoRow
  /\ Gates(Notional(price), edge, age, standing[i], humanApproved)
  /\ Submit(i, price, edge)
  /\ UNCHANGED <<durable, held, report, standing, faults, halt>>

-----------------------------------------------------------------------------
(* The operator                                                            *)

\* OperatorConsole.reject.
Decline(i) ==
  /\ CanTransition(row[i].state, "REJECTED")
  /\ row' = [row EXCEPT ![i] = Transition(@, "REJECTED")]
  /\ UNCHANGED <<durable, run, order, held, report, standing, faults, halt>>

\* OperatorConsole.approve passes relationship_approved=True and human_approved=True;
\* the size and the edge are the row's, the legs and the quote age the caller's.
Passes(i, price, age) ==
  /\ row[i].waited <= ApprovalTtl
  /\ Gates(Notional(price), row[i].edge, age, TRUE, TRUE)

ApprovedPrice(i, price) == SameLegs => Notional(price) = row[i].notional

\* OperatorConsole.approve, when a control refuses: too late, or no longer viable.
ApproveRefused(i, price, age) ==
  /\ row[i].state = "AWAITING_HUMAN"
  /\ ApprovedPrice(i, price)
  /\ ~Passes(i, price, age)
  /\ row' = [row EXCEPT ![i] = Transition(@, "EXPIRED")]
  /\ UNCHANGED <<durable, run, order, held, report, standing, faults, halt>>

\* OperatorConsole.approve, when the legs go.
Approve(i, price, age) ==
  /\ row[i].state = "AWAITING_HUMAN"
  /\ ApprovedPrice(i, price)
  /\ Passes(i, price, age)
  /\ Submit(i, price, row[i].edge)
  /\ UNCHANGED <<durable, held, report, standing, faults, halt>>

-----------------------------------------------------------------------------
(* The executor: what each answer leads to                                 *)

BuyOutcome(filled) ==
  IF filled = Quantity THEN "filled" ELSE IF filled > 0 THEN "partial" ELSE "rejected"

\* The row once the answer to the current leg is recorded.
Bought(i) ==
  LET l == run[i].leg f == order[i][l].bought
  IN RecordBuy(row[i], l, BuyOutcome(f), f, f * run[i].price)

BuyAnswered(i) == run[i].pc = "buy" /\ order[i][run[i].leg].buy = "done"

\* A leg filled in full, and another to place.
NextLeg(i) ==
  /\ BuyAnswered(i)
  /\ order[i][run[i].leg].bought = Quantity
  /\ run[i].leg < NumLegs
  /\ row' = [row EXCEPT ![i] = Bought(i)]
  /\ run' = [run EXCEPT ![i] = [@ EXCEPT !.leg = run[i].leg + 1,
                                      !.got[run[i].leg] = Quantity]]
  /\ Place(i, run[i].leg + 1)
  /\ UNCHANGED <<durable, held, report, standing, faults, halt>>

\* The last leg filled in full.
Complete(i) ==
  /\ BuyAnswered(i)
  /\ order[i][run[i].leg].bought = Quantity
  /\ run[i].leg = NumLegs
  /\ row' = [row EXCEPT ![i] = Transition(Bought(i), "FILLED")]
  /\ run' = [run EXCEPT ![i] = Idle]
  /\ UNCHANGED <<durable, order, held, report, standing, faults, halt>>

\* A leg fell short.  Executor._unwind: nothing acquired is a plain failure, else the
\* legs acquired are sold in order.  PARTIAL and UNWINDING stay in the result object:
\* the row is SUBMITTING until the journal's ended().
AcquiredBefore(i) == run[i].got   \* mutant: the short leg's own fill is forgotten

Acquired(i) ==
  [run[i].got EXCEPT ![run[i].leg] = order[i][run[i].leg].bought]

FirstOf(l, legs) == l \in legs /\ \A m \in legs : l <= m
ToSellAgain(got, after) == {l \in Leg : l >= after /\ got[l] > 0}   \* mutant: off by one
ToSell(got, after) == {l \in Leg : l > after /\ got[l] > 0}

GiveUp(i) ==
  /\ BuyAnswered(i)
  /\ order[i][run[i].leg].bought < Quantity
  /\ ToSell(Acquired(i), 0) = {}
  /\ row' = [row EXCEPT ![i] = Transition(Bought(i), "FAILED")]
  /\ run' = [run EXCEPT ![i] = Idle]
  /\ UNCHANGED <<durable, order, held, report, standing, faults, halt>>

Unwind(i) ==
  /\ BuyAnswered(i)
  /\ order[i][run[i].leg].bought < Quantity
  /\ row' = [row EXCEPT ![i] = Bought(i)]
  /\ \E l \in Leg :
       /\ FirstOf(l, ToSell(Acquired(i), 0))
       /\ run' = [run EXCEPT ![i] = [@ EXCEPT !.pc = "sell", !.leg = l, !.got = Acquired(i)]]
       /\ Sell(i, l, Acquired(i)[l])
  /\ UNCHANGED <<durable, held, report, standing, faults, halt>>

\* Mutant: an uncertain leg stops, the intent goes on.
BuyLostGoesOn(i) ==
  /\ run[i].pc = "buy" /\ run[i].leg < NumLegs
  /\ row' = [row EXCEPT ![i] =
               Transition(RecordBuy(@, run[i].leg, "unknown", 0, 0), "UNKNOWN")]
  /\ run' = [run EXCEPT ![i].leg = @ + 1]
  /\ Place(i, run[i].leg + 1)
  /\ UNCHANGED <<durable, held, report, standing, faults, halt>>

\* No usable response to a buy: the whole intent stops.
BuyLost(i) ==
  /\ run[i].pc = "buy"
  /\ row' = [row EXCEPT ![i] =
               Transition(RecordBuy(@, run[i].leg, "unknown", 0, 0), "UNKNOWN")]
  /\ run' = [run EXCEPT ![i] = Idle]
  /\ UNCHANGED <<durable, order, held, report, standing, faults, halt>>

SellAnswered(i) == run[i].pc = "sell" /\ order[i][run[i].leg].sell = "done"

SellOutcome(filled, asked) ==
  IF filled = asked THEN "filled" ELSE IF filled > 0 THEN "partial" ELSE "rejected"

\* Mutant: what was asked is recorded as sold.
SoldAsAsked(i) ==
  LET l == run[i].leg f == run[i].got[l]
  IN RecordSell(row[i], l, "filled", f, f * run[i].price)

Sold(i) ==
  LET l == run[i].leg f == order[i][l].sale
  IN RecordSell(row[i], l, SellOutcome(f, run[i].got[l]), f, f * run[i].price)

\* A sale answered, and another leg to sell.
NextSale(i) ==
  /\ SellAnswered(i)
  /\ row' = [row EXCEPT ![i] = Sold(i)]
  /\ \E l \in Leg :
       /\ FirstOf(l, ToSell(run[i].got, run[i].leg))
       /\ run' = [run EXCEPT ![i].leg = l]
       /\ Sell(i, l, run[i].got[l])
  /\ UNCHANGED <<durable, held, report, standing, faults, halt>>

\* Mutant: this way out does not reach the journal.
UnwoundUnjournalled(i) ==
  /\ SellAnswered(i)
  /\ ToSell(run[i].got, run[i].leg) = {}
  /\ row' = [row EXCEPT ![i] = Sold(i)]
  /\ run' = [run EXCEPT ![i] = Idle]
  /\ UNCHANGED <<durable, order, held, report, standing, faults, halt>>

\* The last sale answered.  The code does not compare what was sold with what was held.
Unwound(i) ==
  /\ SellAnswered(i)
  /\ ToSell(run[i].got, run[i].leg) = {}
  /\ row' = [row EXCEPT ![i] = Transition(Sold(i), "FAILED")]
  /\ run' = [run EXCEPT ![i] = Idle]
  /\ UNCHANGED <<durable, order, held, report, standing, faults, halt>>

\* No usable response to a sale.
SellLost(i) ==
  /\ run[i].pc = "sell"
  /\ row' = [row EXCEPT ![i] =
               Transition(RecordSell(@, run[i].leg, "unknown", 0, 0), "UNKNOWN")]
  /\ run' = [run EXCEPT ![i] = Idle]
  /\ UNCHANGED <<durable, order, held, report, standing, faults, halt>>

-----------------------------------------------------------------------------
(* Reconciliation.  Nothing under src/ calls the Reconciler: the caller    *)
(* moves the row and applies the report's next_state.                      *)

\* What PositionSource.positions answers: the venue's account, by ticker.
Position(i, l) ==
  IF SharedTickers
    THEN FoldFunction(+, 0, [j \in Intent |-> held[j][l]])
    ELSE held[i][l]

\* Reconciler.check, on the positions read; `stray' if there are some of other tickers.
Verdict(found, stray) ==
  IF stray \/ \E l \in Leg : found[l] > Quantity THEN "overfilled"
  ELSE IF \A l \in Leg : found[l] <= 0 THEN "nothing_held"
  ELSE IF \A l \in Leg : found[l] = Quantity THEN "held_in_full"
  ELSE "partial"

\* ReconciliationReport.next_state.  Positions that could not be read conclude nothing:
\* RECONCILING -> UNKNOWN is no edge, and the row stays where it is.
NextState(verdict) ==
  IF verdict = "held_in_full" THEN "FILLED"
  ELSE IF verdict = "nothing_held" THEN "FAILED"
  ELSE "INCIDENT"

BeginReconcile(i) ==
  /\ row[i].state = "UNKNOWN"
  /\ row' = [row EXCEPT ![i] = Transition(@, "RECONCILING")]
  /\ UNCHANGED <<durable, run, order, held, report, standing, faults, halt>>

\* The venue reads the account.  Its answer is awaited, and what it holds may change
\* before anybody acts on it; a check may be made again.
ReadPositions(i, stray) ==
  /\ row[i].state = "RECONCILING"
  /\ report' = [report EXCEPT ![i] = Verdict([l \in Leg |-> Position(i, l)], stray)]
  /\ UNCHANGED <<row, durable, run, order, held, standing, faults, halt>>

Reconcile(i) ==
  /\ row[i].state = "RECONCILING"
  /\ report[i] # NoReport
  /\ row' = [row EXCEPT ![i] = Transition(@, NextState(report[i]))]
  /\ report' = [report EXCEPT ![i] = NoReport]
  /\ UNCHANGED <<durable, run, order, held, standing, faults, halt>>

-----------------------------------------------------------------------------
(* The venue, the registry and time                                        *)

\* The venue decides an order it has received: at once, or long after the caller
\* stopped waiting for the answer.
VenueBuys(i, l, filled) ==
  /\ order[i][l].buy = "open"
  /\ order' = [order EXCEPT ![i][l] = [@ EXCEPT !.buy = "done", !.bought = filled]]
  /\ held' = [held EXCEPT ![i][l] = @ + filled]
  /\ UNCHANGED <<row, durable, run, report, standing, faults, halt>>

VenueSells(i, l, filled) ==
  /\ order[i][l].sell = "open"
  /\ filled <= order[i][l].sale
  /\ order' = [order EXCEPT ![i][l] = [@ EXCEPT !.sell = "done", !.sale = filled]]
  /\ held' = [held EXCEPT ![i][l] = @ - filled]
  /\ UNCHANGED <<row, durable, run, report, standing, faults, halt>>

\* The registry withdraws the relationship the basket rests on.
Suspend(i) ==
  /\ standing[i]
  /\ standing' = [standing EXCEPT ![i] = FALSE]
  /\ UNCHANGED <<row, durable, run, order, held, report, faults, halt>>

Tick ==
  /\ \E i \in Intent : row[i].state = "AWAITING_HUMAN" /\ row[i].waited <= ApprovalTtl
  /\ row' = [i \in Intent |->
               IF row[i].state = "AWAITING_HUMAN" /\ row[i].waited <= ApprovalTtl
                 THEN [row[i] EXCEPT !.waited = @ + 1] ELSE row[i]]
  /\ UNCHANGED <<durable, run, order, held, report, standing, faults, halt>>

-----------------------------------------------------------------------------
(* The halt                                                                *)

Unresolved == {i \in Intent : row[i].state = "INCIDENT"}

TripHalt ==
  /\ \/ \E cause \in Alarms : Trip(cause)
     \/ CheckDailyLoss(RealisedLoss(row), DailyLossLimit)
     \/ CheckUnresolved(Cardinality(Unresolved))
  /\ UNCHANGED <<row, durable, run, order, held, report, standing, faults>>

ClearHalt ==
  /\ ~MayTrade
  /\ Clear("operator", "established")
  /\ UNCHANGED <<row, durable, run, order, held, report, standing, faults>>

-----------------------------------------------------------------------------
(* Faults                                                                  *)

\* The caller's session.commit().  The store itself only flushes.
Commit ==
  /\ faults < MaxFaults
  /\ durable' = row
  /\ UNCHANGED <<row, run, order, held, report, standing, faults, halt>>

\* An acquisition ends by an exception (a gateway that raises, a cancelled task):
\* acquire() has no handler, so ended() is never called.
Abort(i) ==
  /\ faults < MaxFaults
  /\ run[i].pc # "idle"
  /\ run' = [run EXCEPT ![i] = Idle]
  /\ faults' = faults + 1
  /\ UNCHANGED <<row, durable, order, held, report, standing, halt>>

OpenSales == {il \in Intent \X Leg : order[il[1]][il[2]].sell = "open"}

AmountsSold ==
  {sold \in [OpenSales -> 0 .. Quantity] :
     \A il \in OpenSales : sold[il] <= order[il[1]][il[2]].sale}

\* The process dies and restarts: the rows are those last committed, coroutines and
\* halt are gone, the venue keeps what it has.  Of a sale on its way the venue sold
\* what it sold, and nobody will hear the answer.
Crash(sold) ==
  /\ faults < MaxFaults
  /\ row' = durable
  /\ run' = [i \in Intent |-> Idle]
  /\ halt' = NotHalted
  /\ order' = [i \in Intent |-> [l \in Leg |->
                 [order[i][l] EXCEPT !.sell = "none", !.sale = 0]]]
  /\ held' = [i \in Intent |-> [l \in Leg |->
                 IF <<i, l>> \in OpenSales THEN held[i][l] - sold[<<i, l>>]
                                           ELSE held[i][l]]]
  /\ report' = [i \in Intent |-> NoReport]
  /\ faults' = faults + 1
  /\ UNCHANGED <<durable, standing>>

-----------------------------------------------------------------------------

Loop ==
  \/ Sweep
  \/ \E i \in Intent, p \in Prices, e \in Edges, a \in QuoteAges : Cycle(i, p, e, a)

Operator(i) ==
  \/ Decline(i)
  \/ \E p \in Prices, a \in QuoteAges : ApproveRefused(i, p, a)
  \/ \E p \in Prices, a \in QuoteAges : Approve(i, p, a)

\* What resumes a suspended acquisition.
Resume(i) ==
  \/ NextLeg(i)
  \/ Complete(i)
  \/ GiveUp(i)
  \/ Unwind(i)
  \/ BuyLost(i)
  \/ NextSale(i)
  \/ Unwound(i)
  \/ SellLost(i)

Caller(i) ==
  \/ \E p \in Prices, e \in Edges, a \in QuoteAges, h \in BOOLEAN :
       ExecuteDirectly(i, p, e, a, h)
  \/ BeginReconcile(i)
  \/ \E stray \in BOOLEAN : ReadPositions(i, stray)
  \/ Reconcile(i)

Venue(i, l) == \E f \in 0 .. Quantity : VenueBuys(i, l, f) \/ VenueSells(i, l, f)

Fault ==
  \/ Commit
  \/ \E i \in Intent : Abort(i)
  \/ \E sold \in AmountsSold : Crash(sold)

Next ==
  \/ Loop
  \/ \E i \in Intent : Operator(i)
  \/ \E i \in Intent : Resume(i)
  \/ \E i \in Intent : Caller(i)
  \/ \E i \in Intent, l \in Leg : Venue(i, l)
  \/ \E i \in Intent : Suspend(i)
  \/ Tick
  \/ TripHalt
  \/ ClearHalt
  \/ Fault

Spec == Init /\ [][Next]_vars

\* asyncio resumes a suspended acquisition once its gateway call returns, and a gateway
\* call returns, if only as UNKNOWN; the loop keeps cycling; time passes.
Fairness ==
  /\ \A i \in Intent : WF_vars(Resume(i))
  /\ WF_vars(Loop)
  /\ WF_vars(Tick)

LiveSpec == Spec /\ Fairness

-----------------------------------------------------------------------------
(* Properties                                                              *)

LegRow ==
  [ buy : Outcome \cup {NoOutcome}, bought : 0 .. Quantity,
    sell : Outcome \cup {NoOutcome}, sold : 0 .. Quantity ]

Row ==
  [ state : OrderState \cup {NoRow}, notional : Nat, edge : Nat,
    waited : 0 .. ApprovalTtl + 1, spent : Nat, recovered : Nat, leg : [Leg -> LegRow] ]

Coroutine ==
  [ pc : {"idle", "buy", "sell"}, leg : Leg, price : Nat, got : [Leg -> 0 .. Quantity] ]

Status == {"none", "open", "done"}
VenueOrder ==
  [buy : Status, bought : 0 .. Quantity, sell : Status, sale : 0 .. Quantity]

Finding == {"overfilled", "nothing_held", "held_in_full", "partial", NoReport}

\* Every variable has the shape the code gives it.
TypeOK ==
  /\ row \in [Intent -> Row]
  /\ durable \in [Intent -> Row]
  /\ run \in [Intent -> Coroutine]
  /\ order \in [Intent -> [Leg -> VenueOrder]]
  /\ held \in [Intent -> [Leg -> Int]]
  /\ report \in [Intent -> Finding]
  /\ standing \in [Intent -> BOOLEAN]
  /\ faults \in Nat
  /\ halt \in HaltCause \cup {NotHalted}

Capital(rows) == Exposure(rows, FALSE)

\* The caps hold of what is open, not just of each candidate when it was sized: the
\* total committed and the total unmatched stay within their limits however approvals,
\* direct acquisitions, unwinds and reconciliations interleave (gate.py:30-32).  It
\* needs the legs approved to be the legs proposed, since the row keeps its notional.
WithinCaps ==
  SameLegs =>
    /\ TotalCommitted(Capital(row)) <= MaxTotalExposure
    /\ TotalUnmatched(Capital(row)) <= MaxUnmatchedExposure

\* A basket recorded FILLED is held in full at the venue, on every leg, whichever of
\* the executor and reconciliation recorded it, and no late order changes that
\* afterwards (states.py:73).
FilledIsHeld ==
  ~SharedTickers =>
    \A i \in Intent : row[i].state = "FILLED" => \A l \in Leg : held[i][l] = Quantity

\* The answer to one of the intent's orders was lost.
Uncertain(r) == \E l \in Leg : r.leg[l].buy = "unknown" \/ r.leg[l].sell = "unknown"

\* While no answer was lost, the leg records account for every contract the venue
\* holds, except for the one order in flight (store.py:111-152).
RecordsMatchVenue ==
  faults = 0 =>
    \A i \in Intent, l \in Leg :
      \/ Uncertain(row[i])
      \/ run[i].pc # "idle" /\ run[i].leg = l
      \/ held[i][l] = row[i].leg[l].bought - row[i].leg[l].sold

Submitted(r) == ~(r.state \in {NoRow, "PROPOSED", "RISK_REJECTED", "RISK_APPROVED",
                               "AWAITING_HUMAN", "REJECTED", "EXPIRED"})

\* No order exists at the venue for an intent whose row does not say it was submitted
\* (models.py:442-447).  A crash can break it: see the run that lets one happen.
OrdersAreRecorded ==
  faults = 0 =>
    \A i \in Intent, l \in Leg : order[i][l].buy # "none" => Submitted(row[i])

\* An unwind that lost no answer offered every leg it had acquired for sale, whichever
\* leg fell short (executor.py:298).
UnwindCoversEveryLeg ==
  \A i \in Intent :
    row[i].state = "FAILED" /\ ~Uncertain(row[i]) =>
      \A l \in Leg : row[i].leg[l].bought > 0 => row[i].leg[l].sell # NoOutcome

\* A lost answer is never forgotten: the intent is UNKNOWN, or under reconciliation, or
\* ended by it, and its acquisition sends nothing more (executor.py:28-33).
UncertaintyStopsTheIntent ==
  \A i \in Intent :
    Uncertain(row[i]) =>
      /\ row[i].state \in {"UNKNOWN", "RECONCILING", "FILLED", "FAILED", "INCIDENT"}
      /\ run[i].pc = "idle"

BecomesSubmitted(i) == ~Submitted(row[i]) /\ Submitted(row'[i])

\* No intent starts to submit while another one is UNKNOWN: the store reports it, the
\* gate refuses, and there is no await between the two (gate.py:21-23).
UnknownBlocksSubmission ==
  [][ (\E i \in Intent : row[i].state = "UNKNOWN")
        => \A i \in Intent : ~BecomesSubmitted(i) ]_vars

\* An intent that ended never moves again, and its leg records never change
\* (states.py:86), as long as no crash takes the session back to the last commit.
EndedStaysEnded ==
  [][ \A i \in Intent :
        row[i].state \in OrderState /\ IsTerminal(row[i].state) =>
          row'[i] = row[i] \/ faults' # faults ]_vars

\* The key of an order about to be recorded is unused, so the unique constraint on
\* leg_order never fires, whatever a crash took back and a second approval sends again
\* (models.py:489-493).
NeverRecordedTwice ==
  \A i \in Intent :
    /\ run[i].pc = "buy" => row[i].leg[run[i].leg].buy = NoOutcome
    /\ run[i].pc = "sell" => row[i].leg[run[i].leg].sell = NoOutcome

\* Every submission is journalled an end, unless the acquisition was torn down from
\* outside (executor.py:175-181).
SubmissionEnds ==
  \A i \in Intent :
    row[i].state = "SUBMITTING" ~> row[i].state # "SUBMITTING" \/ faults > 0

\* A basket does not wait for ever: somebody answers, or a cycle retires it, or the loop
\* is halted and sweeps nothing (loop.py:132-171).
ParkedIsAnswered ==
  \A i \in Intent :
    row[i].state = "AWAITING_HUMAN" ~> row[i].state # "AWAITING_HUMAN" \/ ~MayTrade

-----------------------------------------------------------------------------
(* What a comment says of the code, and the code does not do.              *)

\* "INCIDENT means the system does not know what it holds", and stops everything: no
\* intent starts to submit while one is INCIDENT (gate.py:21-23).  But INCIDENT is
\* not an exposed state, and the store's snapshot leaves it out (store.py:188).
IncidentBlocksSubmission ==
  [][ (\E i \in Intent : row[i].state = "INCIDENT")
        => \A i \in Intent : ~BecomesSubmitted(i) ]_vars

\* "FAILED means the intent ended without the intended basket and without a position"
\* (reconcile.py:26-27).  But an unwind never compares what it sold with what it held
\* (executor.py:316-322).
FailedHoldsNothing ==
  \A i \in Intent :
    row[i].state = "FAILED" /\ ~Uncertain(row[i]) => \A l \in Leg : held[i][l] = 0

\* "The intent row is committed before the first order is sent" (store.py:13-14).  But
\* the store and the journal only flush (store.py:75, 108).
CommittedBeforeOrdered ==
  \A i \in Intent, l \in Leg : order[i][l].buy # "none" => Submitted(durable[i])

-----------------------------------------------------------------------------
(* What no fault-free execution breaks: the promises of BasketLifecycle.   *)

PhaseOf(state) ==
  CASE state = NoRow -> "unseen"
    [] state = "AWAITING_HUMAN" -> "parked"
    [] state = "UNKNOWN" -> "lost"
    [] state = "RECONCILING" -> "checking"
    [] state = "FILLED" -> "held"
    [] state = "SUBMITTING" -> "live"
    [] OTHER -> "over"

Lifecycle == INSTANCE BasketLifecycle WITH
  Basket <- Intent,
  Cap <- MaxTotalExposure,
  phase <- [i \in Intent |-> PhaseOf(row[i].state)],
  capital <- [i \in Intent |-> IF IsExposed(row[i].state) THEN row[i].notional ELSE 0],
  position <- held

\* Every fault-free execution is one BasketLifecycle allows.
KeepsLifecycle == Lifecycle!Spec

=============================================================================
