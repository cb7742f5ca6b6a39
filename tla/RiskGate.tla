------------------------------ MODULE RiskGate ------------------------------
(***************************************************************************)
(* The deterministic controls between a candidate and an order             *)
(* (arbbot/risk/gate.py), over the limits of arbbot/config.py.             *)
(*                                                                         *)
(* Money is counted in whole units.  A total of capital is the number of   *)
(* (intent, unit) pairs it is made of, so "derived from the rows, never    *)
(* accumulated" is literally what the definition says.                     *)
(***************************************************************************)
EXTENDS Integers, FiniteSets, OrderStates

CONSTANTS
  MaxOrderNotional,      (* RiskLimits.max_order_notional_usd               *)
  MaxTotalExposure,      (* RiskLimits.max_total_open_exposure_usd          *)
  MaxUnmatchedExposure,  (* RiskLimits.max_unmatched_exposure_usd           *)
  DailyLossLimit,        (* RiskLimits.daily_loss_limit_usd                 *)
  MinNetEdge,            (* RiskLimits.min_net_edge_usd                     *)
  MaxQuoteAge            (* RiskLimits.max_quote_age_ms                     *)

\* What config.RiskLimits refuses to boot without: positive limits, and an order
\* or unmatched cap that fits under the total.
RiskLimits ==
  /\ MaxOrderNotional \in Nat \ {0}
  /\ MaxTotalExposure \in Nat \ {0}
  /\ MaxUnmatchedExposure \in Nat \ {0}
  /\ DailyLossLimit \in Nat \ {0}
  /\ MinNetEdge \in Nat \ {0}
  /\ MaxQuoteAge \in Nat \ {0}
  /\ MaxOrderNotional <= MaxTotalExposure
  /\ MaxUnmatchedExposure <= MaxTotalExposure

ASSUME RiskLimitsValid == RiskLimits

\* A quote_age of None: the evaluation cannot say how old its inputs were.
AgeUnknown == -1

(***************************************************************************)
(* An exposure snapshot: the open intents the store reported, each a       *)
(* record of intent, state, committed, unmatched and reserved, and the     *)
(* loss realised today.                                                    *)
(***************************************************************************)
OpenIntents(snapshot) ==
  {o \in snapshot.intents : IsExposed(o.state) \/ o.reserved}

HaltingIntents(snapshot) == {o \in snapshot.intents : HaltsStrategy(o.state)}

TotalCommitted(snapshot) ==
  Cardinality(UNION {{o.intent} \X (1 .. o.committed) : o \in OpenIntents(snapshot)})

TotalUnmatched(snapshot) ==
  Cardinality(UNION {{o.intent} \X (1 .. o.unmatched) : o \in OpenIntents(snapshot)})

\* Mutant: the caps are compared with what is open before this basket.
AllowedBeforeAdding(notional, netEdge, quoteAge, snapshot) ==
  /\ HaltingIntents(snapshot) = {}
  /\ quoteAge # AgeUnknown /\ quoteAge <= MaxQuoteAge
  /\ netEdge >= MinNetEdge
  /\ notional > 0 /\ notional <= MaxOrderNotional
  /\ TotalCommitted(snapshot) <= MaxTotalExposure
  /\ TotalUnmatched(snapshot) <= MaxUnmatchedExposure
  /\ snapshot.lossToday < DailyLossLimit

\* RiskGate.evaluate: every control must pass, each compared after adding this basket.
Allowed(notional, netEdge, quoteAge, snapshot) ==
  /\ HaltingIntents(snapshot) = {}
  /\ quoteAge # AgeUnknown
  /\ quoteAge <= MaxQuoteAge
  /\ netEdge >= MinNetEdge
  /\ notional > 0
  /\ notional <= MaxOrderNotional
  /\ TotalCommitted(snapshot) + notional <= MaxTotalExposure
  /\ TotalUnmatched(snapshot) + notional <= MaxUnmatchedExposure
  /\ snapshot.lossToday < DailyLossLimit

=============================================================================
