----------------------------- MODULE OrderStates -----------------------------
(***************************************************************************)
(* The order intent state machine of arbbot/states.py: its states, the     *)
(* table of legal transitions, and the two classifications the risk gate   *)
(* reads.  NoRow stands for an intent that has no row in order_intent yet. *)
(***************************************************************************)

NoRow == "NO_ROW"

OrderState ==
  { "PROPOSED", "RISK_REJECTED", "RISK_APPROVED", "AWAITING_HUMAN", "REJECTED",
    "EXPIRED", "SUBMITTING", "PARTIAL", "HEDGING", "UNWINDING", "UNKNOWN",
    "RECONCILING", "FILLED", "FAILED", "INCIDENT", "SETTLED" }

\* Legal transitions, as pairs.  A state that is no pair's source is terminal.
Transitions ==
  ({"PROPOSED"} \X {"RISK_REJECTED", "RISK_APPROVED"})
    \cup ({"RISK_APPROVED"} \X {"AWAITING_HUMAN", "SUBMITTING"})
    \cup ({"AWAITING_HUMAN"} \X {"EXPIRED", "REJECTED", "SUBMITTING"})
    \cup ({"SUBMITTING"} \X {"PARTIAL", "FILLED", "FAILED", "UNKNOWN"})
    \cup ({"PARTIAL"} \X {"HEDGING", "UNWINDING", "FILLED", "FAILED"})
    \cup ({"HEDGING"} \X {"FILLED", "FAILED", "UNKNOWN"})
    \cup ({"UNWINDING"} \X {"FAILED", "UNKNOWN"})
    \cup {<<"UNKNOWN", "RECONCILING">>}
    \cup ({"RECONCILING"} \X {"FILLED", "FAILED", "INCIDENT"})
    \cup ({"FILLED"} \X {"SETTLED", "RECONCILING"})

CanTransition(source, target) == <<source, target>> \in Transitions

IsTerminal(s) == \A t \in OrderState : ~CanTransition(s, t)

\* States in which capital or a position may be at risk.
IsExposed(s) ==
  s \in { "SUBMITTING", "PARTIAL", "HEDGING", "UNWINDING", "UNKNOWN",
          "RECONCILING", "FILLED" }

HaltsOnIncidentOnly(s) == s = "INCIDENT"   \* mutant

\* States that must stop further strategy execution until a human resolves them.
HaltsStrategy(s) == s \in {"UNKNOWN", "INCIDENT"}

=============================================================================
