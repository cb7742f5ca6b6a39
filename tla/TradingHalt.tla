----------------------------- MODULE TradingHalt -----------------------------
(***************************************************************************)
(* The latching stop of arbbot/risk/halt.py.  It lives in the process: a   *)
(* restart begins with no halt in force.                                   *)
(***************************************************************************)
EXTENDS Integers

VARIABLE halt   (* NotHalted, or the cause that tripped the halt first *)

NotHalted == "none"

HaltCause ==
  {"manual", "daily_loss", "reconciliation", "feed_outage", "venue_unreachable"}

MayTrade == halt = NotHalted

\* TradingHalt.trip: the first cause is kept, not the latest.
Trip(cause) == halt' = IF halt = NotHalted THEN cause ELSE halt

\* TradingHalt.clear: by a named person who says what was established.
Clear(operator, reason) ==
  /\ operator # "" /\ reason # ""
  /\ halt' = NotHalted

\* The automatic trips.
CheckDailyLoss(realisedLoss, limit) ==
  /\ limit > 0 /\ realisedLoss >= limit
  /\ Trip("daily_loss")

CheckUnresolved(unresolved) == unresolved > 0 /\ Trip("reconciliation")

CheckFeed(silence, maxSilence) == silence > maxSilence /\ Trip("feed_outage")

=============================================================================
