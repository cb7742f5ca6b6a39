\* The collector returns to a book it has stored, the probe having stored another in between.
CONSTANTS
  a = a
  b = b
  collector = collector
  probe = probe
  Poller = {collector, probe}
  Cent = 1
  IndexTicker = {}
  EventOf <- MCEventOf
  Route <- MCRoute
  LegOrder <- MCLegOrder
  Payloads <- MCPayloads
  Interval <- MCInterval
  HealthInterval = 1
  MaxLegAge = 1
  Horizon = 2
  Window = 2
  Quantity = 1
  Draws <- MCDraws
  GapThreshold = 1
  GateDuration = 2
  MaxNow = 3
  MaxCycle = 1
  MaxPolls = 3
  MaxRestarts = 1
SPECIFICATION ArchiveSpec
CHECK_DEADLOCK FALSE
INVARIANT
  QuoteIsLatest
