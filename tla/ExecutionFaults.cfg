\* One basket of two legs, two contracts a leg, through at most two crashes or aborts,
\* with commits anywhere: enough for a submission that is lost, made again and lost again.
\* The instance liveness is checked on: its fault-free executions are among them.
CONSTANTS
  i1 = i1
  i2 = i2
  Intent = {i1}
  NumLegs = 2
  Quantity = 2
  Prices = {1}
  Edges = {1}
  QuoteAges <- Ages
  ApprovalTtl = 1
  CompiledIn = TRUE
  SameLegs = TRUE
  SharedTickers = FALSE
  Alarms = {"manual"}
  MaxFaults = 2
  MaxOrderNotional = 8
  MaxTotalExposure = 8
  MaxUnmatchedExposure = 4
  DailyLossLimit = 6
  MinNetEdge = 1
  MaxQuoteAge = 1
SPECIFICATION LiveSpec
CHECK_DEADLOCK FALSE
INVARIANTS
  FilledIsHeld
  UncertaintyStopsTheIntent
  NeverRecordedTwice
PROPERTIES
  SubmissionEnds
  ParkedIsAnswered
