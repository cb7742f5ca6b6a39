\* Two baskets of two legs, two contracts a leg: enough for a full, a partial and an
\* empty fill on a first and on a last leg.  The caps admit two cheap baskets at once,
\* or one dear one.  No faults.
CONSTANTS
  i1 = i1
  i2 = i2
  Intent = {i1, i2}
  NumLegs = 2
  Quantity = 2
  Prices = {1, 2}
  Edges = {1}
  QuoteAges <- Ages
  ApprovalTtl = 1
  CompiledIn = TRUE
  SameLegs = TRUE
  SharedTickers = FALSE
  Alarms = {"manual"}
  MaxFaults = 0
  MaxOrderNotional = 8
  MaxTotalExposure = 8
  MaxUnmatchedExposure = 8
  DailyLossLimit = 6
  MinNetEdge = 1
  MaxQuoteAge = 1
SYMMETRY Symmetry
SPECIFICATION Spec
CHECK_DEADLOCK FALSE
INVARIANTS
  WithinCaps
  RecordsMatchVenue
  OrdersAreRecorded
  UnwindCoversEveryLeg
PROPERTIES
  UnknownBlocksSubmission
  KeepsLifecycle
