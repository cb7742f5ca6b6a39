\* Two one-leg baskets of two contracts: a partial fill that reconciliation finds is
\* an incident.  The caps admit both.
CONSTANTS
  i1 = i1
  i2 = i2
  Intent = {i1, i2}
  NumLegs = 1
  Quantity = 2
  Prices = {1}
  Edges = {1}
  QuoteAges <- Ages
  ApprovalTtl = 1
  CompiledIn = TRUE
  SameLegs = TRUE
  SharedTickers = FALSE
  Alarms = {}
  MaxFaults = 0
  MaxOrderNotional = 8
  MaxTotalExposure = 8
  MaxUnmatchedExposure = 4
  DailyLossLimit = 6
  MinNetEdge = 1
  MaxQuoteAge = 1
SPECIFICATION Spec
CHECK_DEADLOCK FALSE
PROPERTY IncidentBlocksSubmission
