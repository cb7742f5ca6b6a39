\* The three commands that lease, at the shares they ask for under the real ceiling: the
\* collector fits with either of the others, the others not together.  Three claims, one
\* crash; leases are refreshed in time, late or never.
CONSTANTS
  l1 = l1
  l2 = l2
  l3 = l3
  Lease = {l1, l2, l3}
  Consumer = {"collector", "probe", "survey"}
  Claim <- Shares
  Sends <- Rates
  Ceiling = 10
  Ttl = 1
  MaxCrashes = 1
SPECIFICATION LiveSpec
CHECK_DEADLOCK FALSE
INVARIANTS
  LeasesFit
PROPERTIES
  LiveShareStays
  DeadShareReturns
