\* Two claims in their transactions at once both find room.
CONSTANTS
  l1 = l1
  l2 = l2
  l3 = l3
  Lease = {l1, l2, l3}
  Consumer = {"collector", "probe", "survey"}
  Claim <- Shares
  Sends <- Rates
  Ceiling = 10
  Ttl = 1
  MaxCrashes = 1
SPECIFICATION Spec
CHECK_DEADLOCK FALSE
INVARIANTS
  RowsWithinCeiling
