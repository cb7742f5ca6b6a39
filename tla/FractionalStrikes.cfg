\* Buckets whose strikes are not whole pass the coverage check and leave an integer out.
CONSTANTS
  a = a
  b = b
  c = c
  d = d
  NoStrike = NoStrike
  One = 2
  Cent = 10
  IndexTicker = {d}
  Events <- MCEvents
  Values <- MCValues
  Antecedent = a
  Consequent = b
  Tables <- MCTables
  Books <- MCBooks
  Ages <- MCAges
  Quantities = {0, 2, 3}
  Reserves = {0, 3}
  MaxAge = 2
SPECIFICATION Spec
CHECK_DEADLOCK FALSE
INVARIANTS
  NoIntegerUnresolved
