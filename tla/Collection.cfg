\* Two markets, two books, three numbers a stream, one crash.
CONSTANTS
  t1 = t1
  t2 = t2
  q1 = q1
  q2 = q2
  Ticker = {t1, t2}
  Quotes = {q1, q2}
  MaxBookAge = 0
  MaxSequence = 3
  MaxCrashes = 1
SPECIFICATION Spec
SYMMETRY Symmetry
INVARIANTS
  ReplayRebuilds
  NumbersIncrease
PROPERTIES
  AcceptedOnFetched
