\* Two markets, two books: the first is polled a tick before the cycle is priced.
CONSTANTS
  t1 = t1
  t2 = t2
  q1 = q1
  q2 = q2
  Ticker = {t1, t2}
  Quotes = {q1, q2}
  MaxBookAge = 0
  MaxSequence = 2
  MaxCrashes = 1
SPECIFICATION Spec
PROPERTY AgeIsMeasured
