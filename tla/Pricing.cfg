\* Tickers of four markets, five books, up to three contracts: walks that stop inside a
\* level, run past the best one, or run out; costs of fractions of a cent; an unverified
\* fee rule; every numeric event with strikes 0, 1, 2, and some at the halves.
CONSTANTS
  a = a
  b = b
  c = c
  d = d
  NoStrike = NoStrike
  One = 2
  Cent = 10
  IndexTicker = {d}
  Events <- MCEvents
  Values <- MCValues
  Antecedent = a
  Consequent = b
  Tables <- MCTables
  Books <- MCBooks
  Ages <- MCAges
  Quantities = {0, 2, 3}
  Reserves = {0, 3}
  MaxAge = 2
SPECIFICATION Spec
CHECK_DEADLOCK FALSE
INVARIANTS
  EdgeIsWithinRounding
  NoStateLoses
  ShadowMakesItWorse
