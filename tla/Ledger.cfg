\* Two contracts and sums of one to four half-cents, so that costs and fees carry a fraction
\* of a cent that rounding moves; six transactions pay in, reserve, fill, release, and close
\* by settlement or by unwinding.
CONSTANTS
  t1 = t1
  t2 = t2
  Ticker = {t1, t2}
  Amount = {0, 1, 4}
  Cent = 2
  MaxTransactions = 6
  MaxNow = 2
SPECIFICATION Spec
SYMMETRY Symmetry
CHECK_DEADLOCK FALSE
INVARIANTS
  ProfitIsMeasured
  NoMoneyFromNothing
  CapitalDaysExact
