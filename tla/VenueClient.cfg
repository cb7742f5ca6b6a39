\* Two coroutines, two attempts a call, an interval of two ticks; the circuit opens at the
\* second failure in a row, waits two ticks, then four at most.
CONSTANTS
  c1 = c1
  c2 = c2
  Caller = {c1, c2}
  Interval = 2
  MaxAttempts = 2
  Threshold = 2
  Backoff = 1
  BackoffMax = 2
  Cooldown = 2
  CooldownMax = 4
SPECIFICATION ClientLiveSpec
INVARIANTS
  BreakerAgrees
PROPERTIES
  Spaced
  ProbesBackOff
  CircuitCloses
  CallEnds
