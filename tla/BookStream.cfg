\* One level of up to two contracts, four messages a subscription, two subscriptions, and a
\* window shorter than either, so that repeats fall out of it.
CONSTANTS
  yes = yes
  Level = {yes}
  Window = 2
  MaxQuantity = 2
  MaxNumber = 4
  MaxRestarts = 1
SPECIFICATION StreamSpec
INVARIANTS
  Faithful
  NothingHeardIsMissing
