\* A delta with an impossible price is rejected and the book stays complete.
CONSTANTS
  yes = yes
  Level = {yes}
  Window = 2
  MaxQuantity = 2
  MaxNumber = 4
  MaxRestarts = 1
SPECIFICATION StreamSpec
INVARIANTS
  NoFailureStaysComplete
