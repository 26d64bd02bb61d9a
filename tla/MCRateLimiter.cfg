CONSTANTS
  Capacity = 7
  Refill = 2
  Costs <- MCCosts
  MaxTime = 6
SPECIFICATION Spec
INVARIANTS RateBound GrantsExactly
