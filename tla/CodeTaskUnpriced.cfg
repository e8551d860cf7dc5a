\* No budget, nothing fails, but the provider names no price.
SPECIFICATION Spec
CONSTANTS
  MaxRetries = 0
  MaxTries = 2
  Overlap = 0
  Faulty = FALSE
  Lite = FALSE
  Adaptive = FALSE
  HasDeadline = FALSE
  Unpriced = Unpriced
  Prices <- PricesMixed
  Replayed = FALSE
  Audited = FALSE
  Budget = NoBudget
  NoBudget = NoBudget
  Estimate = 1
INVARIANTS UnpricedIsHarmless
CHECK_DEADLOCK FALSE
