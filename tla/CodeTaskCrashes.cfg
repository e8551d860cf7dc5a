\* Temporal with tries that die; one retry, three tries, a deadline.
SPECIFICATION FairSpec
CONSTANTS
  MaxRetries = 1
  MaxTries = 3
  Overlap = 0
  Faulty = TRUE
  Lite = FALSE
  Adaptive = TRUE
  HasDeadline = TRUE
  Unpriced = Unpriced
  Prices <- PricesUneven
  Replayed = FALSE
  Audited = FALSE
  Budget = 4
  NoBudget = NoBudget
  Estimate = 1
INVARIANTS CompletedIsVerified VerdictsAreTrue EndIsRecorded
PROPERTIES EventuallyCloses
CHECK_DEADLOCK FALSE
