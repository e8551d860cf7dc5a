\* The in-process runner: one try, suppressed recording errors, a process that may
\* die; replayed calls, some without a price, a budget and a deadline.
SPECIFICATION Spec
CONSTANTS
  MaxRetries = 2
  MaxTries = 1
  Overlap = 0
  Faulty = TRUE
  Lite = TRUE
  Adaptive = TRUE
  HasDeadline = TRUE
  Unpriced = Unpriced
  Prices <- PricesReplayed
  Replayed = TRUE
  Audited = TRUE
  Budget = 3
  NoBudget = NoBudget
  Estimate = 1
INVARIANTS OverrunBounded
PROPERTIES ImplementsLifecycle
CHECK_DEADLOCK FALSE
