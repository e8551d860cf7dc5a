\* Temporal with a timed-out try that goes on running beside the next one.
SPECIFICATION Spec
CONSTANTS
  MaxRetries = 1
  MaxTries = 2
  Overlap = 1
  Faulty = TRUE
  Lite = FALSE
  Adaptive = TRUE
  HasDeadline = FALSE
  Unpriced = Unpriced
  Prices = {1}
  Replayed = FALSE
  Audited = FALSE
  Budget = 3
  NoBudget = NoBudget
  Estimate = 1
INVARIANTS AttemptsAgree RowFollowsStream OneFinalDecision
CHECK_DEADLOCK FALSE
