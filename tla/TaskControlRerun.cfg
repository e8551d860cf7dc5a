\* The reconciler meets a task that was cancelled.
SPECIFICATION Spec
CONSTANTS
  r1 = r1
  r2 = r2
  s1 = s1
  Paths = {1, 2}
  Reviewers <- OneReviewer
  Sweepers <- NoSweeper
  Cancels = TRUE
  Reconciles = TRUE
  Crashes = FALSE
PROPERTIES RestartsOnlyUnstarted
CHECK_DEADLOCK FALSE
