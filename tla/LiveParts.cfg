\* One component at a time, with its own fairness.
SPECIFICATION LiveSpec
CONSTANTS
  GraphSteps = {1, 2}
  GraphVerdicts = {"completed", "failed"}
  GraphReconciles = TRUE
  MaxEdits = 2
  MaxAgents = 2
  AskIds = {1}
  MaxWork = 1
  MaxScheduleFails = 1
  MaxMishaps = 1
  Endings = {"TaskCompleted", "DeadlineExceeded", "NeedsHumanReview"}
  PageSize = 2
  DemoSteps = 2
  DemoTries = 3
  DemoFaults = 2
  Paths = {1}
  Reviewers <- NoReviewer
  Sweepers <- NoSweeper
  Cancels = TRUE
  Reconciles = TRUE
  Crashes = TRUE
INVARIANTS ReportsAreRight DemoIsDurable
PROPERTIES GraphConcludes DesktopSettles EverybodyIsTold EventuallyStarted
CHECK_DEADLOCK FALSE
