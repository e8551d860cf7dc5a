\* Plain completions that nobody cancels.
SPECIFICATION Spec
CONSTANTS
  q1 = q1
  q2 = q2
  Requests <- TwoRequests
  Models = {1, 2}
  Limited = {}
  Limit = 1
  Threshold = 1
  Calls = {"complete"}
  Cancels = FALSE
INVARIANTS ProbeInFlight
CHECK_DEADLOCK FALSE
