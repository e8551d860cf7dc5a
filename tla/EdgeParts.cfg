\* One component at a time.
SPECIFICATION EdgeSpec
CONSTANTS
  q1 = q1
  q2 = q2
  s1 = s1
  s2 = s2
  Candidates = 2
  Replies <- SomeReplies
  MaxDeltas = 2
  ToolCalls = {0, 1}
  WireChunks = 5
  ModelIds <- FourModels
  Catalog <- Curated
  FreeTier = {"loc", "fre"}
  LocalIds = {"loc"}
  TablePrice <- Prices
  LatencyOf <- Latencies
  CanTool = {"loc", "paid", "odd"}
  Ceilings = {1}
  ChainLength = 2
  MaxContents = 3
  MaxSaves = 2
  ReplyLength = 5
  TerminalSessions = {1, 2}
  MaxSessions = 2
  Terminals = {"t1", "t2"}
  Reboots = 1
  Requests <- TwoRequests
  Models = {1, 2}
  Limited = {2}
  Limit = 1
  Threshold = 2
  Calls = {"complete", "stream", "router"}
  Cancels = TRUE
  MinutesPerHour = 2
  HoursPerDay = 1
  DaysPerMonth = 2
  MonthsPerYear = 2
  DaysPerWeek = 3
  MaxScanDays = 12
  ScheduleIds <- TwoSchedules
  ScheduleCrons = {"minutely", "east", "west"}
  CronSamples = {"minutely", "hourly", "union", "wrong", "east", "west"}
  Offset <- Zones
  MaxCalls = 3
  Dawn = 2
  Horizon = 6
  CronSpan = 51
  MaxDowns = 1
  CronText <- Texts
  RemoteTries = 3
  GraphSteps = {1, 2, 3}
  GraphVerdicts = {"completed", "failed"}
  GraphReconciles = FALSE
SYMMETRY Symmetry
INVARIANTS
  StreamIsHonest PlansAreRight TextsAreKept ProcessesAreKept
  FiringsAreSound GraphIsSound OpenIsNearlyQuiet OneVoice QuotaOverrunBounded
PROPERTIES SaveReplacesWhatWasRead PauseHolds
CHECK_DEADLOCK FALSE
