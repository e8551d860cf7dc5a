\* One component at a time.
SPECIFICATION ServerSpec
CONSTANTS
  r1 = r1
  r2 = r2
  s1 = s1
  Paths = {1}
  Reviewers <- OneAndAnother
  Sweepers <- OneSweeper
  Cancels = FALSE
  Reconciles = TRUE
  Crashes = TRUE
  BenchInstances = 2
  MaxIterations = 2
  FewInstances = 1
  ManyDiscordant = 1
  StatSpan = 12
  Candidates = {"c1", "c2", "c3"}
  Promoters = {"p1", "p2"}
  RecentOutcomes <- SomeOutcomes
  WorkAttempts = 2
  Trees = {"t1", "t2"}
  FirstTree = "t1"
  Edits <- ThereAndBack
  Oracles <- SecondTreePasses
  Replayers <- OneAndAnother
  Consolidators = {"c1"}
  MaxFacts = 1
  OtherTasks = 1
  ArchiveCallers = {"p1", "p2"}
  ModelReplies = {"A", "B"}
  ArchiveCalls = 3
  LiteCallers = {"k1", "k2"}
  MaxArguments = 3
  DayLength = 3
  LiteHorizon = 4
  StaleAfter = 1
  HandoffAttempts = 3
  HandoffCrashes = 2
  DoorTasks = {1, 2}
  DoorSchedules = {1}
  PatchedFiles = {"x", "y"}
  DiffSections = 2
  SandboxUses = 2
SYMMETRY Symmetry
INVARIANTS
  MeasurementIsSound  StorageIsFaithful DoorsAreHonest SandboxHonest
  HumanJudgesEscalated RowIsHonest
CHECK_DEADLOCK FALSE
