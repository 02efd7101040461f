CONSTANTS
  Ids = {1, 2}
  Needs = {"n1"}
  OtherArguments = {"invalid", "change"}
  MaxNeedsPerTask = 1
  MaxWorkersPerTask = 1
  MultiNeedEnabled = TRUE
  OrdinalMax = 2
  QueueMax = 1
  StoreMayFail = TRUE
  MaxLines = 3
  Editors = {"e1", "e2"}
  Inputs <- MCInputs
  MaxRoutes = 2
  MaxProfileAudit = 3
  Workers = {"w1"}
  WorkerRequests <- MCWorkerRequests
  Responses <- MCResponses
  CommandRuns <- MCCommandRuns
  RepairPolicies = {"repair once"}
  MaxRuns = 2
  Hosts = {"h1", "h2"}
  Clients = {"c1", "c2"}
  MaxStarts = 3
  Tabs = {"tab1", "tab2"}
  PlaneRoutes = {"r1"}
  WorkerModels = {1}
  SettingsInputs = {0, 2}
  PolicyInputs <- MCPolicyInputs
  ConfigFiles <- MCConfigFiles
  MaxAudit = 2
  MaxPlaneWrites = 1
  Openers = {"server", "hook", "other"}
  Migrations <- MCMigrations
  MaxOpenings = 4
  MainArms <- MCMainArms
  MissArms <- MCMissArms
  HitArms <- MCHitArms
  MaxTasks = 2
SPECIFICATION ServicesSpec
INVARIANTS
  LedgerIsStored
  AnswersInOrder
  AuditReplays
  ReadsOneState
  WorkerReportIsTrue
  ProcessesStartSafely
  AuthorityIsEarned
PROPERTIES
  RequestsAreAnswered
  EditsWhatItSaw
CHECK_DEADLOCK FALSE
