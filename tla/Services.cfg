SPECIFICATION ServicesSpec
CONSTANTS
  NumIdentities = 3
  SiteClients = {3}
  Codes = {"c1"}
  CheckInDays = {"d1"}
  CheckInPoints = 1
  Rates = {1}
  MaxPaid = 2
  OrderRefs = {"o1"}
  Prices = {2}
  MaxInFlight = 2
  MaxMerges = 2

  Tools = {"t"}
  Results = {"ok", "no", "say"}
  Failing = {"no"}
  Final = {"say"}
  Settings <- MCSettings
  MaxSteps = 2
  MaxCalls = 2
  MaxTroubles = 2

  Queries = {q1, q2, q3, q4}
  Callers = {se1, se2}
  Budget = 3
  MaxHitches = 2
  NoQuery = NoQuery

  MaxTargets = 3
  Credentials = {k1, k2, k3}
  MaxRetries = 6
  ChatTargets = 2
  MaxRequests = 1

  Checkers = {ch1, ch2}
  RemoveAfter = 3
  MaxChecks = 7

  Files = {f1, f2}

  Statements <- MCStatements
  KeyOf <- MCKeyOf
  NoKey = "none"
  Says <- MCSays
  Importance <- MCImportance
  ManualWeight = 1
  MaxFacts = 2
  Searchers = {r1}
  MaxIds = 3

  Feeds = {"telegram", "weixin_oc", "satori", "kook", "kook_gateway", "slack", "line", "qq"}
  NumMessages = 3
  MaxErrors = 3

  Bots = {b1, b2}
  Owners = {o1, o2}
  Connectors = {i1, i2}
  Anyone = Anyone
  NoBot = NoBot
  Keys = {y1}
  Clerks = {cl1, cl2}

  NumRuns = 2
  Conversations = {"c"}
  ConvOf <- MCConvOf
  Workers = {w1, w2}
  MaxFaults = 2

  Jobs = {"j1"}
  Goals = {"note", "deploy", "daily"}
  Risky = {"deploy"}
  Periodic = {"daily"}
  Priority <- MCPriority
  MaxAttempts = 2
  AttemptCap = 2
  LeaseTime = 1
  FirstRuns = {1}
  Interval = 1
  Backoff <- MCBackoff
INVARIANTS
  NoOverdraft OrdersBooked OwnersPaidOnce
  PlanBeforeEffects PlansResume
  SearchesBounded RoutesCovered RoutedBySamples WantedFilesStay
  ApprovalGate OwnExecution OneGeneration
  OneFactPerKey LossesExplained SelectionDecides
  ServicesTypeOK
PROPERTIES
  SavedStepsStay CheckInOnce
  OldWordsStayOut
CHECK_DEADLOCK FALSE
