SPECIFICATION RequestsSpec
CONSTANTS
  MaxReplays = 2
  MaxFreshReviews = 3
  MaxPolicyChanges = 1
  MaxStops = 1
  MaxConversations = 3
  MaxCreated = 1
  MaxRevisions = 1
  MaxTriages = 2
  TurnLimit = 1
  CallSlots = 1
  MaxPolicyEdits = 1
  MaxIntakeStops = 1
  Comments = {"comment"}
  Labels = {"ready", "ignore"}
  Routes <- MCRoutes
  MaxExecutions = 2
  MaxAdmitted = 2
  MaxClaims = 3
  MaxPolicyFlips = 1
  MaxActionStops = 1
  Lifecycle = {"checks", "merge", "flood"}
  Installations = {"install"}
  Ignored = {"star"}
  Contents = {"x", "y"}
  Pulls <- MCPulls
  Names <- MCNames
  MatchLimit = 2
  Handlers = {1, 2}
  MaxArrivals = 3
  Repos = {"app", "site"}
  Bootstrap = {"app"}
  Ids = {"i1", "i2", "i3"}
  Policies = {"p", "q"}
  FirstNamed <- MCFirstNamed
  MaxRequests = 2
  MaxChecks = 1
  MaxChanges = 1
  TaskOrder <- MCTaskOrder
  Target = "integrate"
  Plans <- MCPlans
  Scope <- MCScope
  RelativePaths = {"a", "b"}
  Submissions <- MCSubmissions
  MaxDrifts = 1
  StateTTL = 2
  SessionTTL = 3
  MaxLogins = 2
  MaxCallbacks = 2
  MaxTime = 5
  Processes = {server, agent}
  Limit = 1
  MaxEvents = 2
  MaxFailures = 1
  MaxStarts = 1
  Workers = {v, w}
  Providers = {codex, copilot}
  MaxTokens = 3
  Paths = {code, test, lock}
  Protected = {lock}
  MaxFiles = 1
  GateCount = 2
INVARIANTS
  SoundRecovery
  
  
  
  
  TrustedAssembly
  EarnedSessions
  CompleteActivity
  
  
 
\* Every bound is reached in the end.
CHECK_DEADLOCK FALSE
