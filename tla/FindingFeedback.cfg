\* One rejection and the dispatch after it.
SPECIFICATION Spec
CONSTANTS
  Tasks = {t1}
  Agents = {a1}
  People = {}
  NoAgent = NoAgent
  Blank = Blank
  ClaudeAgents = {}
  Pollers = {}
  Dispatchers = {d1}
  Reviewers = {r1}
  Readers = {}
  GatewayModes = {FALSE}
  DirectAvailable = TRUE
  TargetSessions = FALSE
  GatewayOmitsRunId = FALSE
  AgentStatuses = {"online", "offline"}
  CreateStatuses = {"inbox"}
  GithubStatuses = {}
  PostReviewers = {}
  MaxDispatchRetries = 3
  MaxAegisRetries = 2
  AgentCapacity = 1
  RouteBatch = 1
  DispatchBatch = 1
  ReviewBatch = 1
  ReconcileBatch = 1
  MaxEdits = 0
  MaxRejections = 3
  CanCrash = FALSE
PROPERTIES
  FeedbackReachesAgent
