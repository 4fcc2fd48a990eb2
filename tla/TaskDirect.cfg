\* Direct mode, one activation of the review job, two dispatchers, no writes: the
\* unguarded updates after the awaits hit the task in the state they expect.
SPECIFICATION Spec
CONSTANTS
  Tasks = {t1, t2}
  Agents = {a1}
  People = {}
  NoAgent = NoAgent
  Blank = Blank
  ClaudeAgents = {}
  Pollers = {}
  Dispatchers = {d1, d2}
  Reviewers = {r1}
  Readers = {}
  GatewayModes = {FALSE}
  DirectAvailable = TRUE
  TargetSessions = FALSE
  GatewayOmitsRunId = FALSE
  AgentStatuses = {"online", "offline"}
  CreateStatuses = {"inbox"}
  GithubStatuses = {}
  PostReviewers = {}
  MaxDispatchRetries = 3
  MaxAegisRetries = 2
  AgentCapacity = 1
  RouteBatch = 2
  DispatchBatch = 2
  ReviewBatch = 2
  ReconcileBatch = 2
  MaxEdits = 0
  MaxRejections = 3
  CanCrash = FALSE
INVARIANTS
  WorkersOwnTheirTasks
  AnswerIsLatest
