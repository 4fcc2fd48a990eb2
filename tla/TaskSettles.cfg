\* Gateway mode with the limits of the code and an agent that is offline for good:
\* what it took or was sent is freed, and ends failed if it is never answered, after
\* five handouts at most.
SPECIFICATION FairSpec
CONSTANTS
  Tasks = {t1}
  Agents = {a1}
  People = {}
  NoAgent = NoAgent
  Blank = Blank
  ClaudeAgents = {}
  Pollers = {a1}
  Dispatchers = {d1}
  Reviewers = {r1}
  Readers = {c1}
  GatewayModes = {TRUE}
  DirectAvailable = TRUE
  TargetSessions = FALSE
  GatewayOmitsRunId = TRUE
  AgentStatuses = {"offline"}
  CreateStatuses = {"inbox"}
  GithubStatuses = {}
  PostReviewers = {}
  MaxDispatchRetries = 5
  MaxAegisRetries = 3
  AgentCapacity = 1
  RouteBatch = 1
  DispatchBatch = 1
  ReviewBatch = 1
  ReconcileBatch = 1
  MaxEdits = 0
  MaxRejections = 5
  CanCrash = FALSE
INVARIANTS
  UnattendedHandoutBound
PROPERTIES
  AssignedSettles
  ReviewEnds
