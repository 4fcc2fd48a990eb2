\* One task; two activations of the dispatcher, a reader, a polling agent, restarts, both
\* kinds of agents and gateways, and one write of the API or the GitHub pull: the ledger of handouts against every interleaving.
SPECIFICATION Spec
CONSTANTS
  Tasks = {t1}
  Agents = {a1, a2}
  People = {}
  NoAgent = NoAgent
  Blank = Blank
  ClaudeAgents = {a2}
  Pollers = {a1}
  Dispatchers = {d1, d2}
  Reviewers = {r1}
  Readers = {c1}
  GatewayModes = {TRUE, FALSE}
  DirectAvailable = TRUE
  TargetSessions = TRUE
  GatewayOmitsRunId = TRUE
  AgentStatuses = {"online", "offline"}
  CreateStatuses = {"inbox", "done"}
  GithubStatuses = {"done", "assigned"}
  PostReviewers = {"aegis", "owner"}
  MaxDispatchRetries = 2
  MaxAegisRetries = 2
  AgentCapacity = 1
  RouteBatch = 1
  DispatchBatch = 1
  ReviewBatch = 1
  ReconcileBatch = 1
  MaxEdits = 1
  MaxRejections = 3
  CanCrash = TRUE
INVARIANTS
  HandoutsArePaid
  DoneCarriesApproval
SYMMETRY Symmetry
PROPERTIES
  LedgerIsKept
