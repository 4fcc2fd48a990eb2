\* Two agents whose names differ in a dot, two calls under way; two tasks on the board, the
\* second still to be created, a page of one task, a project of one task, two fetches, one
\* drag, one failure; three skills, two of them of an agent. Each may come to rest.
SPECIFICATION Spec
CONSTANTS
  AgentNames = {"neo", "neo."}
  Ids = {"neo", "neo."}
  PostId <- MCPostId
  PutId <- MCPutId
  DeleteId <- MCPutId
  ConfigFields = {"primary", "fallbacks"}
  Configs <- MCConfigs
  Callers = {s, q}
  MaxWishes = 2
  MaxErrors = 1
  BoardTasks = {1, 2}
  Columns = {"inbox", "done"}
  Projects <- MCProjects
  PageLimit = 1
  Moves = {d1}
  MaxReconnects = 1
  MaxFetches = 2
  MaxChanges = 2
  MaxDrops = 1
  Silently = TRUE
  Skills = {"review", "deploy", "test"}
  Source <- MCSource
  Fixed = {"user-agents"}
  Texts = {x1, x2}
  SkillWriters = {w1, w2}
  MaxSkillEdits = 2
INVARIANTS
  FollowsTable
  SaveIsUnified
PROPERTIES
  FileIsMirrored
  SkillsMirrored
  PollRepairs
CHECK_DEADLOCK FALSE
