\* Two editors and OpenClaw; three notifications, one call and the daemon; two requests
\* that advance a pipeline of three steps; two provisioning jobs and two administrators;
\* two clients and a map with one entry; three sockets to the gateway; three terminals.
\* Each may come to rest.
SPECIFICATION Spec
CONSTANTS
  Editors = {e1, e2}
  Lists = {l1, l2}
  NoFile = NoFile
  MaxSaves = 3
  Notes = {1, 2, 3}
  Recipients = {a, x}
  Dead = {x}
  Deliveries = {d1, d2}
  Daemon = d1
  Limit = 2
  MaxFaults = 1
  RunRequests = {q1, q2}
  LastStep = 3
  MaxSpawns = 2
  ProvisionJobs = {j1, j2}
  Tenants = {n1}
  Admins = {alice, bob}
  Unapproved = Unapproved
  PlanSteps = 1
  ExecModes = {TRUE, FALSE}
  Restarts = TRUE
  Clients = {k1, k2}
  WindowMs = 2
  MaxRequests = 1
  MaxEntries = 1
  LastMs = 5
  LastSocket = 3
  MaxAttempts = 1
  MaxMissed = 1
  MaxStrays = 1
  PathsToTry = 1
  Optional = FALSE
  Connections = {c1, c2, c3}
INVARIANTS
  TypeOK
  SavesAreKept
  TwiceAtMost
  SpawnsInOrder
  SerialRunIsConsistent
  TwoPersonRule
  TransientWhileExecuted
  OneLiveSocket
  ShownIsGuarded
  LostIsRetried
  PtyIsWatched
PROPERTIES
  EachIsDelivered
  SettledRunRests
CHECK_DEADLOCK FALSE
