\* Two events, overlapping activations of the retry job, a request by hand, pruning to
\* two rows, a restart: retries form one chain and end. It may stop when all is delivered.
SPECIFICATION FairSpec
CONSTANTS
  Events = {e1, e2}
  Test = ping
  Activations = {j1, j2}
  Requests = {q1}
  MaxRetries = 3
  RetryBatch = 2
  KeepRows = 2
  MaxWrites = 2
  MaxRestarts = 1
INVARIANTS
  OneChain
  PostsBounded
  NoRetryLost
  DeadEndpointDisabled
PROPERTIES
  RetriesEnd

CHECK_DEADLOCK FALSE
