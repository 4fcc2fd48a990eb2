\* Two tasks and two issues, three writes, two pushes, the poller and a request; a step of the clock
\* is the ten seconds of the skip window. The bounds end it.
SPECIFICATION GithubSpec
CONSTANTS
  TaskIds = {t1, t2}
  Issues = {1, 2}
  Statuses = {"inbox", "done"}
  Pullers = {q1, q2}
  Window = 1
  LastTime = 3
  MaxPushes = 2
  MaxWrites <- MCMaxWrites
INVARIANTS
  OneTaskPerIssue
  Agreement
PROPERTIES
  NoEcho
CONSTRAINT ShortOnceDisorderly
SYMMETRY Symmetry
CHECK_DEADLOCK FALSE
