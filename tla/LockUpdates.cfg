\* Three processes, two of which may die at any system call.
SPECIFICATION FairSpec
CONSTANTS
  Procs = {p1, p2, p3}
  Mortals = {p1, p2}
  Nobody = Nobody
INVARIANTS
  NoChangeLost
PROPERTIES
  LockIsFreed
