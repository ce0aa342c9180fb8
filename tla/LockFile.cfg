CONSTANTS
  Contenders = {p1, p2}
  Cleaners = {c1, c2}
  None = None
  Leased = TRUE
SPECIFICATION FairSpec
CHECK_DEADLOCK FALSE
PROPERTIES ImplementsLock HolderKeepsFile DeadLockReclaimed
