CONSTANTS
  Contenders = {p1, p2, p3}
  Cleaners = {}
  None = None
  Leased = TRUE
SPECIFICATION Spec
CHECK_DEADLOCK FALSE
INVARIANT MutualExclusion
