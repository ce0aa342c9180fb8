CONSTANTS
  Leases = {l1}
  Targets = {t1, t2}
  Handlers = {h1}
  None = None
  Overlap = TRUE
  MaxRestarts = 1
SPECIFICATION FairSpec
CHECK_DEADLOCK FALSE
INVARIANTS LedgerDurable AnsweredTracked
PROPERTIES KeptOpen AbandonedReclaimed
