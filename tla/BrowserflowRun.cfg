CONSTANTS
  ActionNames = {send}
  Fingerprints = {fp1}
  Proofs = {p1}
  None = None
  MaxCompletedActions = 1
  Owner = owner
  Recoverers = {r1, r2}
  MaxDispatchAttempts = 2
  InputLockConfigured = TRUE
  RecoverWhileOwned = FALSE
SPECIFICATION FairSpec
CHECK_DEADLOCK FALSE
INVARIANTS AtMostOneRawInput JournalShowsInput ClosedMeansGone NoStrandedTarget
PROPERTIES NoInputAfterCleanup InputLockReleased
