CONSTANTS
  Runs = {a1, a2}
  Prompts = {p}
  Kinds = {"text"}
  None = None
  Foreign = Foreign
SPECIFICATION MCSpec
CHECK_DEADLOCK FALSE
INVARIANT RetryNeverDoubles
