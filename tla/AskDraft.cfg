CONSTANTS
  Runs = {a1}
  Prompts = {p}
  Kinds = {"text"}
  None = None
  Foreign = Foreign
SPECIFICATION Spec
CHECK_DEADLOCK FALSE
PROPERTY DraftsKept
