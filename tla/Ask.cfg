CONSTANTS
  Runs = {a1, a2}
  Prompts = {p, q}
  Kinds = {"text", "upload", "image", "research"}
  None = None
  Foreign = Foreign
SPECIFICATION MCSpec
SYMMETRY Symmetry
CHECK_DEADLOCK FALSE
INVARIANTS TypeOK AnswerIsOwn SeenNeverDoubles ClosedIsRecoverable
PROPERTY SeenDraftsKept
