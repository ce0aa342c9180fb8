CONSTANTS
  Callers = {c1, c2}
  Readers = {s1, u}
  Unscoped = {u}
  None = None
  MaxCalls = 4
  MaxEvents = 4
  Cap = 3
SPECIFICATION MCSpec
CHECK_DEADLOCK FALSE
INVARIANTS TypeOK NothingLeaks ReadLoopNeverBlocks NoLostWakeup
PROPERTIES ImplementsFeed BrokenEndsCalls GateIsPassedOn
