CONSTANTS
  Starters = {s1, s2}
  Sweepers = {w}
  Stoppers = {k}
  Crowds <- Pairs
  None = None
  s1 = s1
  s2 = s2
  w = w
  k = k
  MaxLaunches = 3
  MaxTries = 2
SPECIFICATION Spec
CHECK_DEADLOCK FALSE
INVARIANTS NoMoreThanStarts ReturnedIsRegistered 
