CONSTANTS
  Holds = {h1, h2, h3}
  Commands = {c1}
  None = None
  MaxFaults = 2
  MaxBrowser = 1
  Settings <- Reconnecting
SPECIFICATION FairSpec
CHECK_DEADLOCK FALSE
PROPERTIES RepairHeals
