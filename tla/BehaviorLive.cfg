SPECIFICATION FairSpec
CONSTANTS
  Pids = {p1, p2}
  Outside = Outside
  Gone = Gone
  MaxBirths = 3
  ChanCap = 1
  BatchMax = 2
  Sensitive = {2}
  BackendName = "auto"
  Machines <- AnyMachine
PROPERTIES EventsSettle BackendEnds
