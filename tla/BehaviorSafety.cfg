SPECIFICATION Spec
CONSTANTS
  Pids = {p1, p2, p3}
  Outside = Outside
  Gone = Gone
  MaxBirths = 4
  ChanCap = 1
  BatchMax = 2
  Sensitive = {2}
  BackendName = "auto"
  Machines <- OnlyProcfs
SYMMETRY PidPerms
INVARIANTS TypeOK OnlyHooksTracked ChildrenReported InOrderOnce
PROPERTY WritesInOrder
