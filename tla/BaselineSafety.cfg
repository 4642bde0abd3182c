SPECIFICATION Spec
CONSTANTS
  Hooks = {h1}
  Durations = {1, 2, 9}
  MinSamples = 3
  Window = 3
  WarnZ = 1
  AlertZ = 3
  Wraps = {w1}
  Daemon = daemon
  LogParser = TRUE
  Resetter = resetter
  NoStats = NoStats
  MaxRecords = 4
  MaxResets = 1
SYMMETRY WrapPerms
INVARIANTS TypeOK NoEarlyAnomaly
PROPERTY QuietOperationsAgree
