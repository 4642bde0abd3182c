SPECIFICATION Spec
CONSTANTS
  Hooks = {h1}
  Durations = {1, 2, 9}
  MinSamples = 2
  Window = 2
  WarnZ = 1
  AlertZ = 3
  Wraps = {w1, w2}
  Daemon = daemon
  LogParser = FALSE
  Resetter = resetter
  NoStats = NoStats
  MaxRecords = 3
  MaxResets = 1
SYMMETRY WrapPerms
INVARIANT ResetRestartsLearning
