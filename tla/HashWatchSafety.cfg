SPECIFICATION Spec
CONSTANTS
  Dirs = {d1}
  Names = {n1, n2}
  Contents = {good, bad}
  KnownBad = {bad}
  Absent = Absent
  NoTimer = NoTimer
  Timers = {t1, t2}
  MaxQueue = 2
  MaxOps = 3
SYMMETRY Perms
INVARIANTS TypeOK NoMissedChange DriftIsAlerted NoFalseAlarm
PROPERTY KeepsPromise
