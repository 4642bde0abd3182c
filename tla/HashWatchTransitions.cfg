SPECIFICATION HSpec
CONSTANTS
  Dirs = {d1}
  Names = {n1}
  Contents = {good, bad}
  KnownBad = {bad}
  Absent = Absent
  NoTimer = NoTimer
  Timers = {t1, t2}
  MaxQueue = 2
  MaxOps = 3
INVARIANT EveryTransitionRecorded
