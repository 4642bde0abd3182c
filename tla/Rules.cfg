SPECIFICATION Spec
CONSTANTS
  Star = Star
  AnyDepth = AnyDepth
  Defaults <- MCDefaults
  Parts = {a, b}
  MaxPattern = 4
  MaxPath = 4
  MaxFiles = 2
INVARIANTS GlobFindsCover NoPolicyLost CheckedIsLoaded NoIndicatorLost
CHECK_DEADLOCK FALSE
