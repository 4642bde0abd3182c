SPECIFICATION Spec
CONSTANTS
  Paths = {a, b}
  Files = {f, g}
  Absent = Absent
  Tailers = {t1, t2}
  MaxLines = 2
  MaxStarts = 2
SYMMETRY Perms
INVARIANTS TypeOK LinesInOrder OncePerName NothingPassedOver SeenIsTailed
CHECK_DEADLOCK FALSE
