SPECIFICATION Spec
CONSTANTS
  Procs = {p1, p2, p3}
SYMMETRY ProcPerms
INVARIANTS TypeOK MigratedIsComplete AloneSucceeds OvertakenOnce
