SPECIFICATION Spec
CONSTANTS
  Requests = {r1, r2}
  Names = {c1, c2}
  Keys = {k1}
  NoKey = NoKey
  MaxBatch = 1
  MaxTime = 0
  Serial = FALSE
SYMMETRY Symmetry
INVARIANTS
  BackupCodeSpentOnce
CHECK_DEADLOCK FALSE
