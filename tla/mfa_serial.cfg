SPECIFICATION Spec
CONSTANTS
  Requests = {r1, r2}
  Names = {c1, c2}
  Keys = {k1, k2}
  NoKey = NoKey
  MaxBatch = 2
  MaxTime = 3
  Serial = TRUE
SYMMETRY Symmetry
INVARIANTS
  IInv
  BackupCodeSpentOnce
  RetiredCodesStayOut
  TotpReplayIsBounded
PROPERTIES
  RotatedKeyFailsClosed
  CodesAreOneTime
CHECK_DEADLOCK FALSE
