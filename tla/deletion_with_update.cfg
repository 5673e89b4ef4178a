SPECIFICATION Spec
CONSTANTS
  Users = {u1, u2}
  Ghost = nobody
  Orgs = {o1, o2}
  Deleters = {d1, d2}
  Editors = {e1}
  PiiCols = {"birthday"}
  ScrubFields = {"birthday"}
  Payloads = {{"birthday", "organization_id"}, {"organization_id"}}
  AuditEnabled = TRUE
  InitVersions = {0}
  NoRow = NoRow
  Free = Free
SYMMETRY Symmetry
INVARIANTS
  NotFoundMeansGone
  ErasedHoldsNoPii
  IInv
PROPERTIES
  TenantIsolation
  ErasureIsFinal
  ContractHolds
CHECK_DEADLOCK FALSE
