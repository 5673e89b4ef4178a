SPECIFICATION Spec
CONSTANTS
  Users = {u1}
  Ghost = nobody
  Orgs = {o1}
  Deleters = {d1}
  Editors = {}
  PiiCols = {"email", "birthday"}
  ScrubFields = {"birthday"}
  Payloads = {{"email"}}
  AuditEnabled = TRUE
  InitVersions = {1}
  NoRow = NoRow
  Free = Free
SYMMETRY Symmetry
INVARIANTS
  ErasedAccountsAreAudited
CHECK_DEADLOCK FALSE
