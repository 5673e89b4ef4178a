SPECIFICATION Spec
CONSTANTS
  Users = {u1}
  Ghost = nobody
  Orgs = {o1}
  Deleters = {d1}
  Editors = {e1}
  PiiCols = {"phone", "birthday"}
  ScrubFields = {"birthday"}
  Payloads = {{"phone"}}
  AuditEnabled = TRUE
  InitVersions = {1}
  NoRow = NoRow
  Free = Free
SYMMETRY Symmetry
PROPERTIES
  DeletionScrubsTheRow
CHECK_DEADLOCK FALSE
