SPECIFICATION PooledFairSpec
CONSTANTS
  Users = {u1, u2}
  Ghost = nobody
  Orgs = {o1}
  Deleters = {d1, d2, d3}
  Editors = {}
  PiiCols = {"birthday"}
  ScrubFields = {"birthday"}
  Payloads = {{"email"}}
  AuditEnabled = TRUE
  InitVersions = {0}
  NoRow = NoRow
  Free = Free
  Capacity = 2
INVARIANTS
  AuditOnlyForErased
  OkMeansErasedAndAudited
  ConnectionsFitTransactions
  NobodyIsStuck
PROPERTIES
  EveryRequestAnswered
  PoolOnlyDelays
CHECK_DEADLOCK FALSE
