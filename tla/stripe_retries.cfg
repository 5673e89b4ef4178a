SPECIFICATION Spec
CONSTANTS
  Writes <- OneBadAccount
  Accounts = {"acct_r", "acct_d"}
  Platform = "platform"
  Configured = {"recruitment", "digital"}
  Amounts = {5, 7}
  MaxAttempts = 4
  Window = 1
  MaxTime = 1
INVARIANTS
  IInv
  ChargedOncePerWindow
  SuccessIsOwnCharge
  MismatchIsOwnDoing
PROPERTIES
  RetriesAreIdempotent
CHECK_DEADLOCK FALSE
