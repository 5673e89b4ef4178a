SPECIFICATION Spec
CONSTANTS
  Processes = {api, worker}
  Users = {"ann", "bob"}
  MfaUsers = {"ann"}
  RoleOf <- Roles
  Routes = {"payroll"}
  Allowed <- AdminRoutes
  Extras <- ExtraClaims
  AccessLife = 4
  ChallengeLife = 4
  ServiceLife = 6
  Skew = 1
  MaxTokens = 2
  MaxStart = 0
  MaxTime = 11
  None = None
SYMMETRY Symmetry
INVARIANTS
  TokensAreShortLived
  FreshTokensAreHonoured
  KindsStayApart
  AdmittedIsProven
CHECK_DEADLOCK FALSE
