SPECIFICATION FairSpec
CONSTANTS
  Rows = {1, 2, 3, 4}
  Limits = {0, 3}
  MAX_LIMIT = 2
  None = None
INVARIANTS
  IInv
  WalkIsExact
  LossIsBounded
PROPERTIES
  PagesLeadOn
  EveryWalkEnds
CHECK_DEADLOCK FALSE
