SPECIFICATION FairSpec
CONSTANTS
  Events = {e1}
  Slots = {1, 2}
  Tolerance = 3
  Skew = 1
  None = None
INVARIANTS
  DuplicatesDieOut
  HandledIsWhatWasSent
PROPERTIES
  EveryEventSettles
CHECK_DEADLOCK FALSE
