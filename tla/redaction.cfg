SPECIFICATION Spec
CONSTANTS
  GroupSizes = {2, 3, 4, 6, 13}
  MaxGroups = 5
  Numbers <- GroupedNumbers
  Before <- WordsBefore
  After <- WordsAfter
INVARIANTS
  NumbersGoWhole
CHECK_DEADLOCK FALSE
