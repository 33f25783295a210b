SPECIFICATION UpdateFairSpec
CONSTANTS
  Last = 5
  Broken = {3}
  Bad = {4}
  MaxStarts = 2
  MaxFault = 2
  Patient = TRUE
INVARIANTS UpdateTypeOK KeptHasStayedUp StartsAreBounded
PROPERTIES RollbackIsPrevious BadGivesWay StationComesBack
CHECK_DEADLOCK FALSE
