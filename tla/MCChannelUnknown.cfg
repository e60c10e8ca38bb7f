CONSTANTS
  StartPts = 1
  FirstPts = 0
  MaxPts = 3
  PtsCounts = {1}
  Ways = {"push"}
  MayFail = FALSE
SPECIFICATION Spec
INVARIANT ActiveIsPolled
CHECK_DEADLOCK FALSE
