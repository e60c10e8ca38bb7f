CONSTANTS
  StartPts = 1
  FirstPts = 1
  MaxPts = 3
  PtsCounts = {1}
  Ways = {"push", "known"}
  MayFail = FALSE
SPECIFICATION Spec
INVARIANT GapIsTimed
CHECK_DEADLOCK FALSE
