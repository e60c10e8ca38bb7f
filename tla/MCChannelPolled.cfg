CONSTANTS
  StartPts = 1
  FirstPts = 1
  MaxPts = 5
  PtsCounts = {1, 2}
  Ways = {"push", "affected"}
  MayFail = FALSE
SPECIFICATION FairSpec
INVARIANT OneTimerServes
PROPERTIES HeardIsReached AskingEnds
CHECK_DEADLOCK FALSE
