CONSTANTS
  StartPts = 1
  FirstPts = 1
  MaxPts = 3
  PtsCounts = {1}
  Ways = {"push"}
  MayFail = TRUE
SPECIFICATION FairSpec
PROPERTY AskingEnds
CHECK_DEADLOCK FALSE
