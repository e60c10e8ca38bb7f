CONSTANTS
  StartPts = 1
  FirstPts = 0
  MaxPts = 4
  PtsCounts = {1, 2}
  Ways = {"push", "affected", "known"}
  MayFail = TRUE
SPECIFICATION Spec
INVARIANT TypeOK
PROPERTY ImplementsLog
CHECK_DEADLOCK FALSE
