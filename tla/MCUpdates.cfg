CONSTANTS
  StartPts = 1
  MaxPts = 5
  PtsCounts = {1, 2}
  Ways = {"push", "result", "affected"}
SPECIFICATION FairSpec
INVARIANTS TypeOK NothingSkipped InOrder WaitsOrAsks
PROPERTIES NoReplay ImplementsLog HeardIsReached AskingEnds
CHECK_DEADLOCK FALSE
