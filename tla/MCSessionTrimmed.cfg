CONSTANTS
  Requests = {1, 2}
  AckedSize = 1
  SeenSize = 2
  MaxFaults = 0
  MaxErrors = 0
  MaxUp = 1
  MaxTrouble = 0
SPECIFICATION MCSpec
INVARIANTS NothingLost
CHECK_DEADLOCK FALSE
