CONSTANTS
  Requests = {1, 2}
  AckedSize = 6
  SeenSize = 1
  MaxFaults = 3
  MaxErrors = 2
  MaxUp = 1
  MaxTrouble = 3
SPECIFICATION MCFairSpec
INVARIANTS TypeOK NothingLost SentOnce
PROPERTIES ImplementsCalls AnsweredInTheEnd
CHECK_DEADLOCK FALSE
