CONSTANTS
  Peers = {p, q}
  Main = p
  Kinds = {"history", "delete", "destroy", "send"}
  MaxRequests = 3
  MaxTill = 2
  MaxEntries = 2
  SharedTill = 1
  MaxMade = 4
SPECIFICATION MCFairSpec
INVARIANTS TypeOK NoHistoryBesideDelete EntryPostponedIsBlocked CancelledIsGone ReadsInOrder
PROPERTIES ReadsAdvance PostponedIsSent EntryIsApplied WillIsSent
CHECK_DEADLOCK FALSE
