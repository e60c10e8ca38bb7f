CONSTANTS
  LastDropped = 4
  Last = 6
  Batches = {2}
  MaxPauses = 1
  Formats = {"ARGB32"}
  Failures = {"convert"}
SPECIFICATION MCFairSpec
INVARIANTS TypeOK Handover NoSharedFrame NeverUnexpected PaintedHasFormat NothingLeftBehind
PROPERTIES ImplementsFlow GivenIsShown PlaybackEnds
CHECK_DEADLOCK FALSE
