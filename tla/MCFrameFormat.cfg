CONSTANTS
  LastDropped = 4
  Last = 6
  Batches = {4}
  MaxPauses = 0
  Formats = {"ARGB32"}
  Failures = {"transfer"}
SPECIFICATION MCSpec
INVARIANTS PaintedHasFormat
CHECK_DEADLOCK FALSE
