CONSTANTS
  MaxSeq = 5
  Lengths = {1, 2}
SPECIFICATION FairSpec
INVARIANTS NoContainerSkipped NoContainerTwice
PROPERTIES NothingDropped BufferedIsReached
CHECK_DEADLOCK FALSE
