SPECIFICATION SupervisionSpec
CONSTANTS
  Peers = {"p", "q"}
  MaxEnds = 3
  MaxBlocks = 1
  MaxLag = 1
  Expectations = {"resize", "no_resize"}
INVARIANTS WokenByNews NothingLeft PassTruthful
PROPERTIES RoundsUntilStop OwnershipBounded
CHECK_DEADLOCK FALSE
