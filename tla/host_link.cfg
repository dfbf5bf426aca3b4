SPECIFICATION FairSpec
CONSTANTS
  Values = {"a", "b"}
  MaxFaults = 1
  MaxPubs = 1
  LimitChunks = 2
INVARIANTS ReadsCleanly
PROPERTIES LinkHeals StatusHeals
CHECK_DEADLOCK FALSE
