SPECIFICATION GuestSpec
CONSTANTS
  MaxStarts = 2
  MaxBells = 1
  ServiceFaults = {"crash", "status", "config", "worker", "early", "wake", "install"}
  Device = 7
  Block = 2
  Minimum = 0
  PhysicalReserve = 4
  CommitReserve = 2
  FloorPhysical = 2
  FloorCommit = 2
  Window = 4
  MaxGap = 2
  Hysteresis = 2
  MaxEntries = 4
  Limits <- MCLimits
  Loads <- MCLoads
  Sizes = {2, 6}
  Bases = {2, 3}
INVARIANTS WaitsForNews TargetFits
PROPERTIES ScmTruthful StopsAndRecovers ReclaimOnEvidence
CHECK_DEADLOCK FALSE
