SPECIFICATION Spec
CONSTANTS
  N = 2
  Priority <- TwoPriorities
  Device <- TwoDevices
  Block <- TwoBlocks
  Minimum <- TwoMinima
  Maximum <- TwoMaxima
  Pool = 4
  HostTotal = 8
  Reserve = 1
  Margin = 1
  Faults = {"crash", "unread_start", "reject", "unknown", "late", "reset", "race"}
  None = None
INVARIANTS PoolRespected PriorityServed
