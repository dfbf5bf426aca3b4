SPECIFICATION Spec
CONSTANTS
  N = 2
  Priority <- TwoPriorities
  Device <- TwoDevices
  Block <- TwoBlocks
  Minimum <- TwoMinima
  Maximum <- TwoMaxima
  Pool = 7
  HostTotal = 5
  Reserve = 1
  Margin = 0
  Faults = {"crash", "unread_start", "reject", "unknown", "late"}
  None = None
INVARIANT ReserveKept
