SPECIFICATION Spec
CONSTANTS
  N = 2
  Priority <- TwoPriorities
  Device <- TwoDevices
  Block <- TwoBlocks
  Minimum <- TwoMinima
  Maximum <- TwoMaxima
  Pool = 4
  HostTotal = 8
  Reserve = 1
  Margin = 1
  Faults = {"unreadable"}
  None = None
INVARIANT PoolRespected
