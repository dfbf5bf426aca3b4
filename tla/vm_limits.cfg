SPECIFICATION Spec
CONSTANTS
  DeviceBlocks = 4
  BaseRam = 1
  MinRam = 2
  MaxRam = 4
  MaxExtension = 2
  MaxId = 1
  ObserveOnly = FALSE
  Faults = {"crash", "reject", "unknown", "guest_unreadable"}
  None = None
INVARIANTS
  DurableBeforeCommand
  WithinLimits
  DivergenceOwned
  StatusTruthful
PROPERTY ResultMeasuresMovement
