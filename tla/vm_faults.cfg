SPECIFICATION Spec
CONSTANTS
  DeviceBlocks = 1
  BaseRam = 1
  MinRam = 1
  MaxRam = 2
  MaxExtension = 1
  MaxId = 2
  ObserveOnly = FALSE
  Faults = {"crash", "unreadable", "expire", "reject", "unknown", "publish", "external", "reset"}
  None = None
INVARIANTS
  TypeOK
  UnresolvedOwned
  NeverTwice
PROPERTIES
  TerminalFinal
  KeepsPromise
