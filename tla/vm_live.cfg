SPECIFICATION FairSpec
CONSTANTS
  DeviceBlocks = 3
  BaseRam = 1
  MinRam = 2
  MaxRam = 4
  MaxExtension = 2
  MaxId = 1
  ObserveOnly = FALSE
  Faults = {"unknown", "late", "unreadable"}
  None = None
PROPERTY Answered
