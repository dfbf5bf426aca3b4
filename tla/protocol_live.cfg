SPECIFICATION FairProtocolSpec
CONSTANTS
  DeviceBlocks = 1
  GrowStep = 1
  ShrinkStep = 1
  MinDelay = 1
  MaxDelay = 1
  MaxTime = 1
  MaxStarts = 2
  GuestFaults = {"stale"}
  HostFaults = {"latch"}
  Conditions = {"low", "critical", "surplus", "diverged"}
  None = None
PROPERTY Served
