SPECIFICATION ProtocolSpec
CONSTANTS
  DeviceBlocks = 1
  GrowStep = 1
  ShrinkStep = 1
  MinDelay = 1
  MaxDelay = 1
  MaxTime = 3
  MaxStarts = 2
  GuestFaults = {"crash", "power", "io", "rollback"}
  HostFaults = {"latch", "expire"}
  Conditions = {}
  None = None
INVARIANTS PublishedRetained RetainedAdmissible SlotAgreed
PROPERTIES FaithfulAnswer IssuedInOrder
