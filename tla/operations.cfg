SPECIFICATION OperationsSpec
CONSTANTS
  Daemons = {unit, byhand}
  Clears = {"clear"}
  Names = {a, b}
  MaxChanges = 2
  MaxAttests = 2
  MaxStarts = 3
  MaxEdits = 1
  MaxDeploys = 2
  MaxTree = 2
  MaxCommands = 8
  DeployFaults = {"torn_sync", "edit_in_sync", "late_build", "die", "unchecked"}
INVARIANTS OneActuator ResumedUnderEvidence EvidenceExact FilesKept
PROPERTIES ClearedQuiet EvidenceHolds ReportsTruthful
SYMMETRY Symmetry
CHECK_DEADLOCK FALSE
