SPECIFICATION Spec
CONSTANTS
  MinInterval = 2
  MaxTime = 4
  MaxFrames = 2
INVARIANTS
  ReportsKnowProtocol
