SPECIFICATION Spec
CONSTANTS
  MinInterval = 2
  MaxTime = 4
  MaxFrames = 2
INVARIANTS
  TypeOK
  NoNullDereference
  NothingPassesUnchecked
  DecidedOnce
  CancelFnExact
  BadKeyNeverUsed
  FirstAndFinalReport
PROPERTIES
  HeldRequestResumes
