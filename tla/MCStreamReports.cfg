SPECIFICATION Spec
CONSTANTS
  Services <- MCServices
  Requests <- MCRequests
  Projects = {"", "project"}
  TicksPerMs = 2
  MinInterval = 1
  HeaderSizes = {1, 2}
  MaxFrames = 1
  MaxTime = 4
INVARIANTS
  TypeOK
  RequestCountedOnce
  LatenciesAddUp
  BytesShrinkOnlyByHeaders
  LoadedIsJustified
PROPERTIES
  OneConsumer
