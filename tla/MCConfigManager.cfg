SPECIFICATION Spec
CONSTANTS
  c1 = c1
  c2 = c2
  bad = bad
  NoId = NoId
  Configs = {c1, c2, bad}
  BadConfigs = {bad}
  MaxRollouts = 3
  MaxFetchFailures = 1
INVARIANTS
  TypeOK
  AlwaysServing
  SnapshotHasMostTraffic
PROPERTIES
  NeverBackwards
  Converges
