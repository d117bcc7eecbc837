SPECIFICATION Spec
CONSTANTS
  Calls = {c1, c2}
  Retries = 2
  MixedInline = TRUE
SYMMETRY CallSymmetry
INVARIANTS
  NothingInFlightAfterDone
