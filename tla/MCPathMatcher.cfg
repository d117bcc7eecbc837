SPECIFICATION Spec
CONSTANTS
  NoField = "-"
  NoVerb = "-"
  Rules <- MCRules
  Methods <- MCMethods
  Requests <- MCRequests
  MaxRegister = 3
INVARIANTS
  LookupFindsBest
  BindingsAreMatchedParts
