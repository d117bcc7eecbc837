SPECIFICATION FiltersSpec
CONSTANTS
  ServiceInfos <- MCServiceInfos
  HttpRequests <- MCHttpRequests
  Ampersands <- MCAmpersands
  Rules <- MCRules
  Requests <- MCRequests
  Methods = {"GET", "PUT"}
  MaxRegister = 6
  NoField = NoField
  NoVerb = NoVerb
  NoOverride = NoOverride
  NoAudience = NoAudience
  AccessToken = AccessToken
  MaxTokens = 2
INVARIANTS
  BackendSeesParametersOnce
  TokenOfItsAudience
  NoMissingTokens
