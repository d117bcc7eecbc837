SPECIFICATION Spec
CONSTANTS
  access = access
  iam = iam
  NoSubscriber = NoSubscriber
  Subscribers = {access, iam}
  Needs <- NeedsAccess
  Expiries = {4, 7}
  RequestTimeout = 5
  RetryTime = 2
  RefreshBuffer = 5
INVARIANTS
  OneLoop
  NoGapBetweenTokens
PROPERTIES
  BecomesReady
  TokenRenewed
