SPECIFICATION Spec
CONSTANTS
  w1 = w1
  w2 = w2
  Workers = {w1, w2}
  CallingConfigs <- MCCallingConfigs
  MaxTokens = 2
  MaxReports = 1
INVARIANTS
  TokenBeforeTraffic
  RightToken
  UsersGoFirst
PROPERTIES
  WorkersCatchUp
  ReportsFlushed
