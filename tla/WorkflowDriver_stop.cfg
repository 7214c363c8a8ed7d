SPECIFICATION DriverSpec
CONSTANTS
  SourceEvents = 1
  Limits = {1, 9}
  Kinds = {offline}
  RetryOn = {offline}
  OfflineOn = {offline}
  MaxAttempts = 2
  MaxConsecutive = 2
  SharedGuard = FALSE
  MaxRuns = 1
  Statuses = {up, down}
  None = None
INVARIANT StoppedOnEveryExit
CHECK_DEADLOCK FALSE
