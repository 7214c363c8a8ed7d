SPECIFICATION FairDriverSpec
CONSTANTS
  SourceEvents = 2
  Limits = {1, 9}
  Kinds = {offline, busy, bug}
  RetryOn = {offline, busy}
  OfflineOn = {offline}
  MaxAttempts = 2
  MaxConsecutive = 2
  SharedGuard = TRUE
  MaxRuns = 2
  Statuses = {up, down}
  None = None
INVARIANTS
  AbortIffStuck
  BudgetSpent
  LeavesNothingRunning
PROPERTIES
  TeardownEnds
  SilenceIsObserved
CHECK_DEADLOCK FALSE
