SPECIFICATION FairEdgeSpec
CONSTANTS
  e1 = e1
  e2 = e2
  e3 = e3
  Machines <- MCMachines
  Events <- MCEvents
  ReadingOf <- MCReadings
  Threshold = 2
  MaxAttempts = 2
  MaxBoots = 2
  Names = {"events", "pet log", "pet/log", "cat/log", "cat_log-d161b506e882", "con"}
  SpellingOf <- MCSpellingOf
  Holders = {"emitter", "second emitter", "aggregator"}
  StoredRecords = {e1, e2, e3}
  Nil = Nil
  Norm <- MCNorm
  Bodies <- MCBodies
  Scripted <- MCScripted
  Calls = {1, 2}
  Deadlined = {1, 2}
  Outputs <- MCOutputs
  Failures = {"transport", "unparseable"}
  MaxCloses = 0
  Sentinel = Sentinel
  SentinelLen = 2
  NotText = NotText
  None = None
INVARIANTS
  FileOfOneName
  StoreKeepsItsRecords
  HonestReason
  OnlyGroundedIsTold
  ColdIsNotOffline
  NotifiedAgainOnlyByRetry
PROPERTIES
  EventEnds
  StoresOnlyAccept
CHECK_DEADLOCK FALSE
