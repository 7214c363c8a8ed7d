SPECIFICATION FairBridgeSpec
CONSTANTS
  j1 = j1
  j2 = j2
  c1 = c1
  c2 = c2
  c3 = c3
  Calls = {c1, c2, c3}
  Deadlined = {c1, c2}
  Jobs = {j1, j2}
  Unreadable = {j2}
  Outputs <- MCOutputs
  Failures = {"extractor", "other"}
  Limits <- MCLimits
  Anchors = {1, 2, 3}
  Sentinel = Sentinel
  SentinelLen = 2
  NotText = NotText
  None = None
  MaxVersion = 1
  MaxCloses = 1
INVARIANTS
  RaisesOnlyDisturbed
  NoStaleAnswer
  ShipsWhatIsAccepted
PROPERTIES
  AbandonedNeverStarts
  InterruptAnswered
CHECK_DEADLOCK FALSE
