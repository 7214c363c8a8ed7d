SPECIFICATION FairPipelineSpec
CONSTANTS
  a = a
  b = b
  other = other
  Keys = {a, b, other}
  MaxTime = 2
  None = None
  Pipelines <- MCPipelines
INVARIANTS
  OneGateGoverns
  TimeoutIsNoGrant
  FirstTerminalIsLast
  AnswerHonoured
  NoOrphanTask
PROPERTIES
  ExpiryResolves
  CancelEnds
CHECK_DEADLOCK FALSE
