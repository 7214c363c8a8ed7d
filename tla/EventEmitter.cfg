SPECIFICATION FairEmitterSpec
CONSTANTS
  Events = {e1, e2, e3}
  Unparseable = {e3}
  Flushers = {f1}
  Reemitted = {e1}
  MaxDisruptions = 1
  Exclusive = TRUE
  Torn = Torn
  Undecodable = Undecodable
  Unset = Unset
INVARIANTS
  NoEventLost
  FlushedLeaves
PROPERTIES
  FlushInOrder
  BufferDrains
CHECK_DEADLOCK FALSE
