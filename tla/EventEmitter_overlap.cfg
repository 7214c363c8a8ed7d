SPECIFICATION EmitterSpec
CONSTANTS
  Events = {e1, e2}
  Unparseable = {}
  Flushers = {f1}
  Reemitted = {}
  MaxDisruptions = 0
  Exclusive = FALSE
  Torn = Torn
  Undecodable = Undecodable
  Unset = Unset
CHECK_DEADLOCK FALSE
INVARIANT EmitNeverDrops
