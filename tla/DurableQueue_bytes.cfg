SPECIFICATION Spec
CONSTANTS
  Keys = {k1, k2}
  Torn = Torn
  Undecodable = Undecodable
  Unset = Unset
  MaxTears = 1
  MaxRewrite = 1
INVARIANT BadWriteSparesTheRest
CHECK_DEADLOCK FALSE
