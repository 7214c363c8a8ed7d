SPECIFICATION AggregatorSpec
CONSTANTS
  Events <- MCEvents
  Buckets = {jam, low}
  NoBucket = NoBucket
  BucketOf <- MCBucketOf
  jam = jam
  low = low
  e1 = e1
  e2 = e2
  e3 = e3
  e4 = e4
  Window = 1
  Threshold = 2
  MaxClock = 3
  MaxTears = 1
  Torn = Torn
  Unset = Unset
INVARIANTS
  CountsHeard
  MissesByTears
