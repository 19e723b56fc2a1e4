SPECIFICATION FairSpec
CONSTANTS
  Calls = {k1, k2}
  Readers = {k1}
  Closers = {x1, x2}
  None = None
  k1 = k1
  k2 = k2
  MaxConcurrentCalls = 1
  Chains <- AllChains
CHECK_DEADLOCK FALSE
INVARIANTS InFlightExact OpenNeverLeaks
PROPERTIES CallTruthful CallEnds
