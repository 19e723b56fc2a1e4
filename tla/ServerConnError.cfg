SPECIFICATION Spec
CONSTANTS
  Conns = {c1, c2}
  Calls = {k1, k2}
  None = None
  c1 = c1
  c2 = c2
  k1 = k1
  k2 = k2
  MaxInboundConns = 2
  MaxConcurrentCalls = 1
  Modes = {TRUE}
  HasAge = TRUE
  HasIdle = TRUE
SYMMETRY Symmetry
INVARIANTS
  ConnErrorReported
CHECK_DEADLOCK FALSE
