CONSTANTS
  Callers = {c1, c2, c3}
  Sessions = {s1, s2, s3}
  Endpoints = {e1}
  None = None
  MaxSessionsPerEndpoint = 2
  MaxIdleSessions = 1
  CapPer = 1
  HasIdleTimeout = TRUE
  HasLifetime = TRUE
  HasDialBudget = TRUE
SPECIFICATION Spec
SYMMETRY Symmetry
CHECK_DEADLOCK FALSE
INVARIANTS TypeOK LeasesExact ConnsAccounted
PROPERTIES NoCloseUnderCall
