SPECIFICATION FairSpec
CONSTANTS
  Callers = {c1, c2}
  Sessions = {s1, s2}
  Endpoints = {e1}
  None = None
  MaxSessionsPerEndpoint = 2
  MaxIdleSessions = 1
  CapPer <- MuxCap
  HasIdleTimeout = FALSE
  HasLifetime = TRUE
  HasDialBudget = TRUE
CHECK_DEADLOCK FALSE
INVARIANTS FlightSound OwnCancelOnly
PROPERTIES OpenReturns CloseReleasesAll
