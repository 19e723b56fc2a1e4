SPECIFICATION Spec
CONSTANTS
  Conns = {c1, c2}
  Calls = {k1, k2, k3}
  None = None
  MaxInboundConns = 1
  MaxConcurrentCalls = 1
  Modes = {TRUE, FALSE}
  HasAge = TRUE
  HasIdle = TRUE
SYMMETRY Symmetry
CHECK_DEADLOCK FALSE
INVARIANTS AdmissionExact AnsweredOnce DrainSound
PROPERTIES NoAdmitAfterClose
