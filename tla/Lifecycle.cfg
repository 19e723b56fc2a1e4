SPECIFICATION LifeFairSpec
CONSTANTS
  Runners = {r1, r2}
  Stoppers = {d1}
  Services = {a, b}
  Configured = {a}
  Surfaces = {l1, l2}
  WithCause = {r1}
  Nobody = Nobody
CHECK_DEADLOCK FALSE
INVARIANTS OneRun RunJoins ResultExplained
PROPERTIES RunComesDown
