\* A detached run and `mobius status`.
SPECIFICATION Spec
CONSTANTS
  c1 = c1
  c2 = c2
  Runtime = "run"
  Detached = TRUE
  Beats = 1
  Clients = {c1}
  Roles = {"status", "fast"}
  Faults = {}
  MaxDepth = 0
CHECK_DEADLOCK FALSE
INVARIANTS MarkedOnlyIfDead
