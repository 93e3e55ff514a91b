\* A detached run and one SIGTERM.
SPECIFICATION Spec
CONSTANTS
  c1 = c1
  c2 = c2
  Runtime = "run"
  Detached = TRUE
  Beats = 1
  Clients = {}
  Roles = {}
  Faults = {"term"}
  MaxDepth = 1
CHECK_DEADLOCK FALSE
INVARIANTS HandledMeansEnded
