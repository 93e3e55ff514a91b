\* A foreground evolution that is interrupted and cancelled.
SPECIFICATION Spec
CONSTANTS
  c1 = c1
  c2 = c2
  Runtime = "evolution"
  Detached = FALSE
  Beats = 5
  Clients <- TwoClients
  Roles = {"cancel", "status"}
  Faults = {"kill", "error", "int", "term"}
  MaxDepth = 1
CHECK_DEADLOCK FALSE
SYMMETRY ClientsAreAlike
INVARIANTS PidRemovedOnExit WorkerStory HandlerSpeaksLast
PROPERTIES KeepsTheSession
