\* A detached run, two commands; launcher, worker and commands may die, the worker
\* may raise, and its specification may no longer load.
SPECIFICATION Spec
CONSTANTS
  c1 = c1
  c2 = c2
  Runtime = "run"
  Detached = TRUE
  Beats = 1
  Clients <- TwoClients
  Roles = {"cancel", "fast", "qa"}
  Faults = {"kill", "launcher", "invalid", "error", "client"}
  MaxDepth = 2
CHECK_DEADLOCK FALSE
SYMMETRY ClientsAreAlike
INVARIANTS StatusBackedByEvent WorkerCancelsOnce CancelKeepsPromise CancelsBounded NoFalseCrash
